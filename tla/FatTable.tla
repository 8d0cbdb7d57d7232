------------------------------ MODULE FatTable ------------------------------
(***************************************************************************)
(* What drivers/fs/fat32.c keeps on the disk besides the contents of       *)
(* files: the two copies of the file allocation table and the entries of   *)
(* the root directory (the only one the driver searches).                  *)
(*                                                                         *)
(* Every sector the driver writes is a step of its own, so that a transfer *)
(* may fail, or the machine stop, between any two of them.  An operation   *)
(* in progress is the record op: the table entry being written and what    *)
(* the function that writes it goes on to do.  The driver is entered by    *)
(* one thread at a time, so there is one operation in progress at most.    *)
(*                                                                         *)
(* Handles are followed as far as the table is concerned: which cluster a  *)
(* handle starts at and which it is in.  Contents, sizes and positions are *)
(* module FatFile's; names, and renaming, leave the table alone and are    *)
(* left out: a file is its directory slot.                                 *)
(***************************************************************************)
EXTENDS Integers, FiniteSets

CONSTANTS
    LastCluster,    \* highest cluster number (127005)
    PerSector,      \* table entries in a sector (128)
    Slots,          \* number of entries that fit in the root directory
    Handles,        \* the callers' fat32_handle_t
    MaxHops,        \* how far seeks and truncations go along a chain
    Parents,        \* what an uninitialised parent_cluster may lead to
    MaxFaults       \* failed transfers and crashes in a behaviour

Root == 2                               \* fs_info.root_dir_cluster
Clusters == 2 .. LastCluster
FREE == 0                               \* FAT32_FREE_CLUSTER
BAD == LastCluster + 1                  \* FAT32_BAD_CLUSTER
LAST == LastCluster + 2                 \* FAT32_LAST_CLUSTER
Values == Clusters \cup {FREE, BAD, LAST}

\* The variable parent_cluster is set only if the name is found, and used when
\* it is not: the root, something that is not a directory, or no cluster.
ParentKinds == {"root", "elsewhere", "beyond"}

NoHandle == "no handle"
Vacant == 0
Closed == [head |-> 0, current |-> 0]

ASSUME FatAssumption ==
    /\ LastCluster \in Nat /\ LastCluster > Root
    /\ PerSector \in Nat \ {0}
    /\ Slots \in Nat
    /\ MaxHops \in Nat /\ MaxFaults \in Nat
    /\ Parents \subseteq ParentKinds
    /\ NoHandle \notin Handles

VARIABLES
    fat1, fat2,     \* the two tables on the disk
    dir,            \* the first cluster of the entry in each slot of the root
                    \* directory on the disk, or Vacant
    handle,         \* handle[h].head, handle[h].current: first_cluster, current_cluster
    op,             \* the operation in progress
    events,         \* what happened that the code does not recover from
    faults          \* how many transfers failed and crashes happened

vars == <<fat1, fat2, dir, handle, op, events, faults>>

disk == <<fat1, fat2, dir>>

\* at: the sector to write next.  c, v: the table entry and its new value.
\* then: what follows the table write.  next: the rest of the chain, or the
\* cluster being appended.  slot: the entry to remove after a chain is freed.
Idle == [at |-> "idle", c |-> Root, v |-> FREE, then |-> "done", next |-> LAST,
         slot |-> 0, h |-> NoHandle]

Events == {"crash", "io", "full", "stray", "removed open"}

----------------------------------------------------------------------------
(* Reading the disk.                                                       *)

\* read_fat_entry: a number that is no cluster reads as BAD.
ReadFat(c) == IF c \in Clusters THEN fat1[c] ELSE BAD

\* Mutant: the search reads the second table.
FreeClustersOfMirror == {c \in Clusters : c >= 3 /\ fat2[c] = FREE}

\* What find_free_cluster finds: the first free one from 3 up, or BAD.
FreeClusters == {c \in Clusters : c >= 3 /\ fat1[c] = FREE}
Found == IF FreeClusters = {} THEN {BAD}
         ELSE {c \in FreeClusters : \A d \in FreeClusters : c <= d}

Live == {s \in 1 .. Slots : dir[s] # Vacant}
VacantSlots == (1 .. Slots) \ Live

\* The k-th cluster of the chain of c, as the loops of fat32_seek and
\* fat32_truncate read it.
Walk(c, k) == LET w[i \in 0 .. MaxHops] == IF i = 0 THEN c ELSE ReadFat(w[i - 1])
              IN  w[k]

IsOpen(h) == handle[h] # Closed

----------------------------------------------------------------------------
(* Table writes.                                                           *)

\* write_fat_entry(c, v), and then what follows.
Write(c, v, then, next) ==
    [Idle EXCEPT !.at = "fat1", !.c = c, !.v = v, !.then = then, !.next = next]

\* The same, on behalf of a handle.
WriteFor(h, c, v, then, next) == [Write(c, v, then, next) EXCEPT !.h = h]

\* free_cluster_chain(c): the rest of the chain is read before c is freed.
FreeFrom(c, slot) == [Write(c, FREE, "free", fat1[c]) EXCEPT !.slot = slot]

\* Mutant: the entry is left where it is.
FreedEntryKept(slot) == Idle

\* The chain is freed: go on with the entry, if one is to be removed.
Freed(slot) == IF slot = 0 THEN Idle ELSE [Idle EXCEPT !.at = "unentry", !.slot = slot]

\* Mutant: the write is tried again when the rest of the chain is unknown.
ContinueRetries ==
    CASE op.then = "entry" -> [op EXCEPT !.at = "entry"]
      [] op.then = "tail" /\ op.next \in Clusters ->
            WriteFor(op.h, op.next, LAST, "advance", LAST)
      [] op.then = "cut" /\ op.next \in Clusters -> FreeFrom(op.next, 0)
      [] op.then = "free" /\ op.next \in Clusters -> FreeFrom(op.next, op.slot)
      [] op.then = "free" /\ op.next \in {LAST, FREE} -> Freed(op.slot)
      [] op.then = "free" /\ op.next = BAD -> [op EXCEPT !.at = "fat1"]
      [] OTHER -> Idle

\* What follows a table write that succeeded.
Continue ==
    CASE op.then = "entry" -> [op EXCEPT !.at = "entry"]
      [] op.then = "tail" /\ op.next \in Clusters ->
            WriteFor(op.h, op.next, LAST, "advance", LAST)
      [] op.then = "cut" /\ op.next \in Clusters -> FreeFrom(op.next, 0)
      [] op.then = "free" /\ op.next \in Clusters -> FreeFrom(op.next, op.slot)
      [] op.then = "free" /\ op.next \in {LAST, FREE} -> Freed(op.slot)
      [] OTHER -> Idle      \* done, or write_fat_entry(BAD) refused

\* Mutant: clusters are freed in the first table only.
WriteFat1Only ==
    /\ op.at = "fat1"
    /\ fat1' = [fat1 EXCEPT ![op.c] = op.v]
    /\ op' = IF op.v = FREE THEN Continue ELSE [op EXCEPT !.at = "fat2"]
    /\ events' = IF op.v = BAD THEN events \cup {"full"} ELSE events
    /\ UNCHANGED <<fat2, dir, handle, faults>>

\* The sector of the first table.
WriteFat1 ==
    /\ op.at = "fat1"
    /\ fat1' = [fat1 EXCEPT ![op.c] = op.v]
    /\ op' = [op EXCEPT !.at = "fat2"]
    /\ events' = IF op.v = BAD THEN events \cup {"full"} ELSE events
    /\ UNCHANGED <<fat2, dir, handle, faults>>

\* The same sector, all of it, into the second table.
WriteFat2 ==
    /\ op.at = "fat2"
    /\ fat2' = [c \in Clusters |->
                   IF c \div PerSector = op.c \div PerSector THEN fat1[c] ELSE fat2[c]]
    /\ op' = Continue
    /\ handle' = IF op.then = "advance" THEN [handle EXCEPT ![op.h].current = op.c]
                                        ELSE handle
    /\ UNCHANGED <<fat1, dir, events, faults>>

----------------------------------------------------------------------------
(* The operations.                                                         *)

\* fat32_create_file, fat32_create_dir and fat32_open in a creating mode: one
\* cluster is allocated before the entry is written.  On a full disk BAD is
\* taken for a cluster and write_fat_entry refuses it.
Create(h) ==
    /\ op = Idle
    /\ h # NoHandle => ~IsOpen(h)
    /\ \E c \in Found \ {BAD} : op' = WriteFor(h, c, LAST, "entry", LAST)
    /\ UNCHANGED <<disk, handle, events, faults>>

\* Mutant: the cluster is not given back when the entry cannot be added.
AddEntryKeeps ==
    /\ op.at = "entry"
    /\ \/ /\ "root" \in Parents
          /\ \E s \in VacantSlots :
                /\ \A t \in VacantSlots : s <= t
                /\ dir' = [dir EXCEPT ![s] = op.c]
          /\ handle' = IF op.h = NoHandle THEN handle
                       ELSE [handle EXCEPT ![op.h] = [head |-> op.c, current |-> op.c]]
          /\ op' = Idle
          /\ UNCHANGED events
       \/ /\ "beyond" \in Parents \/ ("root" \in Parents /\ VacantSlots = {})
          /\ op' = Idle
          /\ UNCHANGED <<dir, handle, events>>
    /\ UNCHANGED <<fat1, fat2, faults>>

\* add_directory_entry: in the first vacant slot of the root; the root is
\* never extended, since the search for its end leaves no cluster to link.
\* fat32_open then finds the entry it wrote, if it went to the root.
AddEntry ==
    /\ op.at = "entry"
    /\ \/ /\ "root" \in Parents
          /\ \E s \in VacantSlots :
                /\ \A t \in VacantSlots : s <= t
                /\ dir' = [dir EXCEPT ![s] = op.c]
          /\ handle' = IF op.h = NoHandle THEN handle
                       ELSE [handle EXCEPT ![op.h] = [head |-> op.c, current |-> op.c]]
          /\ op' = Idle
          /\ UNCHANGED events
       \/ /\ "elsewhere" \in Parents
          /\ op' = Idle
          /\ events' = events \cup {"stray"}
          /\ UNCHANGED <<dir, handle>>
       \/ /\ "beyond" \in Parents \/ ("root" \in Parents /\ VacantSlots = {})
          /\ op' = FreeFrom(op.c, 0)
          /\ UNCHANGED <<dir, handle, events>>
    /\ UNCHANGED <<fat1, fat2, faults>>

\* fat32_delete_file and fat32_remove_dir: the chain first, then the entry.
\* No one looks whether the file is open, or the directory empty.
Delete(s) ==
    /\ op = Idle
    /\ s \in Live
    /\ op' = FreeFrom(dir[s], s)
    /\ events' = IF \E h \in Handles : IsOpen(h) /\ handle[h].head = dir[s]
                 THEN events \cup {"removed open"} ELSE events
    /\ UNCHANGED <<disk, handle, faults>>

RemoveEntry ==
    /\ op.at = "unentry"
    /\ dir' = [dir EXCEPT ![op.slot] = Vacant]
    /\ op' = Idle
    /\ UNCHANGED <<fat1, fat2, handle, events, faults>>

\* fat32_open of a file that exists.
Open(h, s) ==
    /\ op = Idle
    /\ ~IsOpen(h) /\ s \in Live
    /\ handle' = [handle EXCEPT ![h] = [head |-> dir[s], current |-> dir[s]]]
    /\ UNCHANGED <<disk, op, events, faults>>

\* fat32_close (the entry's size and the dirty buffer are FatFile's).
Close(h) ==
    /\ op = Idle
    /\ IsOpen(h)
    /\ handle' = [handle EXCEPT ![h] = Closed]
    /\ UNCHANGED <<disk, op, events, faults>>

\* fat32_write at the end of a cluster: into the next one, or, at the end of
\* the chain, into a new one that is linked before it is marked.
WriteOn(h) ==
    /\ op = Idle
    /\ IsOpen(h)
    /\ LET x == handle[h].current
       IN  IF ReadFat(x) = LAST
           THEN /\ \E c \in Found : op' = WriteFor(h, x, c, "tail", c)
                /\ UNCHANGED handle
           ELSE /\ handle' = [handle EXCEPT ![h].current = ReadFat(x)]
                /\ UNCHANGED op
    /\ UNCHANGED <<disk, events, faults>>

\* fat32_read at the end of a cluster: into whatever the table says, the end
\* of the chain included.
ReadOn(h) ==
    /\ op = Idle
    /\ IsOpen(h)
    /\ handle' = [handle EXCEPT ![h].current = ReadFat(handle[h].current)]
    /\ UNCHANGED <<disk, op, events, faults>>

\* fat32_seek, k clusters into the file.
Seek(h, k) ==
    /\ op = Idle
    /\ IsOpen(h)
    /\ \A i \in 1 .. k : Walk(handle[h].head, i) \notin {LAST, FREE}
    /\ handle' = [handle EXCEPT ![h].current = Walk(handle[h].head, k)]
    /\ UNCHANGED <<disk, op, events, faults>>

\* Mutant: the last cluster that stays is freed with the rest.
TruncateTooEarly(h, k) ==
    /\ op = Idle
    /\ IsOpen(h)
    /\ LET prev == Walk(handle[h].head, k - 1)
       IN  /\ prev \in Clusters
           /\ op' = FreeFrom(prev, 0)
    /\ UNCHANGED <<disk, handle, events, faults>>

\* fat32_truncate to k clusters, k > 0: the chain is cut after the k-th, then
\* the rest is freed.  The handle's current cluster is left as it is.
Truncate(h, k) ==
    /\ op = Idle
    /\ IsOpen(h)
    /\ LET prev == Walk(handle[h].head, k - 1)
       IN  /\ prev \in Clusters
           /\ op' = Write(prev, LAST, "cut", ReadFat(prev))
    /\ UNCHANGED <<disk, handle, events, faults>>

----------------------------------------------------------------------------
(* Failures.                                                               *)

\* A sector could not be written (or, before the first table is written, not
\* read): the function gives up.  A cluster whose entry was not written is
\* given back, one whose table entries were half written is not.
WriteFails ==
    /\ op # Idle
    /\ faults < MaxFaults
    /\ faults' = faults + 1
    /\ events' = events \cup {"io"}
    /\ op' = IF op.at = "entry" THEN FreeFrom(op.c, 0) ELSE Idle
    /\ UNCHANGED <<disk, handle>>

\* read_fat_entry could not read the table, and says BAD: free_cluster_chain
\* and fat32_truncate lose the rest of the chain and give up after the write
\* they are at; find_free_cluster passes over a free cluster; read, write and
\* seek put the handle on the BAD cluster.
ReadFails ==
    /\ faults < MaxFaults
    /\ \/ /\ op.at = "fat1" /\ op.then \in {"free", "cut"}
          /\ op' = [op EXCEPT !.next = BAD]
          /\ UNCHANGED handle
       \/ /\ op.at = "fat1" /\ op.then = "entry"
          /\ \E c \in FreeClusters \ {op.c} : op' = WriteFor(op.h, c, LAST, "entry", LAST)
          /\ UNCHANGED handle
       \/ /\ op.at = "fat1" /\ op.then = "tail"
          /\ \E c \in (FreeClusters \ {op.c}) \cup {BAD} :
                op' = WriteFor(op.h, op.c, c, "tail", c)
          /\ UNCHANGED handle
       \/ /\ op = Idle
          /\ \E h \in Handles : IsOpen(h) /\ handle' = [handle EXCEPT ![h].current = BAD]
          /\ UNCHANGED op
    /\ faults' = faults + 1
    /\ events' = events \cup {"io"}
    /\ UNCHANGED disk

\* Power is lost, or the machine reset: memory goes, the disk stays.
Crash ==
    /\ op # Idle
    /\ faults < MaxFaults
    /\ faults' = faults + 1
    /\ events' = events \cup {"crash"}
    /\ op' = Idle
    /\ handle' = [h \in Handles |-> Closed]
    /\ UNCHANGED disk

----------------------------------------------------------------------------
\* An empty volume: the root directory has a cluster, the others are free.
Init ==
    /\ fat1 = [c \in Clusters |-> IF c = Root THEN LAST ELSE FREE]
    /\ fat2 = fat1
    /\ dir = [s \in 1 .. Slots |-> Vacant]
    /\ handle = [h \in Handles |-> Closed]
    /\ op = Idle
    /\ events = {}
    /\ faults = 0

\* The driver goes on with the operation it is in.
Progress == WriteFat1 \/ WriteFat2 \/ AddEntry \/ RemoveEntry

Request ==
    \/ \E h \in Handles \cup {NoHandle} : Create(h)
    \/ \E s \in 1 .. Slots : Delete(s)
    \/ \E h \in Handles : \/ \E s \in 1 .. Slots : Open(h, s)
                          \/ Close(h) \/ WriteOn(h) \/ ReadOn(h)
                          \/ \E k \in 1 .. MaxHops : Seek(h, k) \/ Truncate(h, k)

Next == Progress \/ Request \/ WriteFails \/ ReadFails \/ Crash

Spec == Init /\ [][Next]_vars

\* The kernel calls the driver and waits: an operation begun goes on by itself.
FairSpec == Spec /\ WF_vars(Progress)

----------------------------------------------------------------------------
(* Properties.                                                             *)

Thens == {"done", "entry", "tail", "advance", "cut", "free"}
OpType == [at : {"idle", "fat1", "fat2", "entry", "unentry"},
           c : Clusters, v : Values, then : Thens, next : Values,
           slot : 0 .. Slots, h : Handles \cup {NoHandle}]

DiskTypeOK ==
    /\ fat1 \in [Clusters -> Values] /\ fat2 \in [Clusters -> Values]
    /\ dir \in [1 .. Slots -> Clusters \cup {Vacant}]
    /\ op \in OpType

TypeOK ==
    /\ DiskTypeOK
    /\ handle \in [Handles -> [head : Clusters \cup {0}, current : Values]]
    /\ events \subseteq Events
    /\ faults \in 0 .. MaxFaults

\* No chain of the table runs in a circle, whatever failed and whenever the
\* machine stopped: every set of clusters has one whose successor is outside.
\* The loops that walk chains (search, seek, truncate, free) all end.
NoCycle ==
    \A S \in SUBSET Clusters : S # {} => \E c \in S : fat1[c] \notin S

\* The clusters something refers to, as pairs of who and which.
Links == {<<"link", c, fat1[c]>> : c \in {x \in Clusters : fat1[x] \in Clusters}}
Heads == {<<"head", s, dir[s]>> : s \in Live} \cup {<<"head", 0, Root>>}
Refs == Links \cup Heads

\* No transfer failed, nothing crashed, and no file was extended on a full disk.
Calm == events \subseteq {"stray", "removed open"}

\* No two files share a cluster, and no chain runs into another or into the
\* root directory, at every moment of every operation, even if files are
\* removed while they are open and entries are written to the wrong place.
NoCrossLink ==
    Calm => \A r1, r2 \in Refs : r1[3] = r2[3] => r1 = r2

\* Between operations what is referred to is allocated, so that no allocation
\* finds it.
ReferredIsAllocated ==
    Calm /\ op = Idle => \A r \in Refs : fat1[r[3]] # FREE

\* Between operations what is allocated belongs to a file: no cluster is lost,
\* even when an entry cannot be added and the cluster taken for it must be
\* given back.
NothingLost ==
    events = {} /\ op = Idle =>
        \A c \in Clusters : fat1[c] # FREE => \E r \in Refs : r[3] = c

\* The second table lags the first by at most the sector being written and one
\* sector for each failure: a write to a sector brings it back.
SectorsApart == {c \div PerSector : c \in {x \in Clusters : fat1[x] # fat2[x]}}
MirrorLag ==
    Cardinality(SectorsApart) <= faults + (IF op.at = "fat2" THEN 1 ELSE 0)

\* Every operation comes to its end, with or without failures.
OpsFinish == op # Idle ~> op = Idle

=============================================================================
