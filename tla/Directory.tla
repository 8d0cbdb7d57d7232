----------------------------- MODULE Directory -----------------------------
(***************************************************************************)
(* The calls of drivers/fs/fat32.c that take a name, and the listing of    *)
(* the root directory: its slots on the disk, the one handle a caller has  *)
(* on a file, the one it lists the root with, and the call in progress.    *)
(*                                                                         *)
(* The kernel makes one call at a time, and all but three of them write a  *)
(* single sector of the directory: they are one action.  fat32_copy,       *)
(* fat32_move and fat32_read_dir are one action per pass of their loops.   *)
(* What is in the table is FatTable's, what happens inside a handle is     *)
(* FatFile's: here a file has the cells that were written to it, and a     *)
(* handle appends.                                                         *)
(*                                                                         *)
(* A sector that cannot be read makes any search answer "absent", and any  *)
(* call FALSE.                                                             *)
(***************************************************************************)
EXTENDS Integers, Sequences, FiniteSets, SequencesExt

CONSTANTS
    Stem, Extension,    \* characters of a name before and after the dot (8, 3)
    Paths,              \* what callers ask for: sequences of character codes
    PerSector,          \* entries in a sector (16)
    PerCluster,         \* sectors in a cluster
    RootClusters,       \* clusters of the root, whose chain cannot grow
    Files,              \* the clusters a file may begin at
    SectorSize,         \* cells in a sector
    Stamps,             \* what callers write
    MaxSize,            \* bound: no file is appended to beyond it
    Formatted           \* what may be in the first slots at first

ASSUME DirectoryAssumption ==
    /\ {Stem, Extension, PerSector, PerCluster, RootClusters, SectorSize} \subseteq Nat \ {0}
    /\ Paths \subseteq Seq(1 .. 255)
    /\ Files \subseteq Nat \ {0} /\ IsFiniteSet(Files)
    /\ MaxSize \in Nat

VARIABLES
    mounted,        \* fs_mounted
    slots,          \* the entries of the root, in the order of its chain
    used,           \* the files that have a cluster
    data,           \* the cells written to a file, the ones beyond its size too
    handle,         \* a fat32_handle_t on a file
    lister,         \* a fat32_handle_t on the root
    job,            \* the copy, move or listing in progress
    answer,         \* what the last step answered to a call with a name
    sound,          \* nothing happened that the driver does not cope with
    seen, kept      \* of the listing: the slots it returned; those of the first
                    \* cluster that had the same file all along

disk == <<slots, used, data>>
vars == <<mounted, disk, handle, lister, job, answer, sound, seen, kept>>

----------------------------------------------------------------------------
(* Names and slots.                                                        *)

UNUSED == 0
DELETED == 229              \* 0xE5
Dot == 46
Blank == 32

toupper(c) == IF c \in 97 .. 122 THEN c - 32 ELSE c

\* The first dot of a path ends the stem.
None == -1
Lowest(S) == IF S = {} THEN None ELSE CHOOSE i \in S : \A j \in S : i <= j
FirstDot(p) == Lowest({i \in 1 .. Len(p) : p[i] = Dot})
StemOf(p) == IF FirstDot(p) = None THEN p ELSE SubSeq(p, 1, FirstDot(p) - 1)
ExtensionOf(p) == IF FirstDot(p) = None THEN <<>> ELSE SubSeq(p, FirstDot(p) + 1, Len(p))

\* name_to_83: capitals, cut to their places and filled up with blanks.
Field(s, n) == [i \in 1 .. n |-> IF i <= Len(s) THEN toupper(s[i]) ELSE Blank]
name_to_83(p) == Field(StemOf(p), Stem) \o Field(ExtensionOf(p), Extension)
Names == {name_to_83(p) : p \in Paths}

\* Attributes are the flags that make a difference; all the four low ones set,
\* ATTR_LONG_NAME, are one of them.
Attributes == {{}, {"directory"}, {"readonly"}, {"longname"}}

FirstSlots == 0 .. PerCluster * PerSector - 1           \* of the first cluster
Slots == 0 .. RootClusters * PerCluster * PerSector - 1

Entry(n, a, f, size) == [name |-> n, attr |-> a, file |-> f, size |-> size]
Nothing == Entry([i \in 1 .. Stem + Extension |-> UNUSED], {}, 0, 0)

Gone == [Nothing EXCEPT !.name[1] = DELETED]

Vacant(e) == e.name[1] \in {UNUSED, DELETED}
Visible(e) == ~Vacant(e) /\ "longname" \notin e.attr

\* A volume is formatted with files of their own names and clusters.
ASSUME FormattedAssumption ==
    \A f \in Formatted :
        /\ f \in Seq([path : Paths, attr : Attributes, file : Files, cells : Seq(Stamps)])
        /\ \A i, j \in DOMAIN f :
              (f[i].file = f[j].file \/ name_to_83(f[i].path) = name_to_83(f[j].path)) => i = j

\* Entry e is written to slot i.  What else is in a deleted one is never read.
Put(i, e) == slots' = [slots EXCEPT ![i] = IF e.name[1] = DELETED THEN Gone ELSE e]

\* A search ends at the first unused slot.
Matches(n) == {i \in Slots : /\ Visible(slots[i]) /\ slots[i].name = n
                             /\ \A j \in 0 .. i : slots[j].name[1] # UNUSED}
Find(n) == Lowest(Matches(n))

----------------------------------------------------------------------------
(* Handles and calls.                                                      *)

NoHandle == [open |-> FALSE, dir |-> FALSE, slot |-> None, file |-> 0, size |-> 0]
HandleOn(i) == [open |-> TRUE, dir |-> "directory" \in slots[i].attr,
                slot |-> i, file |-> slots[i].file, size |-> slots[i].size]

LastOne == RootClusters                 \* what is read for the last cluster
NoLister == [open |-> FALSE, cluster |-> 0, position |-> 0]

NoJob == [kind |-> "none", from |-> <<>>, to |-> <<>>,
          source |-> NoHandle, target |-> NoHandle, failed |-> FALSE]
Idle == mounted /\ job = NoJob

No == [ok |-> FALSE, attr |-> {}, size |-> 0]
Yes == [No EXCEPT !.ok = TRUE]

\* The slots whose file the listing is still to come by, or has.
Follow == kept' = {i \in kept : Visible(slots'[i]) /\ slots'[i].file = slots[i].file}

\* Where an entry is added, from one of the root's clusters on, and the file it is
\* given.
Place == Lowest({i \in Slots : Vacant(slots[i])})
PlaceBehind(c) == Lowest({i \in Slots : Vacant(slots[i]) /\ i >= c * PerCluster * PerSector})
NewFile == Lowest(Files \ used)
NewHandle == [NoHandle EXCEPT !.open = TRUE, !.slot = Place, !.file = NewFile]

\* allocate_cluster_chain and add_directory_entry after a search that answered
\* "absent".  If it should not have, there are two entries of one name now; and
\* a handle whose file was deleted may now be one on another file's entry.
MakeEntry(n, a) ==
    /\ Place # None /\ NewFile # None
    /\ Put(Place, Entry(n, a, NewFile, 0))
    /\ data' = [data EXCEPT ![NewFile] = <<>>]
    /\ used' = used \cup {NewFile}
    /\ sound' = (sound /\ Find(n) = None
                 /\ ~(handle.open /\ (handle.slot = Place \/ handle.file = NewFile)))

----------------------------------------------------------------------------
(* The calls that write one sector of the directory, or none.              *)

\* Any call below may answer FALSE before it changed anything: the name is not
\* what it should be, or a sector cannot be read.
Refuse ==
    /\ Idle
    /\ answer' = No
    /\ UNCHANGED <<mounted, disk, handle, lister, job, sound, seen, kept>>

\* A file is made where parent_cluster, which the search leaves unset, is not the
\* first cluster of the root but a later one, or none of them: something else on
\* the disk is overwritten.  So are its first sectors if a sector of the table
\* cannot be read, for read_fat_entry answers a cluster that is none then.
CreateAstray ==
    /\ Idle /\ NewFile # None
    /\ used' = used \cup {NewFile}
    /\ \/ UNCHANGED <<slots, data>>
       \/ \E p \in Paths, a \in {{}, {"directory"}}, c \in 1 .. RootClusters - 1 :
             /\ PlaceBehind(c) # None
             /\ Put(PlaceBehind(c), Entry(name_to_83(p), a, NewFile, 0))
             /\ data' = [data EXCEPT ![NewFile] = <<>>]
    /\ sound' = FALSE
    /\ answer' \in {Yes, No}
    /\ UNCHANGED <<mounted, handle, lister, job, seen, kept>>

\* fat32_mount, and fat32_umount, which forgets no handle.
Mount == ~mounted /\ mounted' = TRUE
         /\ answer' = No
         /\ UNCHANGED <<disk, handle, lister, job, sound, seen, kept>>
Umount == Idle /\ mounted' = FALSE
          /\ answer' = No
          /\ UNCHANGED <<disk, handle, lister, job, sound, seen, kept>>

\* fat32_create_file and fat32_create_dir: FALSE also when the entry is there but
\* the new cluster could not be written; fat32_open with FILE_CREATE or FILE_APPEND
\* when the entry cannot be found again.  And fat32_copy and fat32_move of the root:
\* nothing can be read from its handle, and the file that was made stays.
Create(p, a) ==
    /\ Idle /\ p # <<>>
    /\ MakeEntry(name_to_83(p), a)
    /\ answer' \in {Yes, No}
    /\ UNCHANGED <<mounted, handle, lister, job, seen, kept>>

RootPaths == {<<>>, <<47>>}             \* "" and "/", which fat32_open knows

\* fat32_open of a file there is.  Read-only files may be opened for writing, not
\* for reading.
Open(p, read) ==
    LET i == Find(name_to_83(p))
    IN  /\ Idle /\ ~handle.open /\ p \notin RootPaths
        /\ i # None /\ ~(read /\ "readonly" \in slots[i].attr)
        /\ handle' = HandleOn(i)
        /\ answer' = Yes
        /\ UNCHANGED <<mounted, disk, lister, job, sound, seen, kept>>

\* fat32_open of one there is not.
OpenNew(p) ==
    /\ Idle /\ ~handle.open /\ p \notin RootPaths
    /\ MakeEntry(name_to_83(p), {}) /\ name_to_83(p)[1] # DELETED
    /\ handle' = NewHandle
    /\ answer' = Yes
    /\ UNCHANGED <<mounted, lister, job, seen, kept>>

\* A pass of fat32_write at the end of the file: one more cell.
Append1(v) ==
    /\ Idle /\ handle.open /\ ~handle.dir /\ handle.size < MaxSize
    /\ data' = IF handle.file \in used
               THEN [data EXCEPT ![handle.file] = Append(SubSeq(@, 1, handle.size), v)] ELSE data
    /\ handle' = [handle EXCEPT !.size = @ + 1]
    /\ answer' = No
    /\ UNCHANGED <<mounted, slots, used, lister, job, sound, seen, kept>>

\* fat32_close writes the size in the slot the handle was opened on, or fails to
\* and does not say so.  The volume need not be mounted.
Close ==
    /\ handle.open /\ job = NoJob
    /\ UNCHANGED slots \/ Put(handle.slot, [slots[handle.slot] EXCEPT !.size = handle.size])
    /\ handle' = NoHandle
    /\ answer' = No
    /\ UNCHANGED <<mounted, used, data, lister, job, sound, seen, kept>>

\* Mutant: the entry is marked as unused, not as deleted.
EraseUnused(i, dir) ==
    /\ i # None /\ dir = ("directory" \in slots[i].attr)
    /\ used' = used \ {slots[i].file}
    /\ Put(i, Nothing)
    /\ answer' = Yes /\ UNCHANGED sound
    /\ data' = [data EXCEPT ![slots[i].file] = <<>>]
    /\ Follow

\* What fat32_delete_file (dir = FALSE) and fat32_remove_dir do with the entry in
\* slot i: the chain is freed, then the entry is marked, unless that fails.
Erase(i, dir) ==
    /\ i # None /\ dir = ("directory" \in slots[i].attr)
    /\ used' = used \ {slots[i].file}
    /\ \/ /\ Put(i, Gone)
          /\ answer' = Yes /\ UNCHANGED sound
       \/ answer' = No /\ sound' = FALSE /\ UNCHANGED slots
    /\ data' = [data EXCEPT ![slots[i].file] = <<>>]
    /\ Follow

Delete(p, dir) ==
    /\ Idle
    /\ Erase(Find(name_to_83(p)), dir)
    /\ UNCHANGED <<mounted, handle, lister, job, seen>>

\* Mutant: whether the new name is there is not asked.
RenameUnasked(o, n) ==
    LET i == Find(name_to_83(o))
    IN  /\ Idle /\ i # None
        /\ Put(i, [slots[i] EXCEPT !.name = name_to_83(n)])
        /\ answer' = Yes
        /\ Follow
        /\ UNCHANGED <<mounted, used, data, handle, lister, job, sound, seen>>

\* fat32_rename gives the entry another name where it is.
Rename(o, n) ==
    LET i == Find(name_to_83(o))
    IN  /\ Idle /\ i # None
        /\ Put(i, [slots[i] EXCEPT !.name = name_to_83(n)])
        /\ sound' = (sound /\ Find(name_to_83(n)) = None)
        /\ answer' = Yes
        /\ Follow
        /\ UNCHANGED <<mounted, used, data, handle, lister, job, seen>>

\* fat32_set_file_attributes, which may turn a file into a directory, or hide it.
SetAttributes(p, a) ==
    LET i == Find(name_to_83(p))
    IN  /\ Idle /\ i # None
        /\ Put(i, [slots[i] EXCEPT !.attr = a])
        /\ answer' = Yes
        /\ Follow
        /\ UNCHANGED <<mounted, used, data, handle, lister, job, sound, seen>>

\* fat32_get_file_info and fat32_find_file; fat32_file_exists and
\* fat32_get_file_size answer a part of it.
Tell(p) ==
    LET i == Find(name_to_83(p))
    IN  /\ Idle /\ i # None
        /\ answer' = [ok |-> TRUE, attr |-> slots[i].attr, size |-> slots[i].size]
        /\ UNCHANGED <<mounted, disk, handle, lister, job, sound, seen, kept>>

----------------------------------------------------------------------------
(* fat32_copy and fat32_move.                                              *)

Stale == 0                              \* what a cell of a buffer held before
Copying == job.kind \in {"copy", "move"}

\* Both handles are opened, the second on a new file (or the call ends as Create
\* does, which is also what comes of copying the root).  fat32_move comes here if fat32_rename answered FALSE.  A search for the
\* new name that wrongly answered "absent" may be followed by one that finds it.
StartCopy(o, n, kind) ==
    LET i == Find(name_to_83(o))
        j == Find(name_to_83(n))
        Begin(h) == [kind |-> kind, from |-> name_to_83(o), to |-> name_to_83(n),
                     source |-> HandleOn(i), target |-> h, failed |-> FALSE]
    IN  /\ Idle /\ o \notin RootPaths /\ n \notin RootPaths
        /\ i # None /\ "readonly" \notin slots[i].attr
        /\ \/ /\ MakeEntry(name_to_83(n), {}) /\ name_to_83(n)[1] # DELETED
              /\ job' = Begin(NewHandle)
           \/ /\ j # None /\ sound' = FALSE
              /\ job' = Begin(HandleOn(j)) /\ UNCHANGED disk
        /\ answer' = No
        /\ UNCHANGED <<mounted, handle, lister, seen, kept>>

\* A pass: a read of a sector, or of what there is of it, and a write of a whole
\* one.
CopySector ==
    /\ mounted /\ Copying
    /\ LET s == job.source
           t == job.target
           n == IF t.size + SectorSize > s.size THEN s.size - t.size ELSE SectorSize
           cells == SubSeq(data[s.file], t.size + 1, t.size + n)
       IN  /\ ~s.dir /\ t.size < s.size
           /\ data' = [data EXCEPT ![t.file] =
                          SubSeq(@, 1, t.size) \o cells \o [k \in 1 .. SectorSize - n |-> Stale]]
           /\ job' = [job EXCEPT !.target.size = @ + SectorSize]
    /\ answer' = No
    /\ UNCHANGED <<mounted, slots, used, handle, lister, sound, seen, kept>>

\* One of the transfers still to come will fail.
TransferFails ==
    /\ Copying /\ ~job.failed
    /\ job' = [job EXCEPT !.failed = TRUE]
    /\ answer' = No
    /\ UNCHANGED <<mounted, disk, handle, lister, sound, seen, kept>>

\* fat32_close of the target: the last sector is written from the buffer, and the
\* size in the entry, unless that fails.
CloseTarget ==
    LET t == job.target
    IN  /\ \/ UNCHANGED data
           \/ /\ job.failed /\ t.size > 0
              /\ data' = [data EXCEPT ![t.file] = SubSeq(@, 1, t.size - SectorSize) \o
                                          [k \in 1 .. SectorSize |-> Stale]]
        /\ \/ slots' = [slots EXCEPT ![t.slot].size = t.size]
           \/ job.failed /\ UNCHANGED slots
        /\ UNCHANGED used

\* Mutant: the target is not closed.
CopyEndsUnclosed ==
    /\ Copying
    /\ job.source.dir \/ job.target.size >= job.source.size \/ job.failed
    /\ UNCHANGED disk
    /\ IF job.kind = "copy" THEN job' = NoJob /\ answer' = Yes
       ELSE job' = [job EXCEPT !.kind = "remove"] /\ answer' = No
    /\ UNCHANGED <<mounted, handle, lister, sound, seen, kept>>

\* There is nothing left to read, or it cannot be read.
CopyEnds ==
    /\ Copying
    /\ job.source.dir \/ job.target.size >= job.source.size \/ job.failed
    /\ CloseTarget
    /\ IF job.kind = "copy" THEN job' = NoJob /\ answer' = Yes
       ELSE job' = [job EXCEPT !.kind = "remove"] /\ answer' = No
    /\ UNCHANGED <<mounted, handle, lister, sound, seen, kept>>

\* A sector cannot be written.
CopyStops ==
    /\ Copying /\ job.failed
    /\ CloseTarget
    /\ job' = NoJob /\ answer' = No
    /\ UNCHANGED <<mounted, handle, lister, sound, seen, kept>>

\* fat32_move deletes the file it copied, by its name.
MoveEnds ==
    /\ job.kind = "remove"
    /\ \/ Erase(Find(job.from), FALSE)
       \/ answer' = No /\ UNCHANGED <<disk, sound, kept>>
    /\ job' = NoJob
    /\ UNCHANGED <<mounted, handle, lister, seen>>

----------------------------------------------------------------------------
(* Listing the root.                                                       *)

OpenRoot ==
    /\ Idle /\ ~lister.open
    /\ lister' = [NoLister EXCEPT !.open = TRUE]
    /\ seen' = <<>>
    /\ kept' = {i \in FirstSlots : /\ Visible(slots[i])
                                   /\ \A j \in 0 .. i : slots[j].name[1] # UNUSED}
    /\ answer' = No
    /\ UNCHANGED <<mounted, disk, handle, job, sound>>

CloseRoot ==
    /\ lister.open /\ job = NoJob
    /\ lister' = NoLister /\ seen' = <<>> /\ kept' = {}
    /\ answer' = No
    /\ UNCHANGED <<mounted, disk, handle, job, sound>>

Listing == mounted /\ lister.open /\ job.kind \in {"none", "list"}

\* Whether a pass is behind the last sector of its cluster; and where it goes on.
Behind == lister.position \div PerSector >= PerCluster
Position == IF Behind THEN 0 ELSE lister.position
Cluster == IF Behind THEN lister.cluster + 1 ELSE lister.cluster
InRoot == lister.cluster < LastOne /\ Cluster < LastOne

\* The slot at offset o of the sector a pass reads: that of the cluster before
\* the one it goes on to.
SlotAt(o) == (lister.cluster * PerCluster + Position \div PerSector) * PerSector + o

\* The first offset with an entry to return, or one that ends the directory.
Stop == Lowest({o \in Position % PerSector .. PerSector - 1 :
                   \/ slots[SlotAt(o)].name[1] = UNUSED \/ Visible(slots[SlotAt(o)])})

\* What the listing is watched for ends with the first cluster.
Watch(slotsSeen) ==
    IF Cluster = 0 THEN seen' = slotsSeen /\ UNCHANGED kept ELSE seen' = <<>> /\ kept' = {}

\* The call answers FALSE: the chain, or the directory, ends.
ReadDirEnds ==
    /\ Listing
    /\ \/ LastOne \in {lister.cluster, Cluster} /\ lister' = [lister EXCEPT !.cluster = LastOne]
       \/ /\ InRoot
          /\ Stop # None /\ slots[SlotAt(Stop)].name[1] = UNUSED
          /\ lister' = [lister EXCEPT !.cluster = Cluster, !.position = Position]
    /\ job' = NoJob
    /\ Watch(seen)
    /\ answer' = No
    /\ UNCHANGED <<mounted, disk, handle, sound>>

\* A sector of the directory cannot be read.
ReadDirFails ==
    /\ Listing /\ InRoot
    /\ lister' = [lister EXCEPT !.cluster = Cluster, !.position = Position]
    /\ job' = NoJob
    /\ Watch(seen)
    /\ answer' = No
    /\ UNCHANGED <<mounted, disk, handle, sound>>

\* It returns an entry.
ReadDirReturns ==
    /\ Listing /\ InRoot
    /\ Stop # None /\ slots[SlotAt(Stop)].name[1] # UNUSED
    /\ lister' = [lister EXCEPT !.cluster = Cluster,
                                !.position = (Position \div PerSector) * PerSector + Stop + 1]
    /\ Watch(Append(seen, SlotAt(Stop)))
    /\ job' = NoJob
    /\ answer' = No
    /\ UNCHANGED <<mounted, disk, handle, sound>>

\* It goes on to the next sector.
ReadDirGoesOn ==
    /\ Listing /\ InRoot
    /\ Stop = None
    /\ lister' = [lister EXCEPT !.cluster = Cluster,
                                !.position = (Position \div PerSector + 1) * PerSector]
    /\ job' = [NoJob EXCEPT !.kind = "list"]
    /\ Watch(seen)
    /\ answer' = No
    /\ UNCHANGED <<mounted, disk, handle, sound>>

\* A sector of the table cannot be read, and the listing goes on in a cluster that
\* is none, with the sector it left and then with the first ones of the disk: what
\* there is answers it, or ends it.  Where it is among those sectors is left out.
BAD == LastOne + 1
ReadDirAstray ==
    /\ Listing
    /\ lister.cluster = BAD \/ (lister.cluster < LastOne /\ Behind)
    /\ lister' = [lister EXCEPT !.cluster = BAD, !.position = 0]
    /\ job' \in {NoJob, [NoJob EXCEPT !.kind = "list"]}
    /\ seen' = <<>> /\ kept' = {}
    /\ answer' = No
    /\ UNCHANGED <<mounted, disk, handle, sound>>

----------------------------------------------------------------------------
\* The machine stops.  A call that was at its one write has made it or not.
Crash ==
    /\ mounted' = FALSE
    /\ handle' = NoHandle /\ lister' = NoLister /\ job' = NoJob
    /\ seen' = <<>> /\ kept' = {}
    /\ answer' = No
    /\ UNCHANGED <<disk, sound>>

Init ==
    /\ mounted = FALSE /\ handle = NoHandle /\ lister = NoLister /\ job = NoJob
    /\ \E f \in Formatted :
          /\ slots = [i \in Slots |->
                        IF i < Len(f) THEN Entry(name_to_83(f[i + 1].path), f[i + 1].attr, f[i + 1].file,
                                                 Len(f[i + 1].cells))
                        ELSE Nothing]
          /\ used = {f[i].file : i \in DOMAIN f}
          /\ data = [c \in Files |-> IF c \in used
                                     THEN f[CHOOSE i \in DOMAIN f : f[i].file = c].cells ELSE <<>>]
    /\ sound = TRUE /\ answer = No
    /\ seen = <<>> /\ kept = {}

Next ==
    \/ Mount \/ Umount \/ Close \/ Crash \/ Refuse \/ CreateAstray
    \/ \E v \in Stamps : Append1(v)
    \/ \E p \in Paths :
          \/ OpenNew(p) \/ Tell(p)
          \/ \E read \in BOOLEAN : Open(p, read)
          \/ \E dir \in BOOLEAN : Create(p, IF dir THEN {"directory"} ELSE {}) \/ Delete(p, dir)
          \/ \E a \in Attributes : SetAttributes(p, a)
          \/ \E n \in Paths : \/ Rename(p, n)
                              \/ \E kind \in {"copy", "move"} : StartCopy(p, n, kind)
    \/ CopySector \/ TransferFails \/ CopyEnds \/ CopyStops \/ MoveEnds
    \/ OpenRoot \/ CloseRoot
    \/ ReadDirEnds \/ ReadDirFails \/ ReadDirReturns \/ ReadDirGoesOn \/ ReadDirAstray

Spec == Init /\ [][Next]_vars

----------------------------------------------------------------------------
(* Properties.                                                             *)

\* The map the directory is: of each name that can be found, the attributes and
\* the cells its size covers.
FileMap ==
    LET at == [n \in Names |-> Find(n)]
        e(n) == slots[at[n]]
    IN  [n \in {m \in Names : at[m] # None} |->
            [attr |-> e(n).attr, cells |-> SubSeq(data[e(n).file], 1, e(n).size)]]

\* The name of the file the handle is on.
OpenName ==
    IF handle.open /\ Visible(slots[handle.slot]) /\ slots[handle.slot].file = handle.file
    THEN {slots[handle.slot].name} ELSE {}

\* A directory is a map from names to files through every sequence of calls on
\* paths that may come to the same name: a name is never there twice, what one
\* call does to a file no other sees changed, deleted entries hide nothing, and
\* each answer is true.
Map == INSTANCE NameMap WITH
    Unseen  <- {n \in Names : n[1] = DELETED},
    Hiding  <- {a \in Attributes : "longname" \in a},
    files   <- IF sound THEN FileMap ELSE <<>>,
    open    <- IF sound THEN OpenName ELSE {},
    copying <- IF sound /\ Copying
               THEN {[from |-> job.from, to |-> job.to, failed |-> job.failed]} ELSE {},
    answer  <- IF sound THEN answer ELSE No

IsNameMap == Map!Spec

\* A listing that comes to the end of the first cluster, or of the directory in
\* it, has returned every file that was there from its beginning to its end, and
\* no slot twice, whatever was made, deleted and renamed between its calls.
ListedOnce ==
    [][(ReadDirEnds \/ Behind) /\ lister.open /\ lister.cluster = 0 /\ lister' # NoLister =>
          /\ kept \subseteq {seen[i] : i \in DOMAIN seen}
          /\ \A i, j \in DOMAIN seen : seen[i] = seen[j] => i = j]_vars

\* A file that is being moved is under its old name or, whole, under its new one
\* at every moment, also if the machine stops, unless a transfer fails.
KeptWhole ==
    [][LET there == {n \in {job.from, job.to} : n \in DOMAIN FileMap'}
       IN  job.kind \in {"move", "remove"} /\ sound' /\ ~job.failed =>
             \E n \in there : IsPrefix(SubSeq(data[job.source.file], 1, job.source.size),
                                       FileMap'[n].cells)]_vars

=============================================================================
