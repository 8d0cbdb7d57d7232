------------------------------ MODULE FatFile ------------------------------
(***************************************************************************)
(* Reading and writing a file through a handle of drivers/fs/fat32.c: the  *)
(* position, the cluster and the one sector of buffer a handle has, and    *)
(* the sectors, the table and the size in the directory entry on the disk. *)
(*                                                                         *)
(* A sector is SectorSize cells.  The loops of fat32_read and fat32_write  *)
(* carry nothing from one pass to the next but the handle, so a pass is an *)
(* action (Read, Write) and a call is some of them in a row, the last one  *)
(* of any length.  The second table and the separate writes to the first   *)
(* are FatTable's; here a table write is atomic.                           *)
(***************************************************************************)
EXTENDS Integers, Sequences, FiniteSets

CONSTANTS
    LastCluster,    \* highest cluster number
    SectorSize,     \* cells in a sector (512)
    PerClusters,    \* the values sectors_per_cluster may have
    Stamps,         \* what callers write
    MaxSize         \* bound: no file grows longer

ASSUME FileAssumption ==
    /\ LastCluster \in Nat /\ LastCluster >= 3
    /\ SectorSize \in Nat \ {0}
    /\ PerClusters # {} /\ PerClusters \subseteq Nat \ {0}
    /\ MaxSize \in Nat

Clusters == 2 .. LastCluster
FREE == 0
BAD == LastCluster + 1
LAST == LastCluster + 2

Zero == "zero"                          \* a cell that was zeroed
Stale == "stale"                        \* what a cluster held before
Cells == Stamps \cup {Zero, Stale}
Zeros == [i \in 1 .. SectorSize |-> Zero]

VARIABLES
    perCluster,     \* fs_info.sectors_per_cluster
    fat,            \* the table
    data,           \* the sectors: data[<<c, k>>] is sector k of cluster c
    size,           \* the size in the directory entry
    handle,         \* fat32_handle_t
    closing,        \* fat32_close wrote the buffer but not yet the entry
    out,            \* what a pass of fat32_read copied, in the state after it
    events          \* the calls and failures the driver does not cope with

vars == <<perCluster, fat, data, size, handle, closing, out, events>>

First == 3                              \* the file's first cluster

\* cluster_to_sector(c) + k: a number that is no cluster becomes sector 0, and
\* the sectors behind it are the volume's reserved ones.  Sector 0 also stands
\* for "no sector" in buffer_sector.
Sector(c, k) == IF c \in Clusters THEN <<c, k>> ELSE <<0, k>>
NoSector == <<0, 0>>
MaxPerCluster == CHOOSE n \in PerClusters : \A m \in PerClusters : m <= n
Sectors == ({0} \cup Clusters) \X (0 .. MaxPerCluster - 1)

\* A handle after memset, and a freshly opened one.
NoHandle == [open |-> FALSE, current |-> 0, position |-> 0, size |-> 0,
             buffer |-> Zeros, sector |-> NoSector, dirty |-> FALSE]
Opened(n) == [NoHandle EXCEPT !.open = TRUE, !.current = First, !.size = n]

ReadFat(c) == IF c \in Clusters THEN fat[c] ELSE BAD

\* The k-th cluster of the file.
Walk(k) == LET w[i \in 0 .. MaxSize] == IF i = 0 THEN First ELSE ReadFat(w[i - 1])
           IN  w[k]

Bytes == SectorSize * perCluster        \* in a cluster
Ready == handle.open /\ ~closing

\* Where the position is: in its sector, which sector of the cluster, and
\* whether it is at the start of a cluster other than the first.
Offset == handle.position % SectorSize
SectorIn == (handle.position % Bytes) \div SectorSize
AtBoundary == handle.position % Bytes = 0 /\ handle.position > 0

\* The cells off + 1 .. off + n of a sector replaced.
Patched(buf, off, n, v) ==
    [i \in 1 .. SectorSize |-> IF i > off /\ i <= off + n THEN v ELSE buf[i]]

Flag(condition, name) == IF condition THEN {name} ELSE {}

----------------------------------------------------------------------------
(* The file as it is on the disk, and as it is with what is in the buffer. *)

At(i) == Sector(Walk(i \div Bytes), (i % Bytes) \div SectorSize)

OnDisk(n) == [i \in 1 .. n |-> data[At(i - 1)][1 + ((i - 1) % SectorSize)]]

Contents ==
    IF handle.open
    THEN [i \in 1 .. handle.size |->
            IF handle.dirty /\ handle.sector = At(i - 1)
            THEN handle.buffer[1 + ((i - 1) % SectorSize)]
            ELSE data[At(i - 1)][1 + ((i - 1) % SectorSize)]]
    ELSE OnDisk(size)

\* The clusters of the file, and those of a chain from c on.
ChainFrom(c) ==
    LET w[i \in 0 .. LastCluster] == IF i = 0 THEN c ELSE ReadFat(w[i - 1])
    IN  {w[i] : i \in 0 .. LastCluster} \cap Clusters

----------------------------------------------------------------------------
(* The operations.                                                         *)

\* fat32_open of a file that exists; the mode makes no difference.
Open ==
    /\ ~handle.open
    /\ handle' = Opened(size)
    /\ out' = <<>>
    /\ UNCHANGED <<perCluster, fat, data, size, closing, events>>

\* The cluster a pass of fat32_read or fat32_write is in, unless the chain
\* ends before it.
Cluster == IF AtBoundary THEN ReadFat(handle.current) ELSE handle.current
AtEnd == AtBoundary /\ ReadFat(handle.current) = LAST

\* A pass of fat32_read for n cells, up to the end of the sector and of the
\* file.  A dirty buffer is overwritten, or forgotten at the end of the sector.
Read(n) ==
    /\ Ready
    /\ n <= SectorSize - Offset /\ n <= handle.size - handle.position
    /\ ~AtEnd
    /\ LET s   == Sector(Cluster, SectorIn)
           buf == IF s = handle.sector THEN handle.buffer ELSE data[s]
           all == Offset + n = SectorSize
       IN  /\ handle' = [handle EXCEPT !.current = Cluster, !.buffer = buf,
                                       !.position = @ + n,
                                       !.sector = IF all THEN NoSector ELSE s]
           /\ out' = SubSeq(buf, Offset + 1, Offset + n)
           /\ events' = events \cup
                Flag(handle.dirty /\ (s # handle.sector \/ all), "unflushed")
    /\ UNCHANGED <<perCluster, fat, data, size, closing>>

\* fat32_read comes to the end of the chain before the end of the file.
ReadPastChain ==
    /\ Ready
    /\ handle.position < handle.size
    /\ AtEnd
    /\ handle' = [handle EXCEPT !.current = LAST]
    /\ out' = <<>>
    /\ UNCHANGED <<perCluster, fat, data, size, closing, events>>

\* Mutant: the buffer is not written before it takes another sector.
WriteInUnflushed(c, n, v) ==
    LET s   == Sector(c, SectorIn)
        new == s # handle.sector
        buf == IF ~new THEN handle.buffer
               ELSE IF handle.position < handle.size THEN data[s] ELSE Zeros
    IN  /\ data' = data
        /\ handle' = [handle EXCEPT
                         !.current = c, !.position = @ + n,
                         !.size = IF handle.position + n > @ THEN handle.position + n ELSE @,
                         !.buffer = Patched(buf, Offset, n, v),
                         !.sector = s, !.dirty = TRUE]
        /\ events' = events \cup
             Flag(new /\ handle.position >= handle.size /\ Offset # 0, "appended")

\* What fat32_write does once it has its cluster c: the buffer goes to the
\* disk if it holds another sector, the sector is read, or taken for zeroes
\* from the end of the file on, and n cells are written in the buffer.
WriteIn(c, n, v) ==
    LET s   == Sector(c, SectorIn)
        new == s # handle.sector
        buf == IF ~new THEN handle.buffer
               ELSE IF handle.position < handle.size THEN data[s] ELSE Zeros
    IN  /\ data' = IF new /\ handle.dirty /\ handle.sector # NoSector
                   THEN [data EXCEPT ![handle.sector] = handle.buffer] ELSE data
        /\ handle' = [handle EXCEPT
                         !.current = c, !.position = @ + n,
                         !.size = IF handle.position + n > @ THEN handle.position + n ELSE @,
                         !.buffer = Patched(buf, Offset, n, v),
                         !.sector = s, !.dirty = TRUE]
        /\ events' = events \cup
             Flag(new /\ handle.position >= handle.size /\ Offset # 0, "appended")

FreeClusters == {c \in Clusters : c >= 3 /\ fat[c] = FREE}

\* A pass of fat32_write inside a cluster, or on to the next one.
Write(n, v) ==
    /\ Ready
    /\ n <= SectorSize - Offset /\ handle.position + n <= MaxSize
    /\ ~AtEnd
    /\ WriteIn(Cluster, n, v)
    /\ out' = <<>>
    /\ UNCHANGED <<perCluster, fat, size, closing>>

\* Mutant: the new cluster is marked but not linked.
WriteNewUnlinked(n, v) ==
    /\ Ready
    /\ n <= SectorSize /\ handle.position + n <= MaxSize
    /\ AtEnd
    /\ \E c \in FreeClusters :
          /\ \A d \in FreeClusters : c <= d
          /\ fat' = [fat EXCEPT ![c] = LAST]
          /\ WriteIn(c, n, v)
    /\ out' = <<>>
    /\ UNCHANGED <<perCluster, size, closing>>

\* A pass of fat32_write at the end of the chain: into a new cluster.
WriteNew(n, v) ==
    /\ Ready
    /\ n <= SectorSize /\ handle.position + n <= MaxSize
    /\ AtEnd
    /\ \E c \in FreeClusters :
          /\ \A d \in FreeClusters : c <= d
          /\ fat' = [fat EXCEPT ![handle.current] = c, ![c] = LAST]
          /\ WriteIn(c, n, v)
    /\ out' = <<>>
    /\ UNCHANGED <<perCluster, size, closing>>

\* The same on a full disk: the last cluster is linked to BAD.
WriteFull ==
    /\ Ready
    /\ AtEnd /\ FreeClusters = {}
    /\ fat' = [fat EXCEPT ![handle.current] = BAD]
    /\ events' = events \cup {"full"}
    /\ out' = <<>>
    /\ UNCHANGED <<perCluster, data, size, handle, closing>>

\* fat32_seek.  The buffer is forgotten, written or not; and the cluster is
\* the one the position is in, also where reads and writes expect the one
\* before.
Seek(p) ==
    /\ Ready
    /\ p <= handle.size
    /\ \A i \in 1 .. p \div Bytes : Walk(i) \notin {LAST, FREE}
    /\ handle' = [handle EXCEPT !.current = Walk(p \div Bytes), !.position = p,
                                !.sector = NoSector, !.dirty = FALSE]
    /\ events' = events \cup Flag(handle.dirty, "unflushed")
                        \cup Flag(p > 0 /\ p % Bytes = 0, "boundary")
    /\ out' = <<>>
    /\ UNCHANGED <<perCluster, fat, data, size, closing>>

\* Clusters needed for n cells.
Count(n) == (n + Bytes - 1) \div Bytes

\* The table after fat32_truncate to n cells: cut after the last cluster that
\* stays, the rest freed; nothing of the kind when no cluster is to stay.
CutTable(n) ==
    IF Count(n) < Count(handle.size) /\ Count(n) > 0
    THEN [c \in Clusters |->
            IF c = Walk(Count(n) - 1) THEN LAST
            ELSE IF c \in ChainFrom(Walk(Count(n))) THEN FREE
            ELSE fat[c]]
    ELSE fat

\* fat32_truncate to fewer cells.  The handle's cluster and buffer stay.
Truncate(n) ==
    /\ Ready
    /\ n < handle.size
    /\ Count(n) > 0 => Walk(Count(n) - 1) \in Clusters
    /\ fat' = CutTable(n)
    /\ size' = n
    /\ handle' = [handle EXCEPT !.size = n, !.position = IF @ > n THEN n ELSE @]
    /\ events' = events \cup Flag(handle.position > n, "behind")
    /\ out' = <<>>
    /\ UNCHANGED <<perCluster, data, closing>>

\* fat32_truncate to more cells: only the sizes change.
Extend(n) ==
    /\ Ready
    /\ n > handle.size /\ n <= MaxSize
    /\ size' = n
    /\ handle' = [handle EXCEPT !.size = n]
    /\ events' = events \cup {"extended"}
    /\ out' = <<>>
    /\ UNCHANGED <<perCluster, fat, data, closing>>

\* fat32_close: the buffer first, then the size in the entry.
Close ==
    /\ Ready
    /\ data' = IF handle.dirty /\ handle.sector # NoSector
               THEN [data EXCEPT ![handle.sector] = handle.buffer] ELSE data
    /\ closing' = TRUE
    /\ out' = <<>>
    /\ UNCHANGED <<perCluster, fat, size, handle, events>>

CloseEntry ==
    /\ closing
    /\ size' = handle.size
    /\ handle' = NoHandle
    /\ closing' = FALSE
    /\ out' = <<>>
    /\ UNCHANGED <<perCluster, fat, data, events>>

----------------------------------------------------------------------------
(* Failures.                                                               *)

\* The buffer cannot be written, or a sector not be read, in the middle of
\* fat32_read or fat32_write: the handle has moved to its next cluster c, which
\* may be new, the position has not, and a call that tries again moves on once
\* more.  The buffer may have been written before a sector could not be read.
TransferFails ==
    /\ Ready
    /\ \E c \in {Cluster} \cup FreeClusters : \E written \in BOOLEAN :
          /\ IF AtEnd
             THEN /\ c \in FreeClusters /\ \A d \in FreeClusters : c <= d
                  /\ fat' = [fat EXCEPT ![handle.current] = c, ![c] = LAST]
             ELSE c = Cluster /\ UNCHANGED fat
          /\ Sector(c, SectorIn) # handle.sector
          /\ handle.position < handle.size \/ (handle.dirty /\ ~written)
          /\ written => handle.dirty /\ handle.sector # NoSector
          /\ data' = IF written THEN [data EXCEPT ![handle.sector] = handle.buffer] ELSE data
          /\ handle' = [handle EXCEPT !.current = c, !.dirty = @ /\ ~written]
    /\ events' = events \cup {"io"}
    /\ out' = <<>>
    /\ UNCHANGED <<perCluster, size, closing>>

\* The machine stops: the handle is gone.
Crash ==
    /\ handle.open
    /\ handle' = NoHandle
    /\ closing' = FALSE
    /\ out' = <<>>
    /\ UNCHANGED <<perCluster, fat, data, size, events>>

\* The same inside fat32_truncate, between the table and the entry.
CrashInTruncate(n) ==
    /\ Ready
    /\ n < handle.size
    /\ Count(n) > 0 => Walk(Count(n) - 1) \in Clusters
    /\ fat' = CutTable(n)
    /\ handle' = NoHandle
    /\ events' = events \cup {"torn"}
    /\ out' = <<>>
    /\ UNCHANGED <<perCluster, data, size, closing>>

----------------------------------------------------------------------------
\* An empty file, created with one zeroed cluster, on a volume where other
\* files have some of the other clusters.
Init ==
    /\ perCluster \in PerClusters
    /\ \E taken \in SUBSET (First + 1 .. LastCluster) :
          fat = [c \in Clusters |-> IF c \in {2, First} \cup taken THEN LAST ELSE FREE]
    /\ data = [s \in Sectors |-> IF s[1] = First THEN Zeros
                                 ELSE [i \in 1 .. SectorSize |-> Stale]]
    /\ size = 0
    /\ handle = NoHandle
    /\ closing = FALSE
    /\ out = <<>>
    /\ events = {}

Next ==
    \/ Open \/ ReadPastChain \/ WriteFull \/ Close \/ CloseEntry
    \/ TransferFails \/ Crash
    \/ \E n \in 1 .. SectorSize : \/ Read(n)
                                  \/ \E v \in Stamps : Write(n, v) \/ WriteNew(n, v)
    \/ \E n \in 0 .. MaxSize : Seek(n) \/ Truncate(n) \/ Extend(n) \/ CrashInTruncate(n)

Spec == Init /\ [][Next]_vars

----------------------------------------------------------------------------
(* Properties.                                                             *)

TypeOK ==
    /\ perCluster \in PerClusters
    /\ fat \in [Clusters -> Clusters \cup {FREE, BAD, LAST}]
    /\ data \in [Sectors -> [1 .. SectorSize -> Cells]]
    /\ size \in 0 .. MaxSize
    /\ handle \in [open : BOOLEAN, current : Clusters \cup {FREE, BAD, LAST},
                   position : 0 .. MaxSize, size : 0 .. MaxSize,
                   buffer : [1 .. SectorSize -> Cells], sector : Sectors,
                   dirty : BOOLEAN]
    /\ handle.position <= handle.size
    /\ closing \in BOOLEAN
    /\ out \in Seq(Cells)
    /\ events \subseteq {"unflushed", "appended", "boundary", "behind", "extended",
                         "full", "io", "torn"}

\* Nothing happened that the driver does not cope with.
Calm == events = {}

\* A file reads as what was written to it, at the position the handle says,
\* through every interleaving of open, read, write, seek, truncate and close;
\* and what a crash leaves is the file at its last saved length, with the
\* cells that reached the disk since.
File == INSTANCE ByteFile WITH
    content  <- IF Calm THEN Contents ELSE <<>>,
    saved    <- IF Calm THEN OnDisk(size) ELSE <<>>,
    position <- IF Calm THEN handle.position ELSE 0,
    isOpen   <- Calm /\ handle.open,
    out      <- IF Calm THEN out ELSE <<>>,
    ok       <- Calm

IsByteFile == File!Spec

\* What is written to the disk goes to the file's own sectors: never to those
\* of another file, to a free cluster or to the reserved sectors.
OwnSectorsOnly ==
    [][\A s \in Sectors :
          Calm /\ data'[s] # data[s] => s[1] \in ChainFrom(First)]_vars

=============================================================================
