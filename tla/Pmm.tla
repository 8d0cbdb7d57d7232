-------------------------------- MODULE Pmm --------------------------------
(***************************************************************************)
(* The physical memory manager of kernel/pmm.c: one bit per 4 KB page of   *)
(* physical memory (bit set = page in use), built from the memory map UEFI *)
(* hands over, and the kernel code that takes pages from it and gives them *)
(* back.                                                                   *)
(*                                                                         *)
(* Pages are numbered from 0.  The bytes of the bitmap matter: pmm_init    *)
(* and pmm_alloc_blocks clear and set bits a byte at a time, with masks    *)
(* for the ends of a range, and what they do to the first and to the last  *)
(* byte is modelled bit for bit.                                           *)
(***************************************************************************)
EXTENDS Integers, Sequences, FiniteSets, FiniteSetsExt

CONSTANTS
    Clients,        \* kernel code holding pages, each at most one run of them
    MemoryMaps,     \* the UEFI memory maps pmm_init may be given
    Workloads,      \* which run lengths the clients ask pmm_alloc_blocks for
    KernelPages,    \* pages below 16 MB (0x1000000 / 4096)
    PageBytes,      \* bytes of bitmap that fit in a page (4096)
    LastPage,       \* highest page whose address pmm_is_address_valid accepts
    Word            \* the counters wrap at this value (2^64)

VARIABLES
    mmap,           \* the memory map of this boot
    workload,       \* the run lengths of this behaviour
    marked,         \* numbers of the bits set in bitmap[]
    free_pages,     \* static uint64_t free_pages
    held            \* held[c]: the run of pages client c was given

vars == <<mmap, workload, marked, free_pages, held>>

\* A descriptor: type 7 (conventional), types 3 and 4 (boot services), others.
Kinds == {"conventional", "bootservices", "other"}

DescEnd(d) == d.start + d.pages

\* The memory map has a descriptor that reaches highest; page 0 is not one
\* past the kernel; 16 MB is a whole number of bitmap bytes.
ASSUME PmmAssumption ==
    /\ KernelPages \in Nat /\ KernelPages % 8 = 0 /\ KernelPages > 0
    /\ PageBytes \in Nat \ {0}
    /\ LastPage \in Nat
    /\ Word \in Nat \ {0}
    /\ \A w \in Workloads : w \subseteq Nat \ {0}
    /\ \A m \in MemoryMaps :
          /\ m \in Seq([kind : Kinds, start : Nat, pages : Nat])
          /\ \E i \in DOMAIN m : \A j \in DOMAIN m : DescEnd(m[j]) <= DescEnd(m[i])

----------------------------------------------------------------------------
(* Ranges of bits, cleared or set a byte at a time.                        *)

\* The bits of s's byte from s upwards, when s is not the first of its byte:
\* the mask 0xFF << (s % 8), which does not look at where the range ends.
HeadBits(s) == IF s % 8 # 0 THEN s .. 8 * (s \div 8) + 7 ELSE {}

\* The byte after the masked one.
FirstByte(s) == IF s % 8 # 0 THEN s \div 8 + 1 ELSE s \div 8

\* The byte of the last page of a range that ends before e.
EndByte(e) == (e - 1) \div 8

\* The memset from the first byte up to, and without, the last.
WholeBits(s, e) == 8 * FirstByte(s) .. 8 * EndByte(e) - 1

\* The mask 0xFF >> (8 - e % 8) on the last byte.
TailBits(e) == IF e % 8 # 0 THEN 8 * EndByte(e) .. e - 1 ELSE {}

\* Mutant: the mask for the end of the run is left out.
SetByRunNoTail(s, e) == HeadBits(s) \cup WholeBits(s, e)

\* What pmm_alloc_blocks sets for the run s .. e - 1.
SetByRun(s, e) == HeadBits(s) \cup WholeBits(s, e) \cup TailBits(e)

\* What pmm_init clears for a region s .. e - 1: the tail mask is used only if
\* the head mask already fell on the last byte.
ClearedByRegion(s, e) ==
    HeadBits(s) \cup WholeBits(s, e)
                \cup (IF EndByte(e) = FirstByte(s) - 1 THEN TailBits(e) ELSE {})

----------------------------------------------------------------------------
(* pmm_init                                                                *)

TotalPages(m) ==
    DescEnd(m[CHOOSE i \in DOMAIN m : \A j \in DOMAIN m : DescEnd(m[j]) <= DescEnd(m[i])])

BitmapBytes(m) == (TotalPages(m) + 7) \div 8

\* Where the bitmap goes: the first conventional region above 16 MB that is
\* large enough; the pointer stays NULL (page 0) if there is none.
BitmapPage(m) ==
    LET homes == {i \in DOMAIN m : /\ m[i].kind = "conventional"
                                   /\ m[i].pages * PageBytes >= BitmapBytes(m)
                                   /\ m[i].start >= KernelPages}
    IN  IF homes = {} THEN 0 ELSE m[Min(homes)].start

BitmapPages(m) ==
    BitmapPage(m) .. BitmapPage(m) + (BitmapBytes(m) + PageBytes - 1) \div PageBytes - 1

\* The first 16 MB and the pages of the bitmap.
Protected(m) ==
    ((0 .. KernelPages - 1) \cup BitmapPages(m)) \cap (0 .. TotalPages(m) - 1)

Usable(d) == d.kind \in {"conventional", "bootservices"} /\ d.pages > 0

ReleasedBits(m) ==
    UNION {ClearedByRegion(m[i].start, DescEnd(m[i])) : i \in {j \in DOMAIN m : Usable(m[j])}}

\* Mutant: the bitmap's own pages are not protected.
InitialMarksOfKernelOnly(m) ==
    ((0 .. 8 * BitmapBytes(m) - 1) \ ReleasedBits(m)) \cup (0 .. KernelPages - 1)

\* Mutant: the bitmap starts out clear instead of set.
InitialMarksFromZero(m) == Protected(m)

\* memset(bitmap, 0xFF), the releases, then the two protection loops.
InitialMarks(m) ==
    ((0 .. 8 * BitmapBytes(m) - 1) \ ReleasedBits(m)) \cup Protected(m)

\* free_pages adds the whole of every region, overlaps and unreleased bytes
\* included (a page counts once for each region it is in), and loses one for
\* each page the protection loops find clear.
CountedPages(m) ==
    {x \in (DOMAIN m) \X (0 .. TotalPages(m) - 1) :
        Usable(m[x[1]]) /\ x[2] >= m[x[1]].start /\ x[2] < DescEnd(m[x[1]])}

InitialFree(m) ==
    (Cardinality(CountedPages(m)) - Cardinality(Protected(m) \cap ReleasedBits(m))) % Word

----------------------------------------------------------------------------
(* The clients.                                                            *)

\* What a client that holds nothing has: the NULL an allocation may return.
NoRun == [start |-> 0, count |-> 0]

Run(s, n) == [start |-> s, count |-> n]

PagesOf(r) == r.start .. r.start + r.count - 1

HeldPages == UNION {PagesOf(held[c]) : c \in Clients}

Init ==
    /\ mmap \in MemoryMaps
    /\ workload \in Workloads
    /\ marked = InitialMarks(mmap)
    /\ free_pages = InitialFree(mmap)
    /\ held = [c \in Clients |-> NoRun]

\* A page alloc_page may take: from the byte of 16 MB upwards, byte by byte,
\* then the bits of the last, incomplete byte, wherever that byte is.
TotalBytes == TotalPages(mmap) \div 8

Candidates ==
    {p \in (KernelPages .. 8 * TotalBytes - 1) \cup (8 * TotalBytes .. TotalPages(mmap) - 1) :
        p \notin marked /\ p # 0 /\ p <= LastPage}

\* Mutant: free_pages is not decremented.
AllocPageUncounted(c) ==
    /\ held[c] = NoRun
    /\ \E p \in Candidates :
          /\ \A q \in Candidates : p <= q
          /\ marked' = marked \cup {p}
          /\ held' = [held EXCEPT ![c] = Run(p, 1)]
    /\ UNCHANGED <<mmap, workload, free_pages>>

\* pmm_alloc_page, and pmm_alloc_zpage, which also zeroes what it was given:
\* the first candidate.  With none the client gets NULL and nothing changes.
AllocPage(c) ==
    /\ held[c] = NoRun
    /\ \E p \in Candidates :
          /\ \A q \in Candidates : p <= q
          /\ marked' = marked \cup {p}
          /\ held' = [held EXCEPT ![c] = Run(p, 1)]
    /\ free_pages' = (free_pages - 1) % Word
    /\ UNCHANGED <<mmap, workload>>

\* Where a run of n clear bits starts.
RunStarts(n) ==
    {s \in KernelPages .. TotalPages(mmap) - n : PagesOf(Run(s, n)) \cap marked = {}}

\* pmm_alloc_blocks: the first run that is long enough.  The address is not
\* checked with pmm_is_address_valid.
AllocBlocks(c) ==
    /\ held[c] = NoRun
    /\ \E n \in workload :
          /\ n <= free_pages
          /\ \E s \in RunStarts(n) :
                /\ \A t \in RunStarts(n) : s <= t
                /\ marked' = marked \cup SetByRun(s, s + n)
                /\ held' = [held EXCEPT ![c] = Run(s, n)]
          /\ free_pages' = (free_pages - n) % Word
    /\ UNCHANGED <<mmap, workload>>

\* Mutant: > for >= where the page is compared with 16 MB.
FreedAboveKernel(pages) ==
    {p \in pages : p > KernelPages /\ p < TotalPages(mmap) /\ p \in marked}

\* Of the pages given back, those pmm_free_page acts on: above 16 MB, in
\* range, and marked at that moment.
Freed(pages) ==
    {p \in pages : p >= KernelPages /\ p < TotalPages(mmap) /\ p \in marked}

\* pmm_free_blocks, which frees page by page; pmm_free_page is a run of one.
Free(c) ==
    /\ held[c] # NoRun
    /\ marked' = marked \ Freed(PagesOf(held[c]))
    /\ free_pages' = (free_pages + Cardinality(Freed(PagesOf(held[c])))) % Word
    /\ held' = [held EXCEPT ![c] = NoRun]
    /\ UNCHANGED <<mmap, workload>>

Next == \E c \in Clients : AllocPage(c) \/ AllocBlocks(c) \/ Free(c)

Spec == Init /\ [][Next]_vars

----------------------------------------------------------------------------
(* Properties.                                                             *)

\* Every client holds nothing or a run that ends inside the memory the map
\* describes, and the counter is a machine word.
TypeOK ==
    /\ mmap \in MemoryMaps
    /\ workload \in Workloads
    /\ marked \subseteq Int
    /\ free_pages \in 0 .. Word - 1
    /\ held \in [Clients -> [start : Nat, count : Nat]]
    /\ \A c \in Clients : held[c].start + held[c].count <= TotalPages(mmap)

\* The kernel image below 16 MB and the bitmap itself are never given to a
\* client and never lose their marks, whatever is allocated and freed, in
\* whatever order, even by clients that were given each other's pages.
KernelAndBitmapSafe ==
    /\ Protected(mmap) \subseteq marked
    /\ HeldPages \cap Protected(mmap) = {}

\* The clients ask for runs shorter than a byte of the bitmap.
ShortRuns == workload \subseteq 1 .. 7

\* No page has two owners: while every run asked for is shorter than a byte of
\* the bitmap, two clients are never given the same page.
SingleOwner ==
    ShortRuns =>
        \A c, d \in Clients : c # d => PagesOf(held[c]) \cap PagesOf(held[d]) = {}

\* Everything a client holds is marked, and nothing else is beyond what
\* pmm_init marked, as long as pages are only taken one at a time: freeing
\* everything brings the bitmap of the boot back.
PagesComeBack ==
    workload = {} => marked = InitialMarks(mmap) \cup HeldPages

\* Regions that start and end on a byte of the bitmap.
ByteAligned(m) ==
    \A i \in DOMAIN m : m[i].start % 8 = 0 /\ m[i].pages % 8 = 0

UsablePages(m) ==
    UNION {m[i].start .. DescEnd(m[i]) - 1 : i \in {j \in DOMAIN m : Usable(m[j])}}

\* What clients are given is memory the firmware said may be used: no page of
\* a descriptor of another type (firmware tables, devices) is handed out.
OnlyUsableHandedOut == HeldPages \subseteq UsablePages(mmap)

\* The same, of the memory maps pmm_init clears exactly or conservatively.
AlignedMapsAreSafe == ByteAligned(mmap) => OnlyUsableHandedOut

ClearPages(marks) == (0 .. TotalPages(mmap) - 1) \ marks

\* How much more the counter promises than the bitmap has.
Drift(marks, count) == (count - Cardinality(ClearPages(marks))) % Word

\* Taking a page, and giving back whatever was given, move the counter by
\* exactly what they do to the bitmap; pmm_alloc_blocks does not.
CounterFollowsBitmap ==
    [][\A c \in Clients :
          AllocPage(c) \/ Free(c)
            => Drift(marked', free_pages') = Drift(marked, free_pages)]_vars

\* pmm_alloc_blocks hands out a run of pages of which nobody holds one: the
\* allocations mark what they hand out, whole bytes in bulk (the comments of
\* lines 209 and 222).
RunsAreFree ==
    [][\A c \in Clients :
          held'[c] # held[c] => PagesOf(held'[c]) \cap HeldPages = {}]_vars

=============================================================================
