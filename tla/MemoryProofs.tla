---------------------------- MODULE MemoryProofs ----------------------------
(* What kernel/memory.c keeps, checked by TLAPS: Pmm for every memory map,  *)
(* every set of clients and every sequence of allocations; Heap, which the  *)
(* code keeps apart from it, for every size of heap, every set of sizes     *)
(* whose sums do not wrap, and every sequence of calls; and the page tables *)
(* of kernel/vmm.c, for any number of levels, entries and frames, whoever   *)
(* else uses the allocator and wherever memory runs out.                    *)
EXTENDS Pmm, Heap, Paging, FiniteSetTheorems, WellFoundedInduction, TLAPS

----------------------------------------------------------------------------
(* The ranges of bits.                                                     *)

\* The marks of a run stay above the run's first page, and leave none of its
\* pages clear when it is shorter than a byte of the bitmap.
LEMMA ShortRunIsMarked ==
    ASSUME NEW s \in Nat, NEW n \in 1 .. 7
    PROVE  s .. s + n - 1 \subseteq SetByRun(s, s + n)
<1> DEFINE e == s + n
<1>1. e \in Nat /\ s < e /\ e - s <= 7
  OBVIOUS
<1> HIDE DEF e
<1> SUFFICES ASSUME NEW p \in s .. e - 1
             PROVE  p \in SetByRun(s, e)
  BY <1>1 DEF e
<1>2. CASE s % 8 # 0 /\ p <= 8 * (s \div 8) + 7
  BY <1>1, <1>2 DEF SetByRun, HeadBits
<1>3. CASE s % 8 # 0 /\ p > 8 * (s \div 8) + 7
  <2>1. (e - 1) \div 8 = s \div 8 + 1
    BY <1>1, <1>3
  <2>2. e % 8 # 0 /\ p >= 8 * ((e - 1) \div 8)
    BY <1>1, <1>3, <2>1
  <2>3. QED
    BY <1>1, <2>2 DEF SetByRun, TailBits, EndByte
<1>4. CASE s % 8 = 0
  <2>1. e % 8 # 0 /\ 8 * ((e - 1) \div 8) = s
    BY <1>1, <1>4
  <2>2. QED
    BY <1>1, <2>1 DEF SetByRun, TailBits, EndByte
<1>5. QED
  BY <1>1, <1>2, <1>3, <1>4

\* The marks of a run are page numbers.
LEMMA RunMarksAreInt ==
    ASSUME NEW s \in Int, NEW e \in Int
    PROVE  SetByRun(s, e) \subseteq Int
BY DEF SetByRun, HeadBits, WholeBits, TailBits, FirstByte, EndByte

\* A region that starts and ends on a byte releases none but its own pages.
LEMMA AlignedRegionIsExact ==
    ASSUME NEW s \in Nat, NEW e \in Nat, s % 8 = 0, e % 8 = 0
    PROVE  ClearedByRegion(s, e) \subseteq s .. e - 1
<1>1. HeadBits(s) = {} /\ TailBits(e) = {}
  BY DEF HeadBits, TailBits
<1>2. 8 * FirstByte(s) = s
  BY DEF FirstByte
<1>3. EndByte(e) \in Int /\ 8 * EndByte(e) <= e - 1
  BY DEF EndByte
<1>4. QED
  BY <1>1, <1>2, <1>3 DEF ClearedByRegion, WholeBits

----------------------------------------------------------------------------
(* The memory map.                                                         *)

\* An element of a sequence.
LEMMA SeqElement ==
    ASSUME NEW S, NEW q \in Seq(S), NEW i \in DOMAIN q
    PROVE  q[i] \in S
OBVIOUS

\* The highest end of a descriptor is a page number.
LEMMA TotalPagesType ==
    ASSUME NEW m \in MemoryMaps
    PROVE  /\ TotalPages(m) \in Nat
           /\ BitmapBytes(m) \in Nat
           /\ TotalPages(m) <= 8 * BitmapBytes(m)
<1>1. PICK i \in DOMAIN m : \A j \in DOMAIN m : DescEnd(m[j]) <= DescEnd(m[i])
  BY PmmAssumption
<1> DEFINE top == CHOOSE k \in DOMAIN m : \A j \in DOMAIN m : DescEnd(m[j]) <= DescEnd(m[k])
<1>2. top \in DOMAIN m
  BY <1>1
<1>3. m \in Seq([kind : Kinds, start : Nat, pages : Nat])
  BY PmmAssumption
<1> HIDE DEF top
<1>4. m[top].start \in Nat /\ m[top].pages \in Nat
  <2>1. m[top] \in [kind : Kinds, start : Nat, pages : Nat]
    BY <1>2, <1>3, SeqElement
  <2>2. QED
    BY <2>1
<1>5. TotalPages(m) = DescEnd(m[top])
  BY DEF TotalPages, top
<1>6. TotalPages(m) \in Nat
  BY <1>4, <1>5 DEF DescEnd
<1>7. QED
  BY <1>6 DEF BitmapBytes

\* The counter pmm_init leaves is a machine word.
LEMMA InitialFreeType ==
    ASSUME NEW m \in MemoryMaps
    PROVE  InitialFree(m) \in 0 .. Word - 1
<1>1. TotalPages(m) \in Nat
  BY TotalPagesType
<1>2. IsFiniteSet(DOMAIN m)
  <2>1. m \in Seq([kind : Kinds, start : Nat, pages : Nat])
    BY PmmAssumption
  <2>2. DOMAIN m = 1 .. Len(m) /\ Len(m) \in Nat
    BY <2>1
  <2>3. QED
    BY <2>2, FS_Interval
<1>3. IsFiniteSet(0 .. TotalPages(m) - 1)
  BY <1>1, FS_Interval
<1>4. IsFiniteSet((DOMAIN m) \X (0 .. TotalPages(m) - 1))
  BY <1>2, <1>3, FS_Product
<1>5. CountedPages(m) \subseteq (DOMAIN m) \X (0 .. TotalPages(m) - 1)
  BY DEF CountedPages
<1>6. Cardinality(CountedPages(m)) \in Nat
  BY <1>4, <1>5, FS_Subset, FS_CardinalityType
<1>7. Cardinality(Protected(m) \cap ReleasedBits(m)) \in Nat
  <2>1. Protected(m) \cap ReleasedBits(m) \subseteq 0 .. TotalPages(m) - 1
    BY DEF Protected
  <2>2. QED
    BY <1>3, <2>1, FS_Subset, FS_CardinalityType
<1>8. QED
  BY <1>6, <1>7, PmmAssumption DEF InitialFree

----------------------------------------------------------------------------
(* Type correctness.                                                       *)

\* A client given a run that ends inside memory holds one.
LEMMA GivenRunFits ==
    ASSUME NEW c \in Clients, NEW s \in Nat, NEW n \in Nat, s + n <= TotalPages(mmap),
           TypeOK, mmap' = mmap, held' = [held EXCEPT ![c] = Run(s, n)]
    PROVE  /\ held' \in [Clients -> [start : Nat, count : Nat]]
           /\ \A d \in Clients : held'[d].start + held'[d].count <= TotalPages(mmap')
<1>1. held' \in [Clients -> [start : Nat, count : Nat]]
  BY DEF TypeOK, Run
<1>2. ASSUME NEW d \in Clients
      PROVE  held'[d].start + held'[d].count <= TotalPages(mmap)
  BY DEF TypeOK, Run
<1>3. QED
  BY <1>1, <1>2

\* Every behaviour of the memory manager is type correct: the counter stays
\* a machine word, and what a client holds is a run of pages.
THEOREM TypeCorrect == Spec => []TypeOK
<1>1. Init => TypeOK
  <2> SUFFICES ASSUME Init
               PROVE  TypeOK
    OBVIOUS
  <2>1. free_pages \in 0 .. Word - 1
    BY InitialFreeType DEF Init
  <2>2. marked \subseteq Int
    BY TotalPagesType DEF Init, InitialMarks, Protected
  <2>3. QED
    BY <2>1, <2>2, TotalPagesType DEF Init, TypeOK, NoRun
<1>2. TypeOK /\ [Next]_vars => TypeOK'
  <2> SUFFICES ASSUME TypeOK, [Next]_vars
               PROVE  TypeOK'
    OBVIOUS
  <2> USE DEF TypeOK
  <2>0. KernelPages \in Nat /\ TotalPages(mmap) \in Nat
    BY PmmAssumption, TotalPagesType
  <2>1. ASSUME NEW c \in Clients, AllocPage(c)
        PROVE  TypeOK'
    <3>1. PICK p \in Candidates : /\ marked' = marked \cup {p}
                                  /\ held' = [held EXCEPT ![c] = Run(p, 1)]
      BY <2>1 DEF AllocPage
    <3>2. p \in Nat /\ p + 1 <= TotalPages(mmap)
      BY <2>0, <3>1 DEF Candidates, TotalBytes
    <3>3. free_pages' \in 0 .. Word - 1
      BY <2>1, PmmAssumption DEF AllocPage
    <3>4. QED
      BY <2>1, <3>1, <3>2, <3>3, GivenRunFits DEF AllocPage, Run
  <2>2. ASSUME NEW c \in Clients, AllocBlocks(c)
        PROVE  TypeOK'
    <3>1. PICK n \in workload :
              /\ \E s \in RunStarts(n) :
                    /\ marked' = marked \cup SetByRun(s, s + n)
                    /\ held' = [held EXCEPT ![c] = Run(s, n)]
              /\ free_pages' = (free_pages - n) % Word
      BY <2>2 DEF AllocBlocks
    <3>2. n \in Nat
      BY PmmAssumption
    <3>3. PICK s \in RunStarts(n) :
                    /\ marked' = marked \cup SetByRun(s, s + n)
                    /\ held' = [held EXCEPT ![c] = Run(s, n)]
      BY <3>1
    <3>4. s \in Nat /\ s + n <= TotalPages(mmap)
      BY <2>0, <3>2 DEF RunStarts
    <3>5. SetByRun(s, s + n) \subseteq Int
      BY <3>2, <3>4, RunMarksAreInt
    <3>6. free_pages' \in 0 .. Word - 1
      <4>1. free_pages - n \in Int /\ Word \in Nat \ {0} /\ free_pages' = (free_pages - n) % Word
        BY <3>1, <3>2, PmmAssumption
      <4>2. QED
        BY <4>1
    <3>7. QED
      BY <2>2, <3>2, <3>3, <3>4, <3>5, <3>6, GivenRunFits DEF AllocBlocks, Run
  <2>3. ASSUME NEW c \in Clients, Free(c)
        PROVE  TypeOK'
    <3>1. Cardinality(Freed(PagesOf(held[c]))) \in Nat
      <4>1. IsFiniteSet(0 .. TotalPages(mmap) - 1)
        BY <2>0, FS_Interval
      <4>2. Freed(PagesOf(held[c])) \subseteq 0 .. TotalPages(mmap) - 1
        BY <2>0 DEF Freed, PagesOf
      <4>3. QED
        BY <4>1, <4>2, FS_Subset, FS_CardinalityType
    <3>2. free_pages' \in 0 .. Word - 1
      <4>1. free_pages \in Int /\ Word \in Nat \ {0}
        BY PmmAssumption
      <4>2. (free_pages + Cardinality(Freed(PagesOf(held[c])))) % Word \in 0 .. Word - 1
        BY <3>1, <4>1
      <4>3. QED
        BY <2>3, <4>2 DEF Free
    <3>3. /\ mmap' = mmap /\ workload' = workload /\ marked' \subseteq Int
          /\ held' = [held EXCEPT ![c] = Run(0, 0)]
      BY <2>3 DEF Free, NoRun, Run
    <3>4. /\ held' \in [Clients -> [start : Nat, count : Nat]]
          /\ \A d \in Clients : held'[d].start + held'[d].count <= TotalPages(mmap')
      <4>1. 0 \in Nat /\ 0 + 0 <= TotalPages(mmap)
        BY <2>0
      <4>2. QED
        BY <3>3, <4>1, GivenRunFits
    <3>5. QED
      BY <3>2, <3>3, <3>4
  <2>4. CASE UNCHANGED vars
    BY <2>4 DEF vars
  <2>5. QED
    BY <2>1, <2>2, <2>3, <2>4 DEF Next
<1>3. QED
  BY <1>1, <1>2, PTL DEF Spec

----------------------------------------------------------------------------
(* The kernel and the bitmap.                                              *)

\* What each operation gives out is free at that moment, and in range.
LEMMA GivenPagesAreClear ==
    ASSUME NEW c \in Clients, TypeOK, AllocPage(c) \/ AllocBlocks(c)
    PROVE  \E r \in [start : Nat, count : Nat] :
              /\ held' = [held EXCEPT ![c] = r]
              /\ PagesOf(r) \cap marked = {}
              /\ PagesOf(r) \subseteq 0 .. TotalPages(mmap) - 1
<1>0. KernelPages \in Nat /\ TotalPages(mmap) \in Nat
  BY PmmAssumption, TotalPagesType DEF TypeOK
<1>1. CASE AllocPage(c)
  <2>1. PICK p \in Candidates : held' = [held EXCEPT ![c] = Run(p, 1)]
    BY <1>1 DEF AllocPage
  <2>2. p \in 0 .. TotalPages(mmap) - 1 /\ p \notin marked
    BY <1>0, <2>1 DEF Candidates, TotalBytes
  <2>3. Run(p, 1) \in [start : Nat, count : Nat] /\ PagesOf(Run(p, 1)) = {p}
    BY <1>0, <2>2 DEF Run, PagesOf
  <2>4. QED
    BY <2>1, <2>2, <2>3
<1>2. CASE AllocBlocks(c)
  <2>0. PICK n \in workload : \E s \in RunStarts(n) : held' = [held EXCEPT ![c] = Run(s, n)]
    BY <1>2 DEF AllocBlocks
  <2>1. PICK s \in RunStarts(n) : held' = [held EXCEPT ![c] = Run(s, n)]
    BY <2>0
  <2>2. n \in Nat
    BY PmmAssumption DEF TypeOK
  <2>3. s \in Nat /\ s + n <= TotalPages(mmap) /\ PagesOf(Run(s, n)) \cap marked = {}
    BY <1>0, <2>1, <2>2 DEF RunStarts
  <2>4. Run(s, n) \in [start : Nat, count : Nat]
        /\ PagesOf(Run(s, n)) \subseteq 0 .. TotalPages(mmap) - 1
    BY <1>0, <2>2, <2>3 DEF Run, PagesOf
  <2>5. QED
    BY <2>1, <2>3, <2>4
<1>3. QED
  BY <1>1, <1>2

\* No memory map, no run length and no order of allocations and frees makes
\* the manager hand out, or unmark, the kernel's first 16 MB or its own
\* bitmap: even the runs it hands out twice stay clear of them.
THEOREM KernelAndBitmapStaySafe == Spec => []KernelAndBitmapSafe
<1>1. Init => KernelAndBitmapSafe
  BY DEF Init, KernelAndBitmapSafe, InitialMarks, HeldPages, PagesOf, NoRun
<1>2. TypeOK /\ KernelAndBitmapSafe /\ [Next]_vars => KernelAndBitmapSafe'
  <2> SUFFICES ASSUME TypeOK, KernelAndBitmapSafe, [Next]_vars
               PROVE  KernelAndBitmapSafe'
    OBVIOUS
  <2> USE DEF KernelAndBitmapSafe, HeldPages
  <2>1. ASSUME NEW c \in Clients, AllocPage(c) \/ AllocBlocks(c)
        PROVE  KernelAndBitmapSafe'
    <3>1. mmap' = mmap /\ marked \subseteq marked'
      BY <2>1 DEF AllocPage, AllocBlocks
    <3>2. PICK r \in [start : Nat, count : Nat] :
              /\ held' = [held EXCEPT ![c] = r]
              /\ PagesOf(r) \cap marked = {}
      BY <2>1, GivenPagesAreClear
    <3>3. \A d \in Clients : PagesOf(held'[d]) \cap Protected(mmap) = {}
      BY <3>2 DEF TypeOK
    <3>4. QED
      BY <3>1, <3>3
  <2>2. ASSUME NEW c \in Clients, Free(c)
        PROVE  KernelAndBitmapSafe'
    <3>1. mmap' = mmap /\ held' = [held EXCEPT ![c] = NoRun]
          /\ marked' = marked \ Freed(PagesOf(held[c]))
      BY <2>2 DEF Free
    <3>2. Freed(PagesOf(held[c])) \cap Protected(mmap) = {}
      BY DEF Freed
    <3>3. PagesOf(NoRun) = {}
      BY DEF PagesOf, NoRun
    <3>4. \A d \in Clients : PagesOf(held'[d]) \cap Protected(mmap) = {}
      BY <3>1, <3>3 DEF TypeOK
    <3>5. QED
      BY <3>1, <3>2, <3>4
  <2>3. CASE UNCHANGED vars
    BY <2>3 DEF vars
  <2>4. QED
    BY <2>1, <2>2, <2>3 DEF Next
<1>3. QED
  BY <1>1, <1>2, TypeCorrect, PTL DEF Spec

----------------------------------------------------------------------------
(* One owner per page.                                                     *)

\* The strengthening: what is held is marked, so that no search finds it.
Owned ==
    ShortRuns =>
        /\ HeldPages \subseteq marked
        /\ \A c, d \in Clients : c # d => PagesOf(held[c]) \cap PagesOf(held[d]) = {}

\* An allocation of fewer than 8 pages marks all it gives out.
LEMMA GivenPagesAreMarked ==
    ASSUME NEW c \in Clients, TypeOK, ShortRuns, AllocPage(c) \/ AllocBlocks(c)
    PROVE  PagesOf(held'[c]) \subseteq marked'
<1>0. KernelPages \in Nat /\ TotalPages(mmap) \in Nat
  BY PmmAssumption, TotalPagesType DEF TypeOK
<1>1. CASE AllocPage(c)
  <2>1. PICK p \in Candidates : /\ marked' = marked \cup {p}
                                /\ held' = [held EXCEPT ![c] = Run(p, 1)]
    BY <1>1 DEF AllocPage
  <2>2. p \in Int
    BY <1>0, <2>1 DEF Candidates, TotalBytes
  <2>3. PagesOf(Run(p, 1)) = {p}
    BY <2>2 DEF Run, PagesOf
  <2>4. QED
    BY <2>1, <2>3 DEF TypeOK
<1>2. CASE AllocBlocks(c)
  <2>1. PICK n \in workload :
            \E s \in RunStarts(n) : /\ marked' = marked \cup SetByRun(s, s + n)
                                    /\ held' = [held EXCEPT ![c] = Run(s, n)]
    BY <1>2 DEF AllocBlocks
  <2>2. n \in 1 .. 7
    BY <2>1 DEF ShortRuns
  <2>3. PICK s \in RunStarts(n) : /\ marked' = marked \cup SetByRun(s, s + n)
                                  /\ held' = [held EXCEPT ![c] = Run(s, n)]
    BY <2>1
  <2>4. s \in Nat
    BY <1>0, <2>2 DEF RunStarts
  <2>5. PagesOf(Run(s, n)) = s .. s + n - 1
    BY DEF Run, PagesOf
  <2>6. s .. s + n - 1 \subseteq SetByRun(s, s + n)
    BY <2>2, <2>4, ShortRunIsMarked
  <2>7. held'[c] = Run(s, n)
    BY <2>3 DEF TypeOK
  <2>8. QED
    BY <2>3, <2>5, <2>6, <2>7
<1>3. QED
  BY <1>1, <1>2

LEMMA OwnedIsInvariant == Spec => []Owned
<1>1. Init => Owned
  BY DEF Init, Owned, HeldPages, PagesOf, NoRun
<1>2. TypeOK /\ Owned /\ [Next]_vars => Owned'
  <2> SUFFICES ASSUME TypeOK, Owned, [Next]_vars, ShortRuns'
               PROVE  /\ (HeldPages \subseteq marked)'
                      /\ \A c, d \in Clients :
                            c # d => PagesOf(held'[c]) \cap PagesOf(held'[d]) = {}
    BY DEF Owned, HeldPages
  <2>0. ShortRuns
    BY DEF ShortRuns, Next, vars, AllocPage, AllocBlocks, Free
  <2> USE DEF HeldPages
  <2>1. ASSUME NEW c \in Clients, AllocPage(c) \/ AllocBlocks(c)
        PROVE  /\ (HeldPages \subseteq marked)'
               /\ \A d, e \in Clients :
                     d # e => PagesOf(held'[d]) \cap PagesOf(held'[e]) = {}
    <3>1. marked \subseteq marked'
      BY <2>1 DEF AllocPage, AllocBlocks
    <3>2. PICK r \in [start : Nat, count : Nat] :
              /\ held' = [held EXCEPT ![c] = r]
              /\ PagesOf(r) \cap marked = {}
      BY <2>1, GivenPagesAreClear
    <3>3. PagesOf(held'[c]) \subseteq marked'
      BY <2>0, <2>1, GivenPagesAreMarked
    <3>4. held'[c] = r /\ \A d \in Clients : d # c => held'[d] = held[d]
      BY <3>2 DEF TypeOK
    <3>5. \A d \in Clients : PagesOf(held[d]) \subseteq marked
      BY <2>0 DEF Owned
    <3>6. \A d \in Clients : PagesOf(held'[d]) \subseteq marked'
      BY <3>1, <3>3, <3>4, <3>5
    <3>7. \A d, e \in Clients :
             d # e => PagesOf(held'[d]) \cap PagesOf(held'[e]) = {}
      BY <2>0, <3>2, <3>4, <3>5 DEF Owned
    <3>8. QED
      BY <3>6, <3>7
  <2>2. ASSUME NEW c \in Clients, Free(c)
        PROVE  /\ (HeldPages \subseteq marked)'
               /\ \A d, e \in Clients :
                     d # e => PagesOf(held'[d]) \cap PagesOf(held'[e]) = {}
    <3>1. /\ held'[c] = NoRun /\ \A d \in Clients : d # c => held'[d] = held[d]
          /\ marked' = marked \ Freed(PagesOf(held[c]))
      BY <2>2 DEF Free, TypeOK
    <3>2. PagesOf(NoRun) = {}
      BY DEF PagesOf, NoRun
    <3>3. Freed(PagesOf(held[c])) \subseteq PagesOf(held[c])
      BY DEF Freed
    <3>4. \A d \in Clients : PagesOf(held[d]) \subseteq marked
      BY <2>0 DEF Owned
    <3>5. \A d \in Clients : d # c => PagesOf(held[d]) \cap PagesOf(held[c]) = {}
      BY <2>0 DEF Owned
    <3>6. \A d \in Clients : PagesOf(held'[d]) \subseteq marked'
      BY <3>1, <3>2, <3>3, <3>4, <3>5
    <3>7. QED
      BY <2>0, <3>1, <3>2, <3>6 DEF Owned
  <2>3. CASE UNCHANGED vars
    BY <2>0, <2>3 DEF vars, Owned
  <2>4. QED
    BY <2>1, <2>2, <2>3 DEF Next
<1>3. QED
  BY <1>1, <1>2, TypeCorrect, PTL DEF Spec

\* Clients that ask for runs of fewer than 8 pages are never given a page that
\* another client holds, on any machine and in any order of calls.
THEOREM PagesHaveOneOwner == Spec => []SingleOwner
<1>1. Owned => SingleOwner
  BY DEF Owned, SingleOwner
<1>2. QED
  BY <1>1, OwnedIsInvariant, PTL

\* For those clients, every allocation is of pages nobody holds.
THEOREM ShortRunsAreFree == Spec => [][ShortRuns => \A c \in Clients :
                 held'[c] # held[c] => PagesOf(held'[c]) \cap HeldPages = {}]_vars
<1>1. TypeOK /\ Owned /\ [Next]_vars =>
        [ShortRuns => \A c \in Clients :
            held'[c] # held[c] => PagesOf(held'[c]) \cap HeldPages = {}]_vars
  <2> SUFFICES ASSUME TypeOK, Owned, Next, ShortRuns, NEW c \in Clients, held'[c] # held[c]
               PROVE  PagesOf(held'[c]) \cap HeldPages = {}
    BY DEF vars
  <2>1. PICK d \in Clients : AllocPage(d) \/ AllocBlocks(d) \/ Free(d)
    BY DEF Next
  <2>2. CASE AllocPage(d) \/ AllocBlocks(d)
    BY <2>2, GivenPagesAreClear DEF Owned, TypeOK
  <2>3. CASE Free(d)
    BY <2>3 DEF Free, TypeOK, PagesOf, NoRun
  <2>4. QED
    BY <2>1, <2>2, <2>3
<1>2. QED
  BY <1>1, TypeCorrect, OwnedIsInvariant, PTL DEF Spec

----------------------------------------------------------------------------
(* Single pages come back.                                                 *)

\* The strengthening of PagesComeBack: what is held was clear after pmm_init.
ComeBackInv ==
    workload = {} =>
        /\ marked = InitialMarks(mmap) \cup HeldPages
        /\ HeldPages \cap InitialMarks(mmap) = {}
        /\ HeldPages \subseteq 0 .. TotalPages(mmap) - 1

\* With no runs but single pages, the bitmap is at every moment what pmm_init
\* left and the pages held: none is lost, and none stays marked once freed.
THEOREM PagesDoComeBack == Spec => []PagesComeBack
<1>1. Init => ComeBackInv
  BY DEF Init, ComeBackInv, HeldPages, PagesOf, NoRun
<1>2. TypeOK /\ Owned /\ KernelAndBitmapSafe /\ ComeBackInv /\ [Next]_vars => ComeBackInv'
  <2> SUFFICES ASSUME TypeOK, Owned, KernelAndBitmapSafe, ComeBackInv, [Next]_vars,
                      workload' = {}
               PROVE  /\ marked' = InitialMarks(mmap') \cup HeldPages'
                      /\ HeldPages' \cap InitialMarks(mmap') = {}
                      /\ HeldPages' \subseteq 0 .. TotalPages(mmap') - 1
    BY DEF ComeBackInv
  <2>0. workload = {} /\ mmap' = mmap /\ ShortRuns
    BY DEF ShortRuns, Next, vars, AllocPage, AllocBlocks, Free
  <2> USE DEF HeldPages
  <2>1. ASSUME NEW c \in Clients, AllocPage(c)
        PROVE  ComeBackInv'
    <3>1. PICK p \in Candidates : /\ marked' = marked \cup {p}
                                  /\ held' = [held EXCEPT ![c] = Run(p, 1)]
      BY <2>1 DEF AllocPage
    <3>2. KernelPages \in Nat /\ TotalPages(mmap) \in Nat
      BY PmmAssumption, TotalPagesType DEF TypeOK
    <3>3. p \in 0 .. TotalPages(mmap) - 1 /\ p \notin marked
      BY <3>1, <3>2 DEF Candidates, TotalBytes
    <3>4. PagesOf(Run(p, 1)) = {p} /\ PagesOf(held[c]) = {}
      BY <2>1, <3>3 DEF AllocPage, Run, PagesOf, NoRun
    <3>5. HeldPages' = HeldPages \cup {p}
      BY <3>1, <3>4 DEF TypeOK
    <3>6. QED
      BY <2>0, <3>1, <3>3, <3>5 DEF ComeBackInv
  <2>2. ASSUME NEW c \in Clients, Free(c)
        PROVE  ComeBackInv'
    <3>1. PagesOf(held[c]) \subseteq HeldPages
      OBVIOUS
    <3>2. Freed(PagesOf(held[c])) = PagesOf(held[c])
      <4>1. PagesOf(held[c]) \subseteq 0 .. TotalPages(mmap) - 1
            /\ PagesOf(held[c]) \cap Protected(mmap) = {}
        BY <2>0, <3>1 DEF ComeBackInv, KernelAndBitmapSafe
      <4>2. KernelPages \in Nat /\ TotalPages(mmap) \in Nat
        BY PmmAssumption, TotalPagesType DEF TypeOK
      <4>3. \A p \in PagesOf(held[c]) : p >= KernelPages /\ p < TotalPages(mmap)
        BY <4>1, <4>2 DEF Protected
      <4>4. QED
        BY <2>0, <3>1, <4>3 DEF Freed, Owned
    <3>3. HeldPages' = HeldPages \ PagesOf(held[c])
      <4>1. PagesOf(held'[c]) = {} /\ \A d \in Clients : d # c => held'[d] = held[d]
        BY <2>2 DEF Free, TypeOK, PagesOf, NoRun
      <4>2. \A d \in Clients : d # c => PagesOf(held[d]) \cap PagesOf(held[c]) = {}
        BY <2>0 DEF Owned
      <4>3. QED
        BY <4>1, <4>2
    <3>4. marked' = marked \ PagesOf(held[c])
      BY <2>2, <3>2 DEF Free
    <3>5. QED
      BY <2>0, <3>1, <3>3, <3>4 DEF ComeBackInv
  <2>3. ASSUME NEW c \in Clients, AllocBlocks(c)
        PROVE  FALSE
    BY <2>0, <2>3 DEF AllocBlocks
  <2>4. CASE UNCHANGED vars
    BY <2>0, <2>4 DEF vars, ComeBackInv
  <2>5. QED
    BY <2>0, <2>1, <2>2, <2>3, <2>4 DEF Next, ComeBackInv
<1>3. ComeBackInv => PagesComeBack
  BY DEF ComeBackInv, PagesComeBack
<1>4. QED
  BY <1>1, <1>2, <1>3, TypeCorrect, OwnedIsInvariant, KernelAndBitmapStaySafe, PTL DEF Spec

----------------------------------------------------------------------------
(* Only memory the firmware offers.                                        *)

\* The strengthening: no clear bit stands for a page outside the usable regions.
ClearIsUsable ==
    ByteAligned(mmap) =>
        /\ (0 .. TotalPages(mmap) - 1) \ marked \subseteq UsablePages(mmap)
        /\ HeldPages \subseteq UsablePages(mmap)

\* pmm_init releases no page outside the usable regions, if their ends fall on
\* bytes of the bitmap.
LEMMA AlignedReleaseIsUsable ==
    ASSUME NEW m \in MemoryMaps, ByteAligned(m)
    PROVE  (0 .. TotalPages(m) - 1) \ InitialMarks(m) \subseteq UsablePages(m)
<1>1. TotalPages(m) \in Nat /\ BitmapBytes(m) \in Nat /\ TotalPages(m) <= 8 * BitmapBytes(m)
  BY TotalPagesType
<1>2. (0 .. TotalPages(m) - 1) \ InitialMarks(m) \subseteq ReleasedBits(m)
  BY <1>1 DEF InitialMarks
<1>3. ASSUME NEW i \in DOMAIN m, Usable(m[i])
      PROVE  ClearedByRegion(m[i].start, DescEnd(m[i])) \subseteq m[i].start .. DescEnd(m[i]) - 1
  <2>1. m[i] \in [kind : Kinds, start : Nat, pages : Nat]
    BY PmmAssumption, SeqElement
  <2>2. m[i].start % 8 = 0 /\ m[i].pages % 8 = 0
    BY DEF ByteAligned
  <2>3. DescEnd(m[i]) \in Nat /\ DescEnd(m[i]) % 8 = 0 /\ m[i].start \in Nat
    BY <2>1, <2>2 DEF DescEnd
  <2>4. QED
    BY <2>2, <2>3, AlignedRegionIsExact
<1>4. ReleasedBits(m) \subseteq UsablePages(m)
  BY <1>3 DEF ReleasedBits, UsablePages
<1>5. QED
  BY <1>2, <1>4

\* On memory maps whose regions fall on bytes of the bitmap, no client is ever
\* given a page the firmware keeps for itself.
THEOREM OnlyUsableOnAlignedMaps == Spec => []AlignedMapsAreSafe
<1>1. Init => ClearIsUsable
  BY AlignedReleaseIsUsable DEF Init, ClearIsUsable, HeldPages, PagesOf, NoRun
<1>2. TypeOK /\ ClearIsUsable /\ [Next]_vars => ClearIsUsable'
  <2> SUFFICES ASSUME TypeOK, ClearIsUsable, [Next]_vars, ByteAligned(mmap')
               PROVE  /\ (0 .. TotalPages(mmap') - 1) \ marked' \subseteq UsablePages(mmap')
                      /\ HeldPages' \subseteq UsablePages(mmap')
    BY DEF ClearIsUsable
  <2>0. mmap' = mmap
    BY DEF Next, vars, AllocPage, AllocBlocks, Free
  <2> USE DEF HeldPages
  <2>1. ASSUME NEW c \in Clients, AllocPage(c) \/ AllocBlocks(c)
        PROVE  ClearIsUsable'
    <3>1. marked \subseteq marked'
      BY <2>1 DEF AllocPage, AllocBlocks
    <3>2. PICK r \in [start : Nat, count : Nat] :
              /\ held' = [held EXCEPT ![c] = r]
              /\ PagesOf(r) \cap marked = {}
              /\ PagesOf(r) \subseteq 0 .. TotalPages(mmap) - 1
      BY <2>1, GivenPagesAreClear
    <3>3. HeldPages' \subseteq HeldPages \cup PagesOf(r)
      BY <3>2 DEF TypeOK
    <3>4. QED
      BY <2>0, <3>1, <3>2, <3>3 DEF ClearIsUsable
  <2>2. ASSUME NEW c \in Clients, Free(c)
        PROVE  ClearIsUsable'
    <3>1. marked \ marked' \subseteq HeldPages
      BY <2>2 DEF Free, Freed
    <3>2. HeldPages' \subseteq HeldPages
      BY <2>2 DEF Free, TypeOK, PagesOf, NoRun
    <3>3. QED
      BY <2>0, <3>1, <3>2 DEF ClearIsUsable
  <2>3. CASE UNCHANGED vars
    BY <2>0, <2>3 DEF vars, ClearIsUsable
  <2>4. QED
    BY <2>0, <2>1, <2>2, <2>3 DEF Next, ClearIsUsable
<1>3. ClearIsUsable => AlignedMapsAreSafe
  BY DEF ClearIsUsable, AlignedMapsAreSafe, OnlyUsableHandedOut
<1>4. QED
  BY <1>1, <1>2, <1>3, TypeCorrect, PTL DEF Spec

----------------------------------------------------------------------------
(* The counter.                                                            *)

\* Whole words make no difference to a counter.
LEMMA WholeWords ==
    ASSUME NEW w \in Nat \ {0}, NEW a \in Int, NEW q \in Int
    PROVE  (a - w * q) % w = a % w
<1> DEFINE x == a - w * q
           p == x \div w
           r == x % w
           s == a % w
           t == a \div w
<1>1. x \in Int /\ p \in Int /\ r \in 0 .. w - 1 /\ x = w * p + r
  OBVIOUS
<1>2. t \in Int /\ s \in 0 .. w - 1 /\ a = w * t + s
  OBVIOUS
<1>3. w * (t - q - p) = r - s
  BY <1>1, <1>2
<1> HIDE DEF p, r, s, t
<1> DEFINE k == t - q - p
<1>4. k \in Int /\ w * k = r - s /\ r - s < w /\ r - s > -w
  BY <1>1, <1>2, <1>3
<1>5. k = 0
  <2> HIDE DEF k
  <2>1. k >= 1 => w * k >= w
    BY <1>4
  <2>2. k <= -1 => w * k <= -w
    BY <1>4
  <2> QED
    BY <1>1, <1>2, <1>4, <2>1, <2>2
<1> QED
  BY <1>1, <1>2, <1>4, <1>5 DEF r, s

\* A counter that wraps may be adjusted before or after.
LEMMA Adjusted ==
    ASSUME NEW w \in Nat \ {0}, NEW a \in Int, NEW b \in Int
    PROVE  ((a % w) - b) % w = (a - b) % w
<1> DEFINE q == a \div w
           d == a - b
<1>1. q \in Int /\ a % w = a - w * q /\ w * q \in Int
  OBVIOUS
<1> HIDE DEF q
<1>2. (a % w) - b = d - w * q /\ d \in Int
  BY <1>1
<1> HIDE DEF d
<1>3. (d - w * q) % w = d % w
  BY <1>1, <1>2, WholeWords
<1> QED
  BY <1>2, <1>3 DEF d

\* There are finitely many pages.
LEMMA ClearIsFinite ==
    ASSUME TypeOK, NEW marks
    PROVE  IsFiniteSet(ClearPages(marks)) /\ Cardinality(ClearPages(marks)) \in Nat
<1>1. TotalPages(mmap) \in Nat
  BY TotalPagesType DEF TypeOK
<1>2. IsFiniteSet(0 .. TotalPages(mmap) - 1)
  BY <1>1, FS_Interval
<1>3. IsFiniteSet(ClearPages(marks))
  BY <1>2, FS_Difference DEF ClearPages
<1> QED
  BY <1>3, FS_CardinalityType

\* For every memory map and every sequence of calls: pmm_alloc_page,
\* pmm_free_page and pmm_free_blocks change the counter by as many pages as the
\* bitmap, whatever runs were marked before.
THEOREM CounterIsExact == Spec => CounterFollowsBitmap
<1> DEFINE Exact == \A c \in Clients :
                       AllocPage(c) \/ Free(c)
                         => Drift(marked', free_pages') = Drift(marked, free_pages)
<1>1. TypeOK /\ [Next]_vars => [Exact]_vars
  <2> SUFFICES ASSUME TypeOK, NEW c \in Clients, AllocPage(c) \/ Free(c)
               PROVE  Drift(marked', free_pages') = Drift(marked, free_pages)
    OBVIOUS
  <2> DEFINE n == Cardinality(ClearPages(marked))
  <2>0. n \in Nat /\ free_pages \in Nat /\ Word \in Nat \ {0} /\ mmap' = mmap
        /\ IsFiniteSet(ClearPages(marked))
    BY ClearIsFinite, PmmAssumption DEF TypeOK, AllocPage, Free
  <2>1. CASE AllocPage(c)
    <3>1. PICK p \in Candidates : marked' = marked \cup {p}
      BY <2>1 DEF AllocPage
    <3>2. p \in ClearPages(marked)
      <4>1. TotalPages(mmap) \in Nat /\ KernelPages \in Nat
        BY TotalPagesType, PmmAssumption DEF TypeOK
      <4> QED
        BY <4>1 DEF Candidates, TotalBytes, ClearPages
    <3>3. ClearPages(marked') = ClearPages(marked) \ {p}
      BY <2>0, <3>1 DEF ClearPages
    <3>4. Cardinality(ClearPages(marked')) = n - 1
      BY <2>0, <3>2, <3>3, FS_RemoveElement
    <3>5. free_pages' = (free_pages - 1) % Word
      BY <2>1 DEF AllocPage
    <3>6. Drift(marked', free_pages') = (((free_pages - 1) % Word) - (n - 1)) % Word
      BY <3>4, <3>5 DEF Drift
    <3>7. Drift(marked', free_pages') = ((free_pages - 1) - (n - 1)) % Word
      <4> HIDE DEF n
      <4>1. n - 1 \in Int /\ free_pages - 1 \in Int
        BY <2>0
      <4> QED
        BY <2>0, <3>6, <4>1, Adjusted
    <3>8. (free_pages - 1) - (n - 1) = free_pages - n
      BY <2>0
    <3> QED
      <4>1. Drift(marked, free_pages) = (free_pages - n) % Word
        BY DEF Drift
      <4> HIDE DEF n
      <4> QED
        BY <3>7, <3>8, <4>1
  <2>2. CASE Free(c)
    <3> DEFINE F == Freed(PagesOf(held[c]))
               m == Cardinality(F)
    <3>1. marked' = marked \ F /\ free_pages' = (free_pages + m) % Word
      BY <2>2 DEF Free
    <3>2. F \subseteq 0 .. TotalPages(mmap) - 1 /\ F \subseteq marked
      <4>1. TotalPages(mmap) \in Nat /\ KernelPages \in Nat /\ held[c] \in [start : Nat, count : Nat]
        BY TotalPagesType, PmmAssumption DEF TypeOK
      <4> QED
        BY <4>1 DEF Freed, PagesOf
    <3>3. ClearPages(marked') = ClearPages(marked) \cup F /\ ClearPages(marked) \cap F = {}
      BY <2>0, <3>1, <3>2 DEF ClearPages
    <3>4. IsFiniteSet(F) /\ m \in Nat
      <4>1. TotalPages(mmap) \in Int
        BY TotalPagesType DEF TypeOK
      <4>2. IsFiniteSet(0 .. TotalPages(mmap) - 1)
        BY <4>1, FS_Interval
      <4>3. IsFiniteSet(F)
        <5> HIDE DEF F
        <5> QED
          BY <3>2, <4>2, FS_Subset
      <4> QED
        BY <4>3, FS_CardinalityType
    <3>5. Cardinality(ClearPages(marked')) = n + m
      <4>1. Cardinality(ClearPages(marked) \cap F) = 0
        BY <3>3, FS_EmptySet
      <4>2. Cardinality(ClearPages(marked) \cup F) = n + m - Cardinality(ClearPages(marked) \cap F)
        BY <2>0, <3>4, FS_Union
      <4> QED
        BY <2>0, <3>3, <3>4, <4>1, <4>2
    <3> HIDE DEF m, n
    <3>6. Drift(marked', free_pages') = (((free_pages + m) % Word) - (n + m)) % Word
      BY <3>1, <3>5 DEF Drift
    <3>7. Drift(marked', free_pages') = ((free_pages + m) - (n + m)) % Word
      <4>1. n + m \in Int /\ free_pages + m \in Int
        BY <2>0, <3>4
      <4> QED
        BY <2>0, <3>6, <4>1, Adjusted
    <3>8. (free_pages + m) - (n + m) = free_pages - n
      BY <2>0, <3>4
    <3> QED
      <4>1. Drift(marked, free_pages) = (free_pages - n) % Word
        BY DEF Drift, n
      <4> QED
        BY <3>7, <3>8, <4>1
  <2> QED
    BY <2>1, <2>2
<1> QED
  BY <1>1, TypeCorrect, PTL DEF Spec, CounterFollowsBitmap

----------------------------------------------------------------------------
(* The heap.                                                               *)

\* A number below the modulus is its own remainder.
LEMMA ModSmall ==
    ASSUME NEW w \in Nat \ {0}, NEW a \in 0 .. w - 1
    PROVE  a % w = a
OBVIOUS

\* Without wrapping, kmalloc takes the header, the block and less than 8 bytes
\* more, and its test is the test of the real sum.
LEMMA TotalSizeFits ==
    ASSUME SizesFit, NEW n \in Sizes, NEW u \in 0 .. HeapSize
    PROVE  /\ TotalSize(n) \in n + 8 .. n + 15
           /\ TotalSize(n) % 8 = 0
           /\ (u + TotalSize(n)) % Word32 = u + TotalSize(n)
<1>1. n \in Nat /\ n > 0 /\ HeapSize + n + 15 < Word32 /\ HeapSize \in Nat /\ Word32 \in Nat \ {0}
  BY HeapAssumption DEF SizesFit, HeaderSize
<1>2. (n + 8) % Word32 = n + 8 /\ (n + 15) % Word32 = n + 15
  BY <1>1, ModSmall
<1>3. TotalSize(n) = n + 15 - ((n + 15) % 8)
  BY <1>1, <1>2 DEF TotalSize, HeaderSize
<1>4. TotalSize(n) \in n + 8 .. n + 15 /\ TotalSize(n) % 8 = 0
  BY <1>1, <1>3
<1>5. u + TotalSize(n) \in 0 .. Word32 - 1
  BY <1>1, <1>4
<1>6. QED
  BY <1>1, <1>4, <1>5, ModSmall

\* The inductive invariant: the properties together, and that heap_used stays a
\* multiple of 8 inside the heap.
HeapInv ==
    /\ HeapTypeOK
    /\ heap_used \in 0 .. HeapSize
    /\ heap_used % 8 = 0
    /\ BlocksApart
    /\ ContentsKept
    /\ HeadersKept

\* A block is a record of kmalloc's, inside the heap.
LEMMA BlockFacts ==
    ASSUME HeapInv, NEW b \in blocks
    PROVE  /\ b \in [ptr : Nat, size : Sizes, stamp : Values, freed : BOOLEAN]
           /\ b.ptr \in Nat /\ b.size \in Nat /\ b.size > 0
           /\ b.ptr >= 8 /\ b.ptr + b.size <= heap_used /\ heap_used <= HeapSize
           /\ b.ptr % 8 = 0
<1>1. b \in [ptr : Nat, size : Sizes, stamp : Values, freed : BOOLEAN]
  BY DEF HeapInv, HeapTypeOK
<1>2. b.ptr \in Nat /\ b.size \in Nat /\ b.size > 0
  <2>1. b.ptr \in Nat /\ b.size \in Sizes
    BY <1>1
  <2>2. b.size \in 1 .. Word32 - 1 /\ Word32 \in Nat
    BY <2>1, HeapAssumption
  <2>3. QED
    BY <2>1, <2>2
<1>3. b.ptr - 8 .. b.ptr + b.size - 1 \subseteq 0 .. heap_used - 1 /\ b.ptr % 8 = 0
  BY DEF HeapInv, BlocksApart, Extent, HeaderSize
<1>4. heap_used \in 0 .. HeapSize /\ HeapSize \in Nat
  BY HeapAssumption DEF HeapInv
<1>5. b.ptr - 8 \in 0 .. heap_used - 1 /\ b.ptr + b.size - 1 \in 0 .. heap_used - 1
  BY <1>2, <1>3
<1>6. QED
  BY <1>1, <1>2, <1>3, <1>4, <1>5

LEMMA HeapInvInit == HeapInit => HeapInv
<1> SUFFICES ASSUME HeapInit
             PROVE  HeapInv
  OBVIOUS
<1>1. HeapTypeOK
  BY HeapAssumption DEF HeapInit, HeapTypeOK, Values
<1>2. QED
  BY <1>1, HeapAssumption DEF HeapInit, HeapInv, BlocksApart, ContentsKept, HeadersKept

\* kmalloc: the new block starts where everything taken so far ends.
LEMMA KmallocKeeps ==
    ASSUME SizesFit, HeapInv, NEW n \in Sizes, Kmalloc(n)
    PROVE  HeapInv'
<1> DEFINE new == [ptr |-> heap_used + HeaderSize, size |-> n,
                   stamp |-> Unwritten, freed |-> FALSE]
<1>1. /\ heap_used \in 0 .. HeapSize /\ HeapSize \in Nat /\ n \in Nat /\ n > 0
      /\ heap_used % 8 = 0 /\ Word32 \in Nat /\ HeapSize < Word32
  BY HeapAssumption DEF HeapInv
<1>2. /\ TotalSize(n) \in n + 8 .. n + 15
      /\ TotalSize(n) % 8 = 0
      /\ (heap_used + TotalSize(n)) % Word32 = heap_used + TotalSize(n)
  BY <1>1, TotalSizeFits
<1>3. /\ heap_used' = heap_used + TotalSize(n)
      /\ heap_used' \in 0 .. HeapSize /\ heap_used' % 8 = 0
      /\ heap_used' >= heap_used + 8 + n
  <2>1. heap_used' = heap_used + TotalSize(n) /\ heap_used + TotalSize(n) <= HeapSize
    BY <1>2 DEF Kmalloc
  <2>2. (heap_used + TotalSize(n)) % 8 = 0
    BY <1>1, <1>2
  <2>3. QED
    BY <1>1, <1>2, <2>1, <2>2
<1>4. blocks' = blocks \cup {new}
  BY DEF Kmalloc
<1>5. \A i \in 0 .. HeapSize - 1 : i < heap_used \/ i >= heap_used + 8 => memory'[i] = memory[i]
  BY <1>1 DEF Kmalloc, HeaderSize, MagicAt
<1>6. /\ \A i \in heap_used .. heap_used + 3 : memory'[i] = SizeField(n)
      /\ \A i \in heap_used + 4 .. heap_used + 7 : memory'[i] = Magic
  <2>1. heap_used + 8 <= HeapSize
    BY <1>1, <1>3
  <2>2. QED
    BY <1>1, <2>1 DEF Kmalloc, HeaderSize, MagicAt
<1>7. HeapTypeOK'
  <2>1. memory' \in [0 .. HeapSize - 1 -> Values]
    BY DEF Kmalloc, HeapInv, HeapTypeOK, Values
  <2>2. heap_used' \in 0 .. Word32 - 1
    BY <1>1, <1>3
  <2>3. new \in [ptr : Nat, size : Sizes, stamp : Values, freed : BOOLEAN]
    BY <1>1 DEF Values, HeaderSize
  <2>4. QED
    BY <1>4, <2>1, <2>2, <2>3 DEF HeapInv, HeapTypeOK
<1>8. BlocksApart'
  <2>1. Extent(new) \subseteq heap_used .. heap_used' - 1 /\ new.ptr % 8 = 0
    BY <1>1, <1>3 DEF Extent, HeaderSize
  <2>2. \A b \in blocks : Extent(b) \subseteq 0 .. heap_used - 1 /\ b.ptr % 8 = 0
    BY DEF HeapInv, BlocksApart
  <2>3. \A b \in blocks' : Extent(b) \subseteq 0 .. heap_used' - 1 /\ b.ptr % 8 = 0
    <3>1. 0 .. heap_used - 1 \subseteq 0 .. heap_used' - 1
          /\ heap_used .. heap_used' - 1 \subseteq 0 .. heap_used' - 1
      BY <1>1, <1>3
    <3> HIDE DEF new
    <3>2. QED
      BY <1>4, <2>1, <2>2, <3>1
  <2>4. \A b \in blocks : Extent(b) \cap Extent(new) = {}
    <3>1. (0 .. heap_used - 1) \cap (heap_used .. heap_used' - 1) = {}
      BY <1>1, <1>3
    <3> HIDE DEF new
    <3>2. QED
      BY <2>1, <2>2, <3>1
  <2>5. \A b, d \in blocks : b # d => Extent(b) \cap Extent(d) = {}
    BY DEF HeapInv, BlocksApart
  <2>6. \A b, d \in blocks' : b # d => Extent(b) \cap Extent(d) = {}
    <3> HIDE DEF new
    <3>1. QED
      BY <1>4, <2>4, <2>5
  <2>7. QED
    BY <1>1, <1>3, <2>3, <2>6 DEF BlocksApart
<1>9. ContentsKept'
  <2>1. ASSUME NEW b \in blocks, NEW i \in Data(b), b.stamp # Unwritten
        PROVE  memory'[i] = b.stamp
    <3>1. /\ b.ptr \in Nat /\ b.size \in Nat /\ b.ptr >= 8
          /\ b.ptr + b.size <= heap_used /\ heap_used <= HeapSize
      BY BlockFacts
    <3>2. i \in b.ptr .. b.ptr + b.size - 1
      BY <2>1 DEF Data
    <3>3. i \in 0 .. HeapSize - 1 /\ i < heap_used
      BY <1>1, <3>1, <3>2
    <3>4. QED
      BY <1>5, <2>1, <3>3 DEF HeapInv, ContentsKept
  <2>2. new.stamp = Unwritten
    OBVIOUS
  <2>3. QED
    BY <1>4, <2>1, <2>2 DEF ContentsKept
<1>10. HeadersKept'
  <2>1. ASSUME NEW b \in blocks
        PROVE  /\ \A i \in b.ptr - 8 .. b.ptr - 5 : memory'[i] = SizeField(b.size)
               /\ \A i \in b.ptr - 4 .. b.ptr - 1 : memory'[i] = Magic
    <3>1. /\ b.ptr \in Nat /\ b.size \in Nat /\ b.size > 0
          /\ b.ptr >= 8 /\ b.ptr + b.size <= heap_used
      BY BlockFacts
    <3>2. \A i \in b.ptr - 8 .. b.ptr - 1 : memory'[i] = memory[i]
      BY <1>1, <1>5, <3>1
    <3>3. /\ \A i \in b.ptr - 8 .. b.ptr - 5 : memory[i] = SizeField(b.size)
          /\ \A i \in b.ptr - 4 .. b.ptr - 1 : memory[i] = Magic
      BY <3>1 DEF HeapInv, HeadersKept, HeaderSize, MagicAt
    <3>4. QED
      BY <3>1, <3>2, <3>3
  <2>2. /\ \A i \in new.ptr - 8 .. new.ptr - 5 : memory'[i] = SizeField(new.size)
        /\ \A i \in new.ptr - 4 .. new.ptr - 1 : memory'[i] = Magic
    BY <1>1, <1>6 DEF HeaderSize
  <2>3. \A b \in blocks' : b.ptr \in Nat
    BY <1>1, <1>4, BlockFacts DEF HeaderSize
  <2>4. QED
    BY <1>4, <2>1, <2>2, <2>3 DEF HeadersKept, HeaderSize, MagicAt
<1>11. QED
  BY <1>3, <1>7, <1>8, <1>9, <1>10 DEF HeapInv

\* A write to one block, or the zeroing of one, leaves the others alone: both
\* fill the bytes of b with one value and record it as b's stamp.
LEMMA FillKeeps ==
    ASSUME HeapInv, NEW b \in blocks, NEW v \in Values, NEW f \in BOOLEAN,
           memory' = [i \in 0 .. HeapSize - 1 |-> IF i \in Data(b) THEN v ELSE memory[i]],
           blocks' = (blocks \ {b}) \cup {[b EXCEPT !.stamp = v, !.freed = f]},
           UNCHANGED heap_used
    PROVE  HeapInv'
<1> DEFINE new == [b EXCEPT !.stamp = v, !.freed = f]
<1>1. /\ b \in [ptr : Nat, size : Sizes, stamp : Values, freed : BOOLEAN]
      /\ b.ptr \in Nat /\ b.size \in Nat /\ b.size > 0
      /\ b.ptr >= 8 /\ b.ptr + b.size <= heap_used /\ heap_used <= HeapSize
      /\ b.ptr % 8 = 0
  BY BlockFacts
<1>2. /\ new \in [ptr : Nat, size : Sizes, stamp : Values, freed : BOOLEAN]
      /\ new.ptr = b.ptr /\ new.size = b.size /\ new.stamp = v
  BY <1>1
<1>3. Extent(new) = Extent(b) /\ Data(new) = Data(b)
  BY <1>2 DEF Extent, Data
<1> HIDE DEF new
<1>4. blocks' = (blocks \ {b}) \cup {new}
  BY DEF new
<1>5. heap_used \in 0 .. HeapSize /\ HeapSize \in Nat
  BY HeapAssumption DEF HeapInv
<1>6. Data(b) \subseteq Extent(b) /\ Data(b) \subseteq 0 .. HeapSize - 1
  BY <1>1, <1>5 DEF Data, Extent, HeaderSize
<1>7. HeapTypeOK'
  BY <1>2, <1>4 DEF HeapInv, HeapTypeOK
<1>8. BlocksApart'
  <2>1. \A d \in blocks' : Extent(d) \subseteq 0 .. heap_used' - 1 /\ d.ptr % 8 = 0
    BY <1>1, <1>2, <1>3, <1>4 DEF HeapInv, BlocksApart
  <2>2. \A d, e \in blocks' : d # e => Extent(d) \cap Extent(e) = {}
    BY <1>3, <1>4 DEF HeapInv, BlocksApart
  <2>3. QED
    BY <1>1, <2>1, <2>2 DEF BlocksApart
<1>9. ContentsKept'
  <2>1. \A i \in Data(new) : memory'[i] = v
    BY <1>3, <1>6
  <2>2. ASSUME NEW d \in blocks, d # b, NEW i \in Data(d), d.stamp # Unwritten
        PROVE  memory'[i] = d.stamp
    <3>1. /\ d.ptr \in Nat /\ d.size \in Nat /\ d.size > 0 /\ d.ptr >= 8
          /\ d.ptr + d.size <= heap_used
      BY BlockFacts
    <3>2. i \in Extent(d) /\ i \in 0 .. HeapSize - 1
      BY <1>1, <1>5, <2>2, <3>1 DEF Data, Extent, HeaderSize
    <3>3. Extent(d) \cap Extent(b) = {}
      BY <2>2 DEF HeapInv, BlocksApart
    <3>4. i \notin Data(b)
      BY <1>6, <3>2, <3>3
    <3>5. QED
      BY <2>2, <3>2, <3>4 DEF HeapInv, ContentsKept
  <2>3. QED
    BY <1>2, <1>4, <2>1, <2>2 DEF ContentsKept
<1>10. HeadersKept'
  <2>1. ASSUME NEW d \in blocks, NEW i \in d.ptr - 8 .. d.ptr - 1
        PROVE  memory'[i] = memory[i]
    <3>1. /\ d.ptr \in Nat /\ d.size \in Nat /\ d.size > 0 /\ d.ptr >= 8
          /\ d.ptr + d.size <= heap_used
      BY BlockFacts
    <3>2. i \in Extent(d) /\ i \in 0 .. HeapSize - 1
      BY <1>1, <1>5, <3>1 DEF Extent, HeaderSize
    <3>3. CASE d = b
      BY <1>1, <3>2, <3>3 DEF Data
    <3>4. CASE d # b
      <4>1. Extent(d) \cap Extent(b) = {}
        BY <3>4 DEF HeapInv, BlocksApart
      <4>2. QED
        BY <1>6, <3>2, <4>1
    <3>5. QED
      BY <3>3, <3>4
  <2>2. ASSUME NEW d \in blocks
        PROVE  /\ \A i \in d.ptr - 8 .. d.ptr - 5 : memory'[i] = SizeField(d.size)
               /\ \A i \in d.ptr - 4 .. d.ptr - 1 : memory'[i] = Magic
    <3>1. d.ptr \in Nat
      BY BlockFacts
    <3>2. /\ \A i \in d.ptr - 8 .. d.ptr - 5 : memory[i] = SizeField(d.size)
          /\ \A i \in d.ptr - 4 .. d.ptr - 1 : memory[i] = Magic
      BY <3>1 DEF HeapInv, HeadersKept, HeaderSize, MagicAt
    <3>3. /\ d.ptr - 8 .. d.ptr - 5 \subseteq d.ptr - 8 .. d.ptr - 1
          /\ d.ptr - 4 .. d.ptr - 1 \subseteq d.ptr - 8 .. d.ptr - 1
      BY <3>1
    <3>4. \A i \in d.ptr - 8 .. d.ptr - 1 : memory'[i] = memory[i]
      BY <2>1
    <3>5. QED
      BY <3>2, <3>3, <3>4
  <2>3. ASSUME NEW d \in blocks'
        PROVE  /\ d.ptr \in Nat
               /\ \A i \in d.ptr - 8 .. d.ptr - 5 : memory'[i] = SizeField(d.size)
               /\ \A i \in d.ptr - 4 .. d.ptr - 1 : memory'[i] = Magic
    <3>1. CASE d = new
      <4>1. d.ptr = b.ptr /\ d.size = b.size
        BY <1>2, <3>1
      <4>2. /\ \A i \in b.ptr - 8 .. b.ptr - 5 : memory'[i] = SizeField(b.size)
            /\ \A i \in b.ptr - 4 .. b.ptr - 1 : memory'[i] = Magic
        BY <2>2
      <4>3. QED
        BY <1>1, <4>1, <4>2
    <3>2. CASE d \in blocks
      BY <2>2, <3>2, BlockFacts
    <3>3. QED
      BY <1>4, <3>1, <3>2
  <2>4. ASSUME NEW d \in blocks'
        PROVE  /\ d.ptr - 8 + 4 - 1 = d.ptr - 5
               /\ d.ptr - 8 + 4 = d.ptr - 4
    BY <2>3
  <2>5. QED
    BY <2>3, <2>4 DEF HeadersKept, HeaderSize, MagicAt
<1>11. QED
  BY <1>5, <1>7, <1>8, <1>9, <1>10 DEF HeapInv

LEMMA WriteKeeps ==
    ASSUME HeapInv, NEW b \in blocks, NEW v \in Stamps, Write(b, v)
    PROVE  HeapInv'
<1>1. b \in [ptr : Nat, size : Sizes, stamp : Values, freed : BOOLEAN] /\ v \in Values
  BY BlockFacts DEF Values
<1>2. [b EXCEPT !.stamp = v] = [b EXCEPT !.stamp = v, !.freed = b.freed]
  BY <1>1
<1>3. b.freed \in BOOLEAN
  BY <1>1
<1>4. QED
  BY <1>1, <1>2, <1>3, FillKeeps DEF Write

\* kfree zeroes exactly the block: the header still holds the block's size.
LEMMA KfreeKeeps ==
    ASSUME HeapInv, NEW b \in blocks, Kfree(b)
    PROVE  HeapInv'
<1>1. b.ptr \in Nat /\ b.size \in Nat /\ b.ptr >= 8
  BY BlockFacts
<1>2. PICK n \in Sizes :
          /\ memory[b.ptr - 8] = SizeField(n)
          /\ memory' = [i \in 0 .. HeapSize - 1 |->
                           IF i >= b.ptr /\ i < b.ptr + n THEN Zeroed ELSE memory[i]]
  BY DEF Kfree, HeaderSize
<1>3. memory[b.ptr - 8] = SizeField(b.size)
  BY <1>1 DEF HeapInv, HeadersKept, HeaderSize, MagicAt
<1>4. n = b.size
  BY <1>2, <1>3 DEF SizeField
<1>5. \A i \in 0 .. HeapSize - 1 : i \in Data(b) <=> i >= b.ptr /\ i < b.ptr + n
  BY <1>1, <1>4, HeapAssumption DEF Data
<1>6. memory' = [i \in 0 .. HeapSize - 1 |-> IF i \in Data(b) THEN Zeroed ELSE memory[i]]
  BY <1>2, <1>5
<1>7. QED
  BY <1>6, FillKeeps DEF Kfree, Values

LEMMA HeapInvHolds ==
    ASSUME SizesFit
    PROVE  HeapSpec => []HeapInv
<1>1. HeapInv /\ [HeapNext]_heapVars => HeapInv'
  <2> SUFFICES ASSUME HeapInv, [HeapNext]_heapVars
               PROVE  HeapInv'
    OBVIOUS
  <2>1. CASE UNCHANGED heapVars
    BY <2>1 DEF heapVars, HeapInv, HeapTypeOK, BlocksApart, ContentsKept, HeadersKept
  <2>2. QED
    BY <2>1, KmallocKeeps, WriteKeeps, KfreeKeeps DEF HeapNext
<1>2. QED
  BY <1>1, HeapInvInit, PTL DEF HeapSpec

\* On a heap of any size, kmalloc never hands out a byte twice or past the end
\* of the heap, if no sum of sizes wraps.
THEOREM BlocksStayApart ==
    ASSUME SizesFit
    PROVE  HeapSpec => []BlocksApart
<1>1. HeapInv => BlocksApart
  BY DEF HeapInv
<1>2. HeapSpec => []HeapInv
  BY HeapInvHolds
<1>3. QED
  BY <1>1, <1>2, PTL

\* A caller finds in its block what it wrote, whatever others allocate, write
\* and free, and however often they free it.
THEOREM ContentsAreKept ==
    ASSUME SizesFit
    PROVE  HeapSpec => []ContentsKept
<1>1. HeapInv => ContentsKept
  BY DEF HeapInv
<1>2. HeapSpec => []HeapInv
  BY HeapInvHolds
<1>3. QED
  BY <1>1, <1>2, PTL

\* kfree always finds the header kmalloc wrote.
THEOREM HeadersAreKept ==
    ASSUME SizesFit
    PROVE  HeapSpec => [](HeapTypeOK /\ HeadersKept)
<1>1. HeapInv => HeapTypeOK /\ HeadersKept
  BY DEF HeapInv
<1>2. HeapSpec => []HeapInv
  BY HeapInvHolds
<1>3. QED
  BY <1>1, <1>2, PTL

----------------------------------------------------------------------------
(* The page tables.                                                        *)

\* What TablesApart says, also where page 0 was followed: the model follows it
\* no further.
Apart ==
    \A f, g \in Frames : \A i, j \in Indices :
        level[f] > 0 /\ entry[f][i].present =>
          LET t == entry[f][i].frame
          IN  /\ t \in Frames \ free
              /\ level[t] = level[f] - 1
              /\ level[g] > 0 /\ entry[g][j].present /\ entry[g][j].frame = t
                   => f = g /\ i = j

TreeInv == PagingTypeOK /\ Apart /\ CallInTree

\* The call in progress has come to its table by walking from the root; it has
\* none where memory ran out, and nobody gives any back meanwhile.
CallOnItsWay ==
    /\ mapped = -1 => call = Idle /\ kernel_pml4 = NULL
    /\ call # Idle => call.page \in Pages /\ call.flags \in asked
    /\ kernel_pml4 # NULL /\ call # Idle =>
         IF call.table = NULL THEN free = {}
         ELSE LET e == PathIn(entry, kernel_pml4, call.page)[Levels - 1 - call.depth]
              IN  e.present /\ e.frame = call.table

\* Entries have the rights somebody asked for.
RightsAsked ==
    \A f \in Frames : \A i \in Indices : entry[f][i].present => entry[f][i].rights \in asked

\* What the processor remembers is what the tables say.
Remembered ==
    /\ cr3 \in {NULL, kernel_pml4}
    /\ cr3 = NULL => DOMAIN tlb = {}
    /\ \A p \in DOMAIN tlb :
         p \in DOMAIN Translation(cr3) /\ tlb[p] = Translation(cr3)[p]

MapInv == TreeInv /\ CallOnItsWay /\ RightsAsked /\ Remembered

----------------------------------------------------------------------------
(* Counting up.                                                            *)

\* A set of numbers has a least one.
LEMMA Least ==
    ASSUME NEW S, S \subseteq Nat, S # {}
    PROVE  \E m \in S : \A k \in S : m <= k
<1> DEFINE R == OpToRel(<, Nat)
<1>1. IsWellFoundedOn(R, Nat)
  BY NatLessThanWellFounded
<1>2. \A x, y \in Nat : x < y => <<x, y>> \in R
  BY DEF OpToRel
<1> HIDE DEF R
<1>3. PICK m \in S : \A y \in S : ~(<<y, m>> \in R)
  BY <1>1, WFMin
<1>4. ASSUME NEW y \in S PROVE m <= y
  <2>1. m \in Nat /\ y \in Nat
    OBVIOUS
  <2>2. ~(y < m)
    BY <1>2, <1>3, <2>1
  <2>3. QED
    BY <2>1, <2>2
<1>5. QED
  BY <1>4

\* What holds of 0, and of each number after one it holds of, holds up to n.
LEMMA UpTo ==
    ASSUME NEW S, NEW n \in Nat, 0 \in S, \A k \in 0 .. n - 1 : k \in S => k + 1 \in S
    PROVE  \A k \in 0 .. n : k \in S
<1> DEFINE T == {k \in 0 .. n : k \notin S}
<1>1. ASSUME T # {} PROVE FALSE
  <2>1. T \subseteq Nat
    OBVIOUS
  <2>2. PICK m \in T : \A k \in T : m <= k
    BY <1>1, <2>1, Least
  <2>3. m \in 1 .. n /\ m - 1 \in 0 .. n - 1 /\ (m - 1) + 1 = m
    BY <2>2
  <2>4. m - 1 \in S
    BY <2>2, <2>3
  <2>5. QED
    BY <2>2, <2>3, <2>4
<1>2. QED
  BY <1>1

----------------------------------------------------------------------------
(* Addresses and walks.                                                    *)

Spans(n, s) == s = [l \in 0 .. n |-> IF l = 0 THEN 1 ELSE Entries * s[l - 1]]

\* An entry of a table stands for as many pages as the table below it has in
\* all.
LEMMA SpanStep ==
    /\ Span[0] = 1
    /\ \A l \in 1 .. Levels : Span[l] = Entries * Span[l - 1]
    /\ \A l \in 0 .. Levels : Span[l] \in Nat \ {0}
<1> DEFINE S == {n \in 0 .. Levels : \E s : Spans(n, s)}
<1>0. Levels \in Nat \ {0} /\ Entries \in Nat \ {0}
  BY PagingAssumption
<1>1. 0 \in S
  <2>1. Spans(0, [l \in 0 .. 0 |-> 1])
    BY DEF Spans
  <2>2. QED
    BY <2>1, <1>0
<1>2. ASSUME NEW k \in 0 .. Levels - 1, k \in S PROVE k + 1 \in S
  <2>1. PICK s : Spans(k, s)
    BY <1>2
  <2> DEFINE t == [l \in 0 .. k + 1 |-> IF l <= k THEN s[l] ELSE Entries * s[k]]
  <2>2. ASSUME NEW l \in 0 .. k + 1
        PROVE  t[l] = IF l = 0 THEN 1 ELSE Entries * t[l - 1]
    BY <2>1 DEF Spans
  <2>3. Spans(k + 1, t)
    BY <2>2 DEF Spans
  <2>4. QED
    BY <2>3, <1>0
<1> HIDE DEF S
<1>3. Levels \in S
  BY <1>0, <1>1, <1>2, UpTo
<1>4. \E s : Spans(Levels, s)
  BY <1>3 DEF S
<1>5. Spans(Levels, Span)
  BY <1>4 DEF Span, Spans
<1>6. /\ Span[0] = 1
      /\ \A l \in 1 .. Levels : Span[l] = Entries * Span[l - 1]
  BY <1>5, <1>0 DEF Spans
<1> DEFINE P == {l \in 0 .. Levels : Span[l] \in Nat \ {0}}
<1>7. 0 \in P
  BY <1>6, <1>0
<1>8. ASSUME NEW k \in 0 .. Levels - 1, k \in P PROVE k + 1 \in P
  <2>1. Span[k + 1] = Entries * Span[k]
    BY <1>6, <1>0
  <2>2. \A a, b \in Nat \ {0} : a * b \in Nat \ {0}
    BY SMT
  <2>3. QED
    BY <1>0, <1>8, <2>1, <2>2
<1> HIDE DEF P
<1>9. \A l \in 0 .. Levels : l \in P
  BY <1>0, <1>7, <1>8, UpTo
<1>10. QED
  BY <1>6, <1>9 DEF P

\* Pages and frames are counted from 0, and NULL is no frame.
LEMMA Constants ==
    /\ Levels \in Nat \ {0} /\ Entries \in Nat \ {0}
    /\ Frames \subseteq Nat /\ NULL \notin Frames /\ NULL = 0 /\ NoTable = -1
    /\ Targets \subseteq Nat /\ CallPages \subseteq Nat /\ CallPages \subseteq Pages
    /\ Identity \in Nat /\ FbPage \in Nat /\ FbPages \in Nat
    /\ {"writable"} \subseteq AllRights /\ {"writable"} \in FlagSets
    /\ \A flags \in FlagSets : flags \subseteq AllRights
    /\ 0 \in Indices
<1>1. Frames \subseteq Nat /\ NULL \notin Frames
  BY PagingAssumption
<1>2. Span[Levels] \in Nat
  BY SpanStep, PagingAssumption
<1>3. CallPages \subseteq Nat
  BY PagingAssumption, <1>2 DEF Pages
<1>4. {"writable"} \subseteq AllRights /\ \A flags \in FlagSets : flags \subseteq AllRights
  BY DEF AllRights
<1>5. NULL = 0 /\ NoTable = -1 /\ 0 \in Indices
  BY PagingAssumption DEF NULL, NoTable, Indices
<1>6. QED
  BY PagingAssumption, <1>1, <1>3, <1>4, <1>5

\* A shift and a mask give an index of a table.
LEMMA IndexType ==
    ASSUME NEW p \in Nat, NEW l \in 0 .. Levels
    PROVE  Index(p, l) \in Indices
<1>1. Span[l] \in Nat \ {0} /\ Entries \in Nat \ {0}
  BY SpanStep, PagingAssumption
<1>2. p \div Span[l] \in Int
  <2>1. \A n \in Nat, d \in Nat \ {0} : n \div d \in Int
    BY SMT
  <2>2. QED
    BY <1>1, <2>1
<1>3. \A n \in Int, e \in Nat \ {0} : n % e \in 0 .. e - 1
  BY SMT
<1>4. QED
  BY <1>1, <1>2, <1>3 DEF Index, Indices

\* To divide twice is to divide by the product.
LEMMA DivOfDiv ==
    ASSUME NEW n \in Nat, NEW a \in Nat \ {0}, NEW b \in Nat \ {0}
    PROVE  (n \div a) \div b = n \div (b * a)
<1> DEFINE x == n \div a
           y == x \div b
<1>1. x \in Nat /\ n = a * x + (n % a) /\ n % a \in 0 .. a - 1
  BY SMT
<1>2. y \in Nat /\ x = b * y + (x % b) /\ x % b \in 0 .. b - 1
  BY <1>1, SMT
<1> DEFINE r == n % a
           s == x % b
<1> HIDE DEF x, y, r, s
<1>3. r \in 0 .. a - 1 /\ s \in 0 .. b - 1 /\ n = a * (b * y + s) + r
  BY <1>1, <1>2 DEF r, s
<1>4. a * s + r \in 0 .. b * a - 1
  <2>1. a * s \in Nat /\ a * s <= a * (b - 1) /\ a * (b - 1) = a * b - a
    BY <1>3, SMT
  <2>2. QED
    BY <1>3, <2>1
<1>5. n = (b * a) * y + (a * s + r)
  BY <1>2, <1>3, SMT
<1>6. b * a \in Nat \ {0}
  BY SMT
<1>7. \A d \in Nat \ {0} : \A z \in 0 .. d - 1 : (d * y + z) \div d = y
  BY <1>2, SMT
<1>8. ((b * a) * y + (a * s + r)) \div (b * a) = y
  BY <1>4, <1>6, <1>7
<1>9. n \div (b * a) = y
  BY <1>5, <1>8
<1>10. QED
  BY <1>9 DEF x, y

\* A page is told by its indices.
LEMMA SameIndices ==
    ASSUME NEW p \in Pages, NEW q \in Pages,
           \A l \in 0 .. Levels - 1 : Index(p, l) = Index(q, l)
    PROVE  p = q
<1>0. /\ Levels \in Nat \ {0} /\ Entries \in Nat \ {0} /\ Span[Levels] \in Nat \ {0}
      /\ p \in Nat /\ q \in Nat /\ p < Span[Levels] /\ q < Span[Levels]
  BY SpanStep, PagingAssumption DEF Pages
<1> DEFINE S == {j \in 0 .. Levels : p \div Span[Levels - j] = q \div Span[Levels - j]}
<1>1. 0 \in S
  <2>1. \A n \in Nat, d \in Nat \ {0} : n < d => n \div d = 0
    BY SMT
  <2>2. p \div Span[Levels] = 0 /\ q \div Span[Levels] = 0
    BY <1>0, <2>1
  <2>3. QED
    BY <1>0, <2>2
<1>2. ASSUME NEW k \in 0 .. Levels - 1, k \in S PROVE k + 1 \in S
  <2> DEFINE l == Levels - (k + 1)
             a == Span[l]
  <2>1. /\ l \in 0 .. Levels - 1 /\ l + 1 \in 1 .. Levels /\ l + 1 = Levels - k
      /\ l \in 0 .. Levels /\ (l + 1) - 1 = l
    BY <1>0
  <2>2. a \in Nat \ {0} /\ Span[Levels - k] = Entries * a
    BY <2>1, SpanStep
  <2>3. p \div (Entries * a) = q \div (Entries * a)
    BY <1>2, <2>2
  <2>4. (p \div a) % Entries = (q \div a) % Entries
    BY <2>1 DEF Index
  <2> HIDE DEF a, l
  <2>5. \A n \in Nat : (n \div a) \div Entries = n \div (Entries * a)
    BY <1>0, <2>2, DivOfDiv
  <2>6. (p \div a) \div Entries = (q \div a) \div Entries
    BY <1>0, <2>3, <2>5
  <2>7. p \div a \in Nat /\ q \div a \in Nat
    <3>1. \A n \in Nat, d \in Nat \ {0} : n \div d \in Nat
      BY SMT
    <3>2. QED
      BY <1>0, <2>2, <3>1
  <2>8. \A m \in Nat, n \in Nat, d \in Nat \ {0} :
          m \div d = n \div d /\ m % d = n % d => m = n
    BY SMT
  <2>9. p \div a = q \div a
    BY <1>0, <2>4, <2>6, <2>7, <2>8
  <2>10. QED
    BY <1>0, <1>2, <2>9 DEF a, l
<1> HIDE DEF S
<1>3. Levels \in S
  BY <1>0, <1>1, <1>2, UpTo
<1>4. p \div Span[0] = q \div Span[0]
  BY <1>0, <1>3 DEF S
<1>5. \A n \in Nat : n \div 1 = n
  BY SMT
<1>6. QED
  BY <1>0, <1>4, <1>5, SpanStep

\* What a walk reads next when it has read x, at the level of an index.
Read(e, p, l, x) ==
    IF ~x.present THEN Absent
    ELSE [e[x.frame][Index(p, l)] EXCEPT !.rights = @ \cap x.rights]

\* The same when x was read k levels below the root.
Below(e, p, k, x) == Read(e, p, Levels - 1 - k, x)

Paths(e, r, p, n, d) ==
    d = [k \in 0 .. n |-> IF k = 0 THEN Entry(r, AllRights) ELSE Read(e, p, Levels - k, d[k - 1])]

\* A walk begins at the root and goes down by the page's indices.
LEMMA WalkSteps ==
    ASSUME NEW e, NEW r, NEW p
    PROVE  /\ PathIn(e, r, p)[0] = Entry(r, AllRights)
           /\ \A k \in 0 .. Levels - 1 : PathIn(e, r, p)[k + 1] = Below(e, p, k, PathIn(e, r, p)[k])
<1> DEFINE S == {n \in 0 .. Levels : \E d : Paths(e, r, p, n, d)}
<1>0. Levels \in Nat \ {0}
  BY PagingAssumption
<1>1. 0 \in S
  <2>1. Paths(e, r, p, 0, [k \in 0 .. 0 |-> Entry(r, AllRights)])
    BY DEF Paths
  <2>2. QED
    BY <2>1, <1>0
<1>2. ASSUME NEW n \in 0 .. Levels - 1, n \in S PROVE n + 1 \in S
  <2>1. PICK d : Paths(e, r, p, n, d)
    BY <1>2
  <2> DEFINE t == [k \in 0 .. n + 1 |-> IF k <= n THEN d[k] ELSE Read(e, p, Levels - (n + 1), d[n])]
  <2>2. ASSUME NEW k \in 0 .. n + 1
        PROVE  t[k] = IF k = 0 THEN Entry(r, AllRights) ELSE Read(e, p, Levels - k, t[k - 1])
    <3>1. CASE k <= n
      BY <2>1, <3>1 DEF Paths
    <3>2. CASE k = n + 1
      <4>1. t[k - 1] = d[n] /\ t[k] = Read(e, p, Levels - k, d[n])
        BY <3>2
      <4>2. QED
        BY <3>2, <4>1
    <3>3. QED
      BY <3>1, <3>2
  <2>3. Paths(e, r, p, n + 1, t)
    BY <2>2 DEF Paths
  <2>4. QED
    BY <2>3, <1>0
<1> HIDE DEF S
<1>3. Levels \in S
  BY <1>0, <1>1, <1>2, UpTo
<1>4. \E d : Paths(e, r, p, Levels, d)
  BY <1>3 DEF S
<1>5. Paths(e, r, p, Levels, PathIn(e, r, p))
  BY <1>4 DEF PathIn, Paths, Read
<1>6. \A k \in 0 .. Levels - 1 : k + 1 \in 0 .. Levels /\ k + 1 # 0 /\ (k + 1) - 1 = k
                                     /\ Levels - (k + 1) = Levels - 1 - k
  BY <1>0
<1>7. QED
  BY <1>0, <1>5, <1>6 DEF Paths, Below

\* The tables below a root, as a walk sees them: a table of a level has tables
\* of the level below, and no two entries lead to the same one.
Tree(e, lv, r) ==
    /\ e \in [Frames -> [Indices -> EntryType]]
    /\ lv \in [Frames -> NoTable .. Levels - 1]
    /\ r \in Frames /\ lv[r] = Levels - 1
    /\ \A f, g \in Frames : \A i, j \in Indices :
        lv[f] > 0 /\ e[f][i].present =>
          /\ e[f][i].frame \in Frames
          /\ lv[e[f][i].frame] = lv[f] - 1
          /\ lv[g] > 0 /\ e[g][j].present /\ e[g][j].frame = e[f][i].frame
               => f = g /\ i = j

LEMMA EntryTypes ==
    /\ Absent \in EntryType /\ ~Absent.present
    /\ \A f \in Nat, rights \in SUBSET AllRights :
         /\ Entry(f, rights) \in EntryType /\ Entry(f, rights).present
         /\ Entry(f, rights).frame = f /\ Entry(f, rights).rights = rights
BY DEF Absent, Entry, EntryType, NULL

\* What is read next is what the table has there, with the rights of both.
LEMMA BelowIs ==
    ASSUME NEW e, NEW p, NEW k, NEW x
    PROVE  /\ ~x.present => Below(e, p, k, x) = Absent
           /\ x.present /\ e[x.frame][Index(p, Levels - 1 - k)] \in EntryType =>
                LET y == e[x.frame][Index(p, Levels - 1 - k)]
                    z == Below(e, p, k, x)
                IN  /\ z \in EntryType
                    /\ z.present = y.present /\ z.frame = y.frame
                    /\ z.rights = y.rights \cap x.rights
BY DEF Below, Read, EntryType

\* Every entry a walk reads above the last level leads to a table, of the level
\* the walk has come to.
LEMMA WalkTables ==
    ASSUME NEW e, NEW lv, NEW r, NEW p \in Nat, Tree(e, lv, r)
    PROVE  \A k \in 0 .. Levels :
             /\ PathIn(e, r, p)[k] \in EntryType
             /\ k < Levels /\ PathIn(e, r, p)[k].present =>
                  /\ PathIn(e, r, p)[k].frame \in Frames
                  /\ lv[PathIn(e, r, p)[k].frame] = Levels - 1 - k
<1> DEFINE d == PathIn(e, r, p)
           Good(k) == /\ d[k] \in EntryType
                      /\ k < Levels /\ d[k].present =>
                           d[k].frame \in Frames /\ lv[d[k].frame] = Levels - 1 - k
           S == {k \in 0 .. Levels : Good(k)}
<1>0. Levels \in Nat \ {0} /\ Frames \subseteq Nat
  BY PagingAssumption
<1>1. d[0] = Entry(r, AllRights)
  BY WalkSteps
<1>2. \A k \in 0 .. Levels - 1 : d[k + 1] = Below(e, p, k, d[k])
  BY WalkSteps
<1> HIDE DEF d
<1>3. 0 \in S
  <2>1. r \in Frames /\ r \in Nat /\ lv[r] = Levels - 1 - 0
    BY <1>0 DEF Tree
  <2>2. d[0] \in EntryType /\ d[0].frame = r
    BY <1>1, <2>1, EntryTypes
  <2>3. QED
    BY <1>0, <2>1, <2>2
<1>4. ASSUME NEW k \in 0 .. Levels - 1, k \in S PROVE k + 1 \in S
  <2> DEFINE f == d[k].frame
             i == Index(p, Levels - 1 - k)
  <2>1. k + 1 \in 0 .. Levels /\ Levels - 1 - k \in 0 .. Levels
    BY <1>0
  <2>2. i \in Indices
    BY <2>1, IndexType
  <2>3. CASE ~d[k].present
    <3>1. d[k + 1] \in EntryType /\ ~d[k + 1].present
      BY <1>2, <2>3, BelowIs, EntryTypes
    <3>2. QED
      BY <2>1, <3>1
  <2>4. CASE d[k].present
    <3>2. f \in Frames /\ lv[f] = Levels - 1 - k
      BY <1>0, <1>4, <2>4
    <3>3. e[f][i] \in EntryType
      BY <3>2, <2>2 DEF Tree
    <3>4. /\ d[k + 1] \in EntryType /\ d[k + 1].present = e[f][i].present
          /\ d[k + 1].frame = e[f][i].frame
      BY <1>2, <2>4, <3>3, BelowIs
    <3>5. ASSUME k + 1 < Levels, d[k + 1].present
          PROVE  d[k + 1].frame \in Frames /\ lv[d[k + 1].frame] = Levels - 1 - (k + 1)
      <4>1. lv[f] > 0 /\ e[f][i].present
        BY <1>0, <3>2, <3>4, <3>5
      <4> HIDE DEF f, i
      <4>2. e[f][i].frame \in Frames /\ lv[e[f][i].frame] = lv[f] - 1
        BY <2>2, <3>2, <4>1 DEF Tree
      <4>3. QED
        BY <1>0, <3>2, <3>4, <4>2
    <3>6. QED
      BY <2>1, <3>4, <3>5
  <2>5. QED
    BY <2>3, <2>4
<1> HIDE DEF S
<1>5. \A k \in 0 .. Levels : k \in S
  BY <1>0, <1>3, <1>4, UpTo
<1>6. QED
  BY <1>5 DEF S, d

\* Where a walk finds nothing it stays.
LEMMA NothingBelow ==
    ASSUME NEW e, NEW r, NEW p, NEW k \in 0 .. Levels, ~PathIn(e, r, p)[k].present
    PROVE  ~PathIn(e, r, p)[Levels].present
<1> DEFINE d == PathIn(e, r, p)
           S == {j \in 0 .. Levels - k : ~d[k + j].present}
<1>0. Levels \in Nat
  BY PagingAssumption
<1>1. ASSUME NEW m \in 0 .. Levels - 1, ~d[m].present PROVE ~d[m + 1].present
  BY <1>1, WalkSteps, BelowIs, EntryTypes
<1>2. ~d[k].present
  OBVIOUS
<1> HIDE DEF d
<1>3. 0 \in S
  BY <1>0, <1>2
<1>4. ASSUME NEW j \in 0 .. (Levels - k) - 1, j \in S PROVE j + 1 \in S
  <2>1. k + j \in 0 .. Levels - 1 /\ k + (j + 1) = (k + j) + 1 /\ j + 1 \in 0 .. Levels - k
    BY <1>0
  <2>2. QED
    BY <1>1, <1>4, <2>1
<1> HIDE DEF S
<1>5. Levels - k \in S
  BY <1>0, <1>3, <1>4, UpTo
<1>6. k + (Levels - k) = Levels
  BY <1>0
<1>7. QED
  BY <1>5, <1>6 DEF S, d

\* Walks that come to the same table have come the same way.
LEMMA SameWay ==
    ASSUME NEW e, NEW lv, NEW r, NEW p \in Nat, NEW q \in Nat, Tree(e, lv, r)
    PROVE  \A k \in 0 .. Levels - 1 :
             /\ PathIn(e, r, p)[k].present /\ PathIn(e, r, q)[k].present
             /\ PathIn(e, r, p)[k].frame = PathIn(e, r, q)[k].frame
             => \A l \in Levels - k .. Levels - 1 : Index(p, l) = Index(q, l)
<1> DEFINE c == PathIn(e, r, p)
           d == PathIn(e, r, q)
           Same(k) == c[k].present /\ d[k].present /\ c[k].frame = d[k].frame
                      => \A l \in Levels - k .. Levels - 1 : Index(p, l) = Index(q, l)
           S == {k \in 0 .. Levels - 1 : Same(k)}
<1>0. Levels \in Nat \ {0}
  BY PagingAssumption
<1>a. \A k \in 0 .. Levels - 1 :
        c[k + 1] = Below(e, p, k, c[k]) /\ d[k + 1] = Below(e, q, k, d[k])
  BY WalkSteps
<1>c. ASSUME NEW k \in 0 .. Levels - 1
      PROVE  /\ c[k].present => c[k].frame \in Frames /\ lv[c[k].frame] = Levels - 1 - k
             /\ d[k].present => d[k].frame \in Frames /\ lv[d[k].frame] = Levels - 1 - k
  <2>1. k \in 0 .. Levels /\ k < Levels
    BY <1>0
  <2>2. QED
    BY <2>1, WalkTables
<1> HIDE DEF c, d
<1>2. 0 \in S
  BY <1>0
<1>d. ASSUME NEW k \in 0 .. Levels - 1, c[k].present,
             e[c[k].frame][Index(p, Levels - 1 - k)] \in EntryType
      PROVE  LET y == e[c[k].frame][Index(p, Levels - 1 - k)]
             IN  c[k + 1].present = y.present /\ c[k + 1].frame = y.frame
  BY <1>a, <1>d, BelowIs
<1>e. ASSUME NEW k \in 0 .. Levels - 1, d[k].present,
             e[d[k].frame][Index(q, Levels - 1 - k)] \in EntryType
      PROVE  LET y == e[d[k].frame][Index(q, Levels - 1 - k)]
             IN  d[k + 1].present = y.present /\ d[k + 1].frame = y.frame
  BY <1>a, <1>e, BelowIs
<1>3. ASSUME NEW k \in 0 .. (Levels - 1) - 1, k \in S PROVE k + 1 \in S
  <2> DEFINE i == Index(p, Levels - 1 - k)
             j == Index(q, Levels - 1 - k)
             f == c[k].frame
             g == d[k].frame
  <2>1. /\ k + 1 \in 0 .. Levels - 1 /\ k \in 0 .. Levels - 1 /\ Levels - 1 - k \in 1 .. Levels
        /\ Levels - 1 - k > 0
    BY <1>0
  <2> SUFFICES ASSUME c[k + 1].present, d[k + 1].present, c[k + 1].frame = d[k + 1].frame
               PROVE  \A l \in Levels - (k + 1) .. Levels - 1 : Index(p, l) = Index(q, l)
    BY <2>1
  <2>2. c[k].present /\ d[k].present
    BY <1>a, <2>1, BelowIs, EntryTypes
  <2>3. f \in Frames /\ g \in Frames /\ lv[f] > 0 /\ lv[g] > 0
    BY <1>0, <1>c, <2>1, <2>2
  <2>4. i \in Indices /\ j \in Indices
    BY <2>1, IndexType
  <2>5. e[f][i] \in EntryType /\ e[g][j] \in EntryType
    BY <2>3, <2>4 DEF Tree
  <2>6. /\ c[k + 1].present = e[f][i].present /\ c[k + 1].frame = e[f][i].frame
        /\ d[k + 1].present = e[g][j].present /\ d[k + 1].frame = e[g][j].frame
    BY <1>d, <1>e, <2>1, <2>2, <2>5
  <2>7. e[f][i].present /\ e[g][j].present /\ e[f][i].frame = e[g][j].frame
    BY <2>6
  <2> HIDE DEF f, g, i, j
  <2>8. f = g /\ i = j
    BY <2>3, <2>4, <2>7 DEF Tree
  <2>9. \A l \in Levels - k .. Levels - 1 : Index(p, l) = Index(q, l)
    BY <1>3, <2>2, <2>8 DEF f, g
  <2>10. \A l \in Levels - (k + 1) .. Levels - 1 : l = Levels - 1 - k \/ l \in Levels - k .. Levels - 1
    BY <1>0
  <2>11. QED
    BY <2>8, <2>9, <2>10 DEF i, j
<1> HIDE DEF S
<1>4. \A k \in 0 .. Levels - 1 : k \in S
  BY <1>0, <1>2, <1>3, UpTo
<1>5. QED
  BY <1>4 DEF S, c, d

\* A walk depends on the entries it reads.
LEMMA SameWalk ==
    ASSUME NEW e, NEW h, NEW r, NEW p, NEW n \in 0 .. Levels,
           \A k \in 0 .. n - 1 :
             PathIn(e, r, p)[k].present =>
               LET f == PathIn(e, r, p)[k].frame
                   i == Index(p, Levels - 1 - k)
               IN  h[f][i] = e[f][i]
    PROVE  \A k \in 0 .. n : PathIn(h, r, p)[k] = PathIn(e, r, p)[k]
<1> DEFINE c == PathIn(h, r, p)
           d == PathIn(e, r, p)
           S == {k \in 0 .. n : c[k] = d[k]}
<1>0. Levels \in Nat /\ n \in Nat /\ n <= Levels
  BY PagingAssumption
<1>1. c[0] = d[0]
  BY WalkSteps
<1>a. \A k \in 0 .. Levels - 1 :
        c[k + 1] = Below(h, p, k, c[k]) /\ d[k + 1] = Below(e, p, k, d[k])
  BY WalkSteps
<1>c. ASSUME NEW k \in 0 .. n - 1, d[k].present
      PROVE  h[d[k].frame][Index(p, Levels - 1 - k)] = e[d[k].frame][Index(p, Levels - 1 - k)]
  BY <1>c
<1> HIDE DEF c, d
<1>2. ASSUME NEW k \in 0 .. n - 1, c[k] = d[k] PROVE c[k + 1] = d[k + 1]
  <2>1. k \in 0 .. Levels - 1
    BY <1>0
  <2>2. Below(h, p, k, d[k]) = Below(e, p, k, d[k])
    BY <1>c DEF Below, Read
  <2>3. QED
    BY <1>2, <2>1, <2>2, <1>a
<1>3. 0 \in S
  BY <1>0, <1>1
<1>4. ASSUME NEW k \in 0 .. n - 1, k \in S PROVE k + 1 \in S
  BY <1>0, <1>2, <1>4
<1> HIDE DEF S
<1>5. \A k \in 0 .. n : k \in S
  BY <1>0, <1>3, <1>4, UpTo
<1>6. QED
  BY <1>5 DEF S, c, d

\* Rights that every entry has, a page has.
LEMMA WalkRights ==
    ASSUME NEW e, NEW lv, NEW r, NEW p \in Nat, Tree(e, lv, r), NEW x \in SUBSET AllRights,
           \A f \in Frames : \A i \in Indices : e[f][i].present => x \subseteq e[f][i].rights
    PROVE  \A k \in 0 .. Levels :
             PathIn(e, r, p)[k].present => x \subseteq PathIn(e, r, p)[k].rights
<1> DEFINE d == PathIn(e, r, p)
           S == {k \in 0 .. Levels : d[k].present => x \subseteq d[k].rights}
<1>0. Levels \in Nat \ {0} /\ r \in Nat
  BY PagingAssumption DEF Tree
<1>1. d[0].rights = AllRights
  BY <1>0, WalkSteps, EntryTypes
<1>2. ASSUME NEW k \in 0 .. Levels - 1, k \in S PROVE k + 1 \in S
  <2> DEFINE f == d[k].frame
             i == Index(p, Levels - 1 - k)
  <2>1. k + 1 \in 0 .. Levels /\ Levels - 1 - k \in 0 .. Levels
    BY <1>0
  <2>2. CASE ~d[k].present
    BY <2>1, <2>2, WalkSteps, BelowIs, EntryTypes
  <2>3. CASE d[k].present
    <3>1. f \in Frames /\ i \in Indices
      BY <1>0, <2>1, <2>3, WalkTables, IndexType
    <3>2. e[f][i] \in EntryType
      BY <3>1 DEF Tree
    <3>3. d[k + 1] = Below(e, p, k, d[k])
      BY WalkSteps
    <3>4. d[k + 1].present = e[f][i].present /\ d[k + 1].rights = e[f][i].rights \cap d[k].rights
      BY <2>3, <3>2, <3>3, BelowIs
    <3> HIDE DEF d, f, i
    <3>5. x \subseteq d[k].rights
      BY <1>2, <2>3
    <3>6. d[k + 1].present => x \subseteq e[f][i].rights
      BY <3>1, <3>4
    <3>7. QED
      BY <2>1, <3>4, <3>5, <3>6
  <2>4. QED
    BY <2>2, <2>3
<1>3. 0 \in S
  BY <1>0, <1>1
<1> HIDE DEF S
<1>4. \A k \in 0 .. Levels : k \in S
  BY <1>0, <1>2, <1>3, UpTo
<1>5. QED
  BY <1>4 DEF S

\* The map that tables below a root stand for.
MapOf(e, r) ==
    [p \in {q \in Pages : PathIn(e, r, q)[Levels].present} |->
        [frame  |-> PathIn(e, r, p)[Levels].frame,
         rights |-> PathIn(e, r, p)[Levels].rights]]

LEMMA TranslationIs ==
    /\ Translation(kernel_pml4) = MapOf(entry, kernel_pml4)
    /\ Translation(kernel_pml4)' = MapOf(entry', kernel_pml4')
    /\ Translation(cr3) = MapOf(entry, cr3)
    /\ Translation(cr3)' = MapOf(entry', cr3')
<1>1. Translation(kernel_pml4) = MapOf(entry, kernel_pml4)
  BY DEF Translation, Walk, MapOf
<1>2. Translation(kernel_pml4)' = MapOf(entry', kernel_pml4')
  BY DEF Translation, Walk, MapOf
<1>3. Translation(cr3) = MapOf(entry, cr3)
  BY DEF Translation, Walk, MapOf
<1>4. Translation(cr3)' = MapOf(entry', cr3')
  BY DEF Translation, Walk, MapOf
<1>5. QED
  BY <1>1, <1>2, <1>3, <1>4

\* Where walks end the same the map is the same.
LEMMA SameMap ==
    ASSUME NEW e, NEW h, NEW r,
           \A p \in Pages :
             \/ PathIn(h, r, p)[Levels] = PathIn(e, r, p)[Levels]
             \/ ~PathIn(h, r, p)[Levels].present /\ ~PathIn(e, r, p)[Levels].present
    PROVE  MapOf(h, r) = MapOf(e, r)
BY DEF MapOf

\* The entry the call in progress is at, and where it leads.
LEMMA HereType ==
    ASSUME TreeInv, call.table # NULL
    PROVE  /\ call.table \in Frames /\ call.depth \in 0 .. Levels - 1
           /\ level[call.table] = call.depth
           /\ Index(call.page, call.depth) \in Indices
           /\ Here \in EntryType
<1>1. call.table \in Frames /\ call.depth \in 0 .. Levels - 1 /\ call.page \in Nat
  BY Constants DEF TreeInv, PagingTypeOK, CallInTree
<1>2. Index(call.page, call.depth) \in Indices
  BY <1>1, IndexType, Constants
<1>3. QED
  BY <1>1, <1>2 DEF TreeInv, PagingTypeOK, CallInTree, Here

----------------------------------------------------------------------------
(* The steps.                                                              *)

LEMMA InitInv == PagingInit => TreeInv
<1> SUFFICES ASSUME PagingInit PROVE TreeInv
  OBVIOUS
<1>1. PagingTypeOK
  BY Constants DEF PagingInit, PagingTypeOK, EmptyTable, Absent, EntryType, Idle
<1>2. Apart
  BY Constants DEF PagingInit, Apart
<1>3. CallInTree
  BY Constants DEF PagingInit, CallInTree, Idle
<1>4. QED
  BY <1>1, <1>2, <1>3 DEF TreeInv

\* A step that leaves the tables alone and only makes pages free, or takes
\* some, that are no tables.
LEMMA TablesAlone ==
    ASSUME TreeInv, UNCHANGED <<entry, level>>,
           \A f \in Frames : level[f] # NoTable => f \notin free'
    PROVE  Apart'
<1> SUFFICES ASSUME NEW f \in Frames, NEW g \in Frames, NEW i \in Indices, NEW j \in Indices,
                    level[f] > 0, entry[f][i].present
             PROVE  /\ entry[f][i].frame \in Frames \ free'
                    /\ level[entry[f][i].frame] = level[f] - 1
                    /\ level[g] > 0 /\ entry[g][j].present
                         /\ entry[g][j].frame = entry[f][i].frame => f = g /\ i = j
  BY DEF Apart
<1>1. /\ entry[f][i].frame \in Frames
      /\ level[entry[f][i].frame] = level[f] - 1
      /\ level[g] > 0 /\ entry[g][j].present
           /\ entry[g][j].frame = entry[f][i].frame => f = g /\ i = j
  BY DEF TreeInv, Apart
<1>2. level[f] \in NoTable .. Levels - 1
  BY DEF TreeInv, PagingTypeOK
<1>3. level[entry[f][i].frame] # NoTable
  BY <1>1, <1>2, Constants
<1>4. QED
  BY <1>1, <1>3

\* A call begins at the root.
LEMMA BeginKeeps ==
    ASSUME TreeInv, NEW p \in Nat, NEW frame \in Nat, NEW flags \in SUBSET AllRights,
           Begin(p, frame, flags), UNCHANGED <<tree, kernel_pml4>>
    PROVE  /\ call' \in [page : Nat, frame : Nat, flags : SUBSET AllRights,
                         depth : NoTable .. Levels - 1, table : Frames \cup {NULL}]
           /\ Apart' /\ CallInTree'
<1>1. /\ call' = [page |-> p, frame |-> frame, flags |-> flags,
                  depth |-> Levels - 1, table |-> kernel_pml4]
      /\ kernel_pml4 \in Frames \cup {NULL} /\ Levels - 1 \in NoTable .. Levels - 1
  BY Constants DEF Begin, TreeInv, PagingTypeOK
<1>2. Apart'
  BY TablesAlone DEF tree, TreeInv, CallInTree
<1>3. CallInTree'
  BY <1>1, Constants DEF tree, TreeInv, CallInTree
<1>4. QED
  BY <1>1, <1>2, <1>3

LEMMA AllocRootKeeps == TreeInv /\ AllocRoot => TreeInv'
<1> SUFFICES ASSUME TreeInv, AllocRoot PROVE TreeInv'
  OBVIOUS
<1>c. Idle.table = NULL /\ call = call'
  BY DEF AllocRoot, Idle
<1>1. CASE \E f \in free :
             /\ TakeTable(f, Levels - 1)
             /\ entry' = [entry EXCEPT ![f] = EmptyTable]
             /\ kernel_pml4' = f
  <2>1. PICK f \in free :
             /\ TakeTable(f, Levels - 1)
             /\ entry' = [entry EXCEPT ![f] = EmptyTable]
             /\ kernel_pml4' = f
    BY <1>1
  <2>2. /\ f \in Frames /\ level[f] = NoTable /\ free' = free \ {f}
        /\ level' = [level EXCEPT ![f] = Levels - 1]
    BY <2>1 DEF TakeTable, TreeInv, PagingTypeOK, CallInTree
  <2>3. EmptyTable \in [Indices -> EntryType]
    BY Constants DEF EmptyTable, Absent, EntryType
  <2>4. PagingTypeOK'
    BY <2>1, <2>2, <2>3, Constants DEF AllocRoot, TreeInv, PagingTypeOK
  <2>5. Apart'
    <3> SUFFICES ASSUME NEW e \in Frames, NEW g \in Frames, NEW i \in Indices, NEW j \in Indices,
                        level'[e] > 0, entry'[e][i].present
                 PROVE  /\ entry'[e][i].frame \in Frames \ free'
                        /\ level'[entry'[e][i].frame] = level'[e] - 1
                        /\ level'[g] > 0 /\ entry'[g][j].present
                             /\ entry'[g][j].frame = entry'[e][i].frame => e = g /\ i = j
      BY DEF Apart
    <3>0. entry'[f] = EmptyTable /\ ~entry'[f][i].present /\ ~entry'[f][j].present
      BY <2>1, <2>2 DEF TreeInv, PagingTypeOK, EmptyTable, Absent
    <3>1. e # f /\ entry'[e] = entry[e] /\ level'[e] = level[e]
      BY <3>0, <2>1, <2>2 DEF TreeInv, PagingTypeOK
    <3>2. /\ entry[e][i].frame \in Frames \ free
          /\ level[entry[e][i].frame] = level[e] - 1
      BY <3>1 DEF TreeInv, Apart
    <3>3. level[e] \in Int /\ entry[e][i].frame # f
      BY <3>2, <2>2, <2>1 DEF TreeInv, PagingTypeOK
    <3>4. level'[entry'[e][i].frame] = level'[e] - 1
      BY <3>1, <3>2, <3>3, <2>2 DEF TreeInv, PagingTypeOK
    <3>5. ASSUME level'[g] > 0, entry'[g][j].present, entry'[g][j].frame = entry'[e][i].frame
          PROVE  e = g /\ i = j
      <4>1. g # f /\ entry'[g] = entry[g] /\ level'[g] = level[g]
        BY <3>0, <3>5, <2>1, <2>2 DEF TreeInv, PagingTypeOK
      <4>2. QED
        BY <4>1, <3>1, <3>5 DEF TreeInv, Apart
    <3>6. QED
      BY <3>1, <3>2, <3>4, <3>5, <2>2
  <2>6. CallInTree'
    <3>1. call.table # NULL => call.table # f
      BY <2>1, <2>2, HereType, Constants DEF TreeInv, CallInTree, AllocRoot, PagingTypeOK
    <3>2. QED
      BY <3>1, <2>1, <2>2, <1>c, Constants DEF TreeInv, CallInTree, PagingTypeOK
  <2>7. QED
    BY <2>4, <2>5, <2>6 DEF TreeInv
<1>2. CASE free = {} /\ UNCHANGED <<tree, kernel_pml4>>
  <2>1. PagingTypeOK'
    BY <1>2, Constants DEF AllocRoot, tree, TreeInv, PagingTypeOK
  <2>2. Apart'
    BY <1>2, TablesAlone DEF tree, TreeInv, CallInTree
  <2>3. CallInTree'
    BY <1>2, <1>c DEF tree, TreeInv, CallInTree
  <2>4. QED
    BY <2>1, <2>2, <2>3 DEF TreeInv
<1>3. QED
  BY <1>1, <1>2 DEF AllocRoot

LEMMA InitMapKeeps == TreeInv /\ InitMap => TreeInv'
<1> SUFFICES ASSUME TreeInv, InitMap PROVE TreeInv'
  OBVIOUS
<1> DEFINE p == IF mapped < Identity THEN mapped ELSE FbPage + mapped - Identity
<1>1. p \in Nat /\ Begin(p, p, {"writable"})
  BY Constants DEF InitMap
<1>2. {"writable"} \in SUBSET AllRights
  BY Constants
<1>3. /\ call' \in [page : Nat, frame : Nat, flags : SUBSET AllRights,
                    depth : NoTable .. Levels - 1, table : Frames \cup {NULL}]
      /\ Apart' /\ CallInTree'
  BY <1>1, <1>2, BeginKeeps DEF InitMap
<1>4. mapped' \in -1 .. Identity + FbPages
  BY Constants DEF InitMap, TreeInv, PagingTypeOK
<1>5. PagingTypeOK'
  BY <1>3, <1>4 DEF InitMap, tree, TreeInv, PagingTypeOK
<1>6. QED
  BY <1>3, <1>5 DEF TreeInv

LEMMA MapKeeps ==
    ASSUME TreeInv, NEW p \in CallPages, NEW t \in Targets, NEW flags \in FlagSets, Map(p, t, flags)
    PROVE  TreeInv'
<1>1. p \in Nat /\ t \in Nat /\ flags \in SUBSET AllRights
  BY Constants
<1>2. /\ call' \in [page : Nat, frame : Nat, flags : SUBSET AllRights,
                    depth : NoTable .. Levels - 1, table : Frames \cup {NULL}]
      /\ Apart' /\ CallInTree'
  BY <1>1, BeginKeeps DEF Map
<1>3. PagingTypeOK'
  BY <1>2 DEF Map, tree, TreeInv, PagingTypeOK
<1>4. QED
  BY <1>2, <1>3 DEF TreeInv

\* The fields of a call that goes on one level down.
LEMMA GoDownType ==
    ASSUME TreeInv, NEW f \in Frames \cup {NULL}, GoDown(f), call.depth > 0
    PROVE  /\ call' \in [page : Nat, frame : Nat, flags : SUBSET AllRights,
                         depth : NoTable .. Levels - 1, table : Frames \cup {NULL}]
           /\ call'.table = f /\ call'.depth = call.depth - 1
<1>1. call.depth - 1 \in NoTable .. Levels - 1
  BY Constants DEF TreeInv, PagingTypeOK
<1>2. QED
  BY <1>1 DEF GoDown, TreeInv, PagingTypeOK

\* The call goes on at a table one level down, if the tables are as they were.
LEMMA GoDownKeeps ==
    ASSUME TreeInv, NEW f \in Frames \cup {NULL}, GoDown(f), call.depth > 0,
           UNCHANGED <<tree, kernel_pml4>>, f # NULL => level[f] = call.depth - 1
    PROVE  /\ call' \in [page : Nat, frame : Nat, flags : SUBSET AllRights,
                         depth : NoTable .. Levels - 1, table : Frames \cup {NULL}]
           /\ Apart' /\ CallInTree'
<1>1. call.depth - 1 \in NoTable .. Levels - 1
  BY Constants DEF TreeInv, PagingTypeOK
<1>2. /\ call' \in [page : Nat, frame : Nat, flags : SUBSET AllRights,
                    depth : NoTable .. Levels - 1, table : Frames \cup {NULL}]
      /\ call'.table = f /\ call'.depth = call.depth - 1
  BY GoDownType
<1>3. Apart'
  BY TablesAlone DEF tree, TreeInv, CallInTree
<1>4. CallInTree'
  BY <1>1, <1>2, Constants DEF tree, TreeInv, PagingTypeOK, CallInTree
<1>5. QED
  BY <1>2, <1>3, <1>4

LEMMA DescendKeeps == TreeInv /\ Descend => TreeInv'
<1> SUFFICES ASSUME TreeInv, Descend PROVE TreeInv'
  OBVIOUS
<1>1. /\ call.depth > 0 /\ call.table \in Frames /\ level[call.table] = call.depth
      /\ Index(call.page, call.depth) \in Indices /\ call.depth \in Int
  BY HereType, Constants DEF Descend
<1>2. Here.frame \in Frames /\ level[Here.frame] = call.depth - 1
  BY <1>1 DEF Descend, Here, TreeInv, Apart
<1>3. /\ call' \in [page : Nat, frame : Nat, flags : SUBSET AllRights,
                    depth : NoTable .. Levels - 1, table : Frames \cup {NULL}]
      /\ Apart' /\ CallInTree'
  BY <1>1, <1>2, GoDownKeeps DEF Descend
<1>4. PagingTypeOK'
  BY <1>3 DEF Descend, tree, TreeInv, PagingTypeOK
<1>5. QED
  BY <1>3, <1>4 DEF TreeInv

LEMMA NoMemoryKeeps == TreeInv /\ NoMemory => TreeInv'
<1> SUFFICES ASSUME TreeInv, NoMemory PROVE TreeInv'
  OBVIOUS
<1>1. /\ call' \in [page : Nat, frame : Nat, flags : SUBSET AllRights,
                    depth : NoTable .. Levels - 1, table : Frames \cup {NULL}]
      /\ Apart' /\ CallInTree'
  BY GoDownKeeps DEF NoMemory
<1>2. PagingTypeOK'
  BY <1>1 DEF NoMemory, tree, TreeInv, PagingTypeOK
<1>3. QED
  BY <1>1, <1>2 DEF TreeInv

\* A new table: the page was nobody's, and only this entry leads to it.
LEMMA MakeTableKeeps == TreeInv /\ MakeTable => TreeInv'
<1> SUFFICES ASSUME TreeInv, MakeTable PROVE TreeInv'
  OBVIOUS
<1> DEFINE c == call.table
           x == Index(call.page, call.depth)
           l == call.depth - 1
<1>1. PICK f \in free :
        /\ TakeTable(f, l)
        /\ entry' = [entry EXCEPT ![f] = EmptyTable, ![c][x] = Entry(f, call.flags)]
        /\ GoDown(f)
  BY DEF MakeTable
<1>2. /\ c \in Frames /\ x \in Indices /\ level[c] = call.depth
      /\ call.depth \in 1 .. Levels - 1 /\ l \in 0 .. Levels - 2
  BY HereType, Constants DEF MakeTable
<1>3. /\ f \in Frames /\ level[f] = NoTable /\ f # c /\ f # NULL
      /\ free' = free \ {f} /\ level' = [level EXCEPT ![f] = l]
  BY <1>1, <1>2, Constants DEF TakeTable, TreeInv, PagingTypeOK, CallInTree
<1>4. /\ EmptyTable \in [Indices -> EntryType]
      /\ Entry(f, call.flags) \in EntryType
      /\ Entry(f, call.flags).present /\ Entry(f, call.flags).frame = f
  BY <1>3, Constants DEF EmptyTable, Absent, Entry, EntryType, TreeInv, PagingTypeOK
<1>5. /\ entry' \in [Frames -> [Indices -> EntryType]]
      /\ entry'[f] = EmptyTable
      /\ entry'[c] = [entry[c] EXCEPT ![x] = Entry(f, call.flags)]
      /\ \A g \in Frames \ {f, c} : entry'[g] = entry[g]
  BY <1>1, <1>2, <1>3, <1>4 DEF TreeInv, PagingTypeOK
<1>6. /\ call' \in [page : Nat, frame : Nat, flags : SUBSET AllRights,
                    depth : NoTable .. Levels - 1, table : Frames \cup {NULL}]
      /\ call'.table = f /\ call'.depth = l
  BY <1>1, <1>2, <1>3, GoDownType
<1>7. level' \in [Frames -> NoTable .. Levels - 1] /\ level'[f] = l
      /\ \A g \in Frames \ {f} : level'[g] = level[g]
  BY <1>2, <1>3, Constants DEF TreeInv, PagingTypeOK
<1>8. PagingTypeOK'
  BY <1>3, <1>5, <1>6, <1>7 DEF MakeTable, TreeInv, PagingTypeOK
<1>9. ASSUME NEW e \in Frames, NEW i \in Indices, level'[e] > 0, entry'[e][i].present
      PROVE  /\ e # f
             /\ \/ e = c /\ i = x /\ entry'[e][i].frame = f
                \/ ~(e = c /\ i = x) /\ level[e] > 0 /\ entry'[e][i] = entry[e][i]
  <2>1. e # f
    BY <1>5, <1>9 DEF EmptyTable, Absent
  <2>2. level[e] > 0
    BY <2>1, <1>7, <1>9
  <2>3. CASE e = c
    BY <2>1, <2>2, <2>3, <1>2, <1>4, <1>5 DEF TreeInv, PagingTypeOK
  <2>4. CASE e # c
    BY <2>1, <2>2, <2>4, <1>5
  <2>5. QED
    BY <2>1, <2>3, <2>4
<1>10. ASSUME NEW e \in Frames, NEW i \in Indices, level[e] > 0, entry[e][i].present
       PROVE  /\ entry[e][i].frame \in Frames \ free /\ entry[e][i].frame # f
              /\ level[entry[e][i].frame] = level[e] - 1
  BY <1>10, <1>1 DEF TreeInv, Apart
<1>11. Apart'
  <2> SUFFICES ASSUME NEW e \in Frames, NEW g \in Frames, NEW i \in Indices, NEW j \in Indices,
                      level'[e] > 0, entry'[e][i].present
               PROVE  /\ entry'[e][i].frame \in Frames \ free'
                      /\ level'[entry'[e][i].frame] = level'[e] - 1
                      /\ level'[g] > 0 /\ entry'[g][j].present
                           /\ entry'[g][j].frame = entry'[e][i].frame => e = g /\ i = j
    BY DEF Apart
  <2>1. entry'[e][i].frame \in Frames \ free' /\ level'[entry'[e][i].frame] = level'[e] - 1
    <3>1. CASE e = c /\ i = x /\ entry'[e][i].frame = f
      BY <3>1, <1>2, <1>3, <1>7
    <3>2. CASE level[e] > 0 /\ entry'[e][i] = entry[e][i]
      BY <3>2, <1>3, <1>7, <1>9, <1>10
    <3>3. QED
      BY <3>1, <3>2, <1>9
  <2>2. ASSUME level'[g] > 0, entry'[g][j].present, entry'[g][j].frame = entry'[e][i].frame
        PROVE  e = g /\ i = j
    <3>1. CASE e = c /\ i = x
      <4>1. entry'[g][j].frame = f
        BY <3>1, <2>2, <1>9
      <4>2. QED
        BY <3>1, <4>1, <2>2, <1>9, <1>10
    <3>2. CASE ~(e = c /\ i = x)
      <4>1. level[e] > 0 /\ entry'[e][i] = entry[e][i] /\ entry[e][i].frame # f
        BY <3>2, <1>9, <1>10
      <4>2. level[g] > 0 /\ entry'[g][j] = entry[g][j]
        BY <4>1, <2>2, <1>9
      <4>3. QED
        BY <4>1, <4>2, <2>2 DEF TreeInv, Apart
    <3>3. QED
      BY <3>1, <3>2
  <2>3. QED
    BY <2>1, <2>2
<1>12. CallInTree'
  BY <1>2, <1>3, <1>6, <1>7, Constants DEF MakeTable, TreeInv, PagingTypeOK, CallInTree
<1>13. QED
  BY <1>8, <1>11, <1>12 DEF TreeInv

\* The last level has no tables below it.
LEMMA WriteEntryKeeps == TreeInv /\ WriteEntry => TreeInv'
<1> SUFFICES ASSUME TreeInv, WriteEntry PROVE TreeInv'
  OBVIOUS
<1> DEFINE c == call.table
           x == Index(call.page, 0)
<1>1. c \in Frames /\ x \in Indices /\ level[c] = 0
  BY HereType DEF WriteEntry
<1>2. Entry(call.frame, call.flags) \in EntryType
  BY DEF Entry, EntryType, TreeInv, PagingTypeOK
<1>3. /\ entry' \in [Frames -> [Indices -> EntryType]]
      /\ \A g \in Frames \ {c} : entry'[g] = entry[g]
  BY <1>1, <1>2 DEF WriteEntry, TreeInv, PagingTypeOK
<1>4. PagingTypeOK'
  BY <1>3, Constants DEF WriteEntry, Idle, TreeInv, PagingTypeOK
<1>5. \A g \in Frames : level[g] > 0 => entry'[g] = entry[g]
  BY <1>1, <1>3
<1>6. UNCHANGED <<free, level>>
  BY DEF WriteEntry
<1>7. Apart'
  BY <1>5, <1>6 DEF TreeInv, Apart
<1>8. CallInTree'
  BY DEF WriteEntry, Idle, TreeInv, CallInTree
<1>9. QED
  BY <1>4, <1>7, <1>8 DEF TreeInv

\* A table nothing leads to.
LEMMA LooseTable ==
    ASSUME TreeInv, NEW f \in free, NEW l \in 0 .. Levels - 2, TakeTable(f, l),
           entry' = [entry EXCEPT ![f] = EmptyTable], GoDown(f), l = call.depth - 1,
           UNCHANGED <<kernel_pml4, cr3, mapped, tlb>>, events' \subseteq {"null", "wild"}
    PROVE  TreeInv'
<1>1. /\ f \in Frames /\ level[f] = NoTable /\ f # NULL
      /\ free' = free \ {f} /\ level' = [level EXCEPT ![f] = l]
  BY Constants DEF TakeTable, TreeInv, PagingTypeOK, CallInTree
<1>2. EmptyTable \in [Indices -> EntryType]
  BY Constants DEF EmptyTable, Absent, EntryType
<1>3. /\ level' \in [Frames -> NoTable .. Levels - 1] /\ level'[f] = l
      /\ \A g \in Frames \ {f} : level'[g] = level[g] /\ entry'[g] = entry[g]
      /\ entry' \in [Frames -> [Indices -> EntryType]] /\ entry'[f] = EmptyTable
  BY <1>1, <1>2, Constants DEF TreeInv, PagingTypeOK
<1>4. /\ call' \in [page : Nat, frame : Nat, flags : SUBSET AllRights,
                    depth : NoTable .. Levels - 1, table : Frames \cup {NULL}]
      /\ call'.table = f /\ call'.depth = l
  <2>1. call.depth > 0
    BY DEF TreeInv, PagingTypeOK
  <2>2. QED
    BY <1>1, <2>1, GoDownType
<1>5. PagingTypeOK'
  BY <1>1, <1>3, <1>4 DEF TreeInv, PagingTypeOK
<1>6. ASSUME NEW e \in Frames, NEW i \in Indices, level'[e] > 0, entry'[e][i].present
      PROVE  e # f /\ level[e] > 0 /\ entry'[e] = entry[e] /\ level'[e] = level[e]
  BY <1>6, <1>3 DEF EmptyTable, Absent
<1>7. ASSUME NEW e \in Frames, NEW i \in Indices, level[e] > 0, entry[e][i].present
      PROVE  /\ entry[e][i].frame \in Frames \ free'
             /\ level'[entry[e][i].frame] = level[e] - 1
  BY <1>7, <1>1, <1>3 DEF TreeInv, Apart
<1>8. Apart'
  BY <1>6, <1>7 DEF TreeInv, Apart
<1>9. CallInTree'
  BY <1>1, <1>3, <1>4, Constants DEF TreeInv, PagingTypeOK, CallInTree
<1>10. QED
  BY <1>5, <1>8, <1>9 DEF TreeInv

LEMMA FollowNullKeeps == TreeInv /\ FollowNull => TreeInv'
<1> SUFFICES ASSUME TreeInv, FollowNull PROVE TreeInv'
  OBVIOUS
<1>1. UNCHANGED <<kernel_pml4, cr3, mapped, tlb>>
  BY DEF FollowNull
<1>2. CASE call' = Idle /\ UNCHANGED tree /\ events' \subseteq {"null", "wild"}
  <2>1. PagingTypeOK'
    BY <1>1, <1>2, Constants DEF Idle, tree, TreeInv, PagingTypeOK
  <2>2. Apart'
    BY <1>2, TablesAlone DEF tree, TreeInv, CallInTree
  <2>3. CallInTree'
    BY <1>1, <1>2 DEF Idle, tree, TreeInv, CallInTree
  <2>4. QED
    BY <2>1, <2>2, <2>3 DEF TreeInv
<1>3. CASE call.depth > 0 /\ GoDown(NULL) /\ UNCHANGED tree /\ events' = events \cup {"null"}
  <2>1. /\ call' \in [page : Nat, frame : Nat, flags : SUBSET AllRights,
                      depth : NoTable .. Levels - 1, table : Frames \cup {NULL}]
        /\ Apart' /\ CallInTree'
    BY <1>1, <1>3, GoDownKeeps
  <2>2. PagingTypeOK'
    BY <1>1, <1>3, <2>1 DEF tree, TreeInv, PagingTypeOK
  <2>3. QED
    BY <2>1, <2>2 DEF TreeInv
<1>4. CASE /\ call.depth > 0
           /\ \E f \in free :
                 /\ TakeTable(f, call.depth - 1)
                 /\ entry' = [entry EXCEPT ![f] = EmptyTable]
                 /\ GoDown(f)
           /\ events' = events \cup {"null"}
  <2>1. call.depth - 1 \in 0 .. Levels - 2 /\ events' \subseteq {"null", "wild"}
    BY <1>4, Constants DEF TreeInv, PagingTypeOK
  <2>2. QED
    BY <1>1, <1>4, <2>1, LooseTable
<1>5. events \subseteq {"null", "wild"}
  BY DEF TreeInv, PagingTypeOK
<1>6. QED
  BY <1>2, <1>3, <1>4, <1>5 DEF FollowNull

\* What the others do to the allocator, and the processor to its TLB.
LEMMA OthersKeep ==
    ASSUME TreeInv, \/ Switch \/ OthersAlloc
                    \/ \E p \in Pages : Lookup(p)
                    \/ \E f \in Frames : OthersFree(f)
    PROVE  TreeInv'
<1>1. UNCHANGED <<entry, level, kernel_pml4, call, mapped>>
  BY DEF Switch, OthersAlloc, Lookup, OthersFree, tree
<1>2. free' \subseteq Frames /\ \A f \in Frames : level[f] # NoTable => f \notin free'
  BY DEF Switch, OthersAlloc, Lookup, OthersFree, tree, TreeInv, PagingTypeOK, CallInTree
<1>3. cr3' \in Frames \cup {NULL} /\ events' \subseteq {"null", "wild"}
  BY DEF Switch, OthersAlloc, Lookup, OthersFree, TreeInv, PagingTypeOK
<1>4. DOMAIN tlb' \subseteq Pages
  <2>1. CASE Switch
    BY <2>1 DEF Switch
  <2>2. ASSUME NEW p \in Pages, Lookup(p) PROVE DOMAIN tlb' \subseteq Pages
    BY <2>2 DEF Lookup, TreeInv, PagingTypeOK
  <2>3. CASE OthersAlloc \/ \E f \in Frames : OthersFree(f)
    BY <2>3 DEF OthersAlloc, OthersFree, TreeInv, PagingTypeOK
  <2>4. QED
    BY <2>1, <2>2, <2>3
<1>5. PagingTypeOK'
  BY <1>1, <1>2, <1>3, <1>4 DEF TreeInv, PagingTypeOK
<1>6. Apart'
  BY <1>1, <1>2, TablesAlone
<1>7. CallInTree'
  BY <1>1, <1>2 DEF TreeInv, CallInTree
<1>8. QED
  BY <1>5, <1>6, <1>7 DEF TreeInv

LEMMA NextInv == TreeInv /\ [PagingNext]_pagingVars => TreeInv'
<1> SUFFICES ASSUME TreeInv, [PagingNext]_pagingVars PROVE TreeInv'
  OBVIOUS
<1>1. CASE \E p \in CallPages, t \in Targets, flags \in FlagSets : Map(p, t, flags)
  BY <1>1, MapKeeps
<1>2. CASE \/ Switch \/ OthersAlloc \/ \E p \in Pages : Lookup(p)
           \/ \E f \in Frames : OthersFree(f)
  BY <1>2, OthersKeep
<1>3. CASE UNCHANGED pagingVars
  BY <1>3 DEF pagingVars, TreeInv, PagingTypeOK, Apart, CallInTree
<1>4. QED
  BY <1>1, <1>2, <1>3, AllocRootKeeps, InitMapKeeps, DescendKeeps, MakeTableKeeps,
     NoMemoryKeeps, FollowNullKeeps, WriteEntryKeeps DEF PagingNext

----------------------------------------------------------------------------
(* The map the tables stand for, step by step.                             *)

\* A walk goes on where the tables have something.
LEMMA WalkOn ==
    ASSUME NEW e, NEW r, NEW p, NEW l \in 0 .. Levels - 1,
           PathIn(e, r, p)[Levels - 1 - l].present,
           NEW y \in EntryType, y = e[PathIn(e, r, p)[Levels - 1 - l].frame][Index(p, l)]
    PROVE  /\ PathIn(e, r, p)[Levels - l].present = y.present
           /\ PathIn(e, r, p)[Levels - l].frame = y.frame
           /\ PathIn(e, r, p)[Levels - l].rights = y.rights \cap PathIn(e, r, p)[Levels - 1 - l].rights
<1> DEFINE k == Levels - 1 - l
<1>1. k \in 0 .. Levels - 1 /\ k + 1 = Levels - l /\ Levels - 1 - k = l
  BY PagingAssumption
<1>2. PathIn(e, r, p)[k + 1] = Below(e, p, k, PathIn(e, r, p)[k])
  BY <1>1, WalkSteps
<1>3. y = e[PathIn(e, r, p)[k].frame][Index(p, Levels - 1 - k)] /\ PathIn(e, r, p)[k].present
  BY <1>1
<1>4. /\ PathIn(e, r, p)[k + 1].present = y.present
      /\ PathIn(e, r, p)[k + 1].frame = y.frame
      /\ PathIn(e, r, p)[k + 1].rights = y.rights \cap PathIn(e, r, p)[k].rights
  BY <1>2, <1>3, BelowIs
<1>5. QED
  BY <1>1, <1>4

LEMMA RootTree ==
    ASSUME TreeInv, kernel_pml4 # NULL
    PROVE  Tree(entry, level, kernel_pml4)
BY DEF TreeInv, PagingTypeOK, Apart, CallInTree, Tree

\* The call in progress, where it has come to a table below the root.
LEMMA CallPath ==
    ASSUME MapInv, kernel_pml4 # NULL, call.table # NULL
    PROVE  /\ call # Idle /\ call.page \in Pages /\ call.page \in Nat
           /\ PathIn(entry, kernel_pml4, call.page)[Levels - 1 - call.depth].present
           /\ PathIn(entry, kernel_pml4, call.page)[Levels - 1 - call.depth].frame = call.table
BY DEF MapInv, TreeInv, PagingTypeOK, CallOnItsWay, Idle

\* What the processor remembers stays true if the map does not change.
LEMMA RememberedStays ==
    ASSUME Remembered, UNCHANGED <<kernel_pml4, cr3, tlb>>,
           kernel_pml4 # NULL => MapOf(entry', kernel_pml4) = MapOf(entry, kernel_pml4)
    PROVE  Remembered'
<1>1. CASE cr3 = NULL
  BY <1>1 DEF Remembered
<1>2. CASE cr3 # NULL
  <2>1. cr3 = kernel_pml4 /\ cr3' = kernel_pml4'
    BY <1>2 DEF Remembered
  <2>2. Translation(cr3)' = Translation(cr3)
    BY <1>2, <2>1, TranslationIs
  <2>3. QED
    BY <2>1, <2>2 DEF Remembered
<1>3. QED
  BY <1>1, <1>2

\* A new table is empty: it adds nothing to the map, and the call has gone one
\* level down to it.
LEMMA MakeTableMap ==
    ASSUME MapInv, MakeTable, kernel_pml4 # NULL
    PROVE  /\ MapOf(entry', kernel_pml4) = MapOf(entry, kernel_pml4)
           /\ PathIn(entry', kernel_pml4, call.page)[Levels - call.depth].present
           /\ PathIn(entry', kernel_pml4, call.page)[Levels - call.depth].frame = call'.table
<1> DEFINE r == kernel_pml4
           c == call.table
           l == call.depth
           x == Index(call.page, l)
           m == Levels - 1 - l
<1>0. Levels \in Nat \ {0} /\ TreeInv
  BY PagingAssumption DEF MapInv
<1>1. PICK f \in free :
        /\ TakeTable(f, l - 1)
        /\ entry' = [entry EXCEPT ![f] = EmptyTable, ![c][x] = Entry(f, call.flags)]
        /\ GoDown(f)
  BY DEF MakeTable
<1>2. /\ c \in Frames /\ x \in Indices /\ level[c] = l /\ ~entry[c][x].present
      /\ l \in 1 .. Levels - 1 /\ m \in 0 .. Levels - 2
  BY <1>0, HereType, Constants DEF MakeTable, Here
<1>3. f \in Frames /\ level[f] = NoTable /\ f # c /\ f \in Nat
  BY <1>0, <1>1, <1>2, Constants DEF TreeInv, PagingTypeOK, CallInTree
<1>4. /\ Entry(f, call.flags) \in EntryType
      /\ Entry(f, call.flags).present /\ Entry(f, call.flags).frame = f
  BY <1>0, <1>3, EntryTypes DEF TreeInv, PagingTypeOK
<1>5. /\ \A i \in Indices : ~entry'[f][i].present /\ entry'[f][i] \in EntryType
      /\ entry'[c][x] = Entry(f, call.flags)
      /\ \A i \in Indices \ {x} : entry'[c][i] = entry[c][i]
      /\ \A g \in Frames \ {f, c} : entry'[g] = entry[g]
      /\ \A g \in Frames, i \in Indices : entry[g][i] \in EntryType
  <2>1. entry \in [Frames -> [Indices -> EntryType]]
    BY <1>0 DEF TreeInv, PagingTypeOK
  <2>2. /\ entry'[f] = EmptyTable
        /\ entry'[c] = [entry[c] EXCEPT ![x] = Entry(f, call.flags)]
        /\ \A g \in Frames \ {f, c} : entry'[g] = entry[g]
    BY <1>1, <1>2, <1>3, <2>1
  <2>3. \A i \in Indices : EmptyTable[i] = Absent
    BY DEF EmptyTable
  <2>4. entry[c] \in [Indices -> EntryType]
    BY <1>2, <2>1
  <2>5. QED
    BY <1>2, <2>1, <2>2, <2>3, <2>4, EntryTypes
<1>6. call'.table = f
  BY <1>0, <1>1, <1>2, <1>3, GoDownType
<1>7. Tree(entry, level, r)
  BY <1>0, RootTree
<1>8. ASSUME NEW q \in Pages, NEW k \in 0 .. Levels - 1,
             PathIn(entry, r, q)[k].present,
             ~(k = m /\ PathIn(entry, r, q)[k].frame = c /\ Index(q, l) = x)
      PROVE  LET g == PathIn(entry, r, q)[k].frame
                 i == Index(q, Levels - 1 - k)
             IN  entry'[g][i] = entry[g][i]
  <2> DEFINE g == PathIn(entry, r, q)[k].frame
             i == Index(q, Levels - 1 - k)
  <2>1. q \in Nat /\ k \in 0 .. Levels /\ k < Levels /\ Levels - 1 - k \in 0 .. Levels
    BY <1>0 DEF Pages
  <2>2. g \in Frames /\ level[g] = Levels - 1 - k
    BY <1>7, <1>8, <2>1, WalkTables
  <2>3. g # f
    BY <1>0, <1>3, <2>1, <2>2 DEF NoTable
  <2>4. g = c => k = m /\ Levels - 1 - k = l
    BY <1>0, <1>2, <2>2
  <2>5. i \in Indices
    BY <2>1, IndexType
  <2>6. g = c => i # x
    BY <1>8, <2>4
  <2> HIDE DEF g, i
  <2>7. entry'[g][i] = entry[g][i]
    BY <1>5, <2>2, <2>3, <2>5, <2>6
  <2>8. QED
    BY <2>7 DEF g, i
<1>9. ASSUME NEW q \in Pages
      PROVE  PathIn(entry', r, q)[m] = PathIn(entry, r, q)[m]
  <2>1. m \in 0 .. Levels /\ \A k \in 0 .. m - 1 : k \in 0 .. Levels - 1 /\ k # m
    BY <1>0, <1>2
  <2>2. \A k \in 0 .. m : PathIn(entry', r, q)[k] = PathIn(entry, r, q)[k]
    BY <1>8, <2>1, SameWalk
  <2>3. QED
    BY <1>2, <2>2
<1>10. ASSUME NEW q \in Pages,
              PathIn(entry, r, q)[m].present, PathIn(entry, r, q)[m].frame = c, Index(q, l) = x
       PROVE  /\ PathIn(entry', r, q)[Levels - l].present
              /\ PathIn(entry', r, q)[Levels - l].frame = f
              /\ ~PathIn(entry, r, q)[Levels].present
              /\ ~PathIn(entry', r, q)[Levels].present
  <2>1. l \in 0 .. Levels - 1 /\ l - 1 \in 0 .. Levels - 1 /\ l - 1 \in 0 .. Levels
        /\ Levels - l \in 0 .. Levels /\ Levels - (l - 1) \in 0 .. Levels
        /\ Levels - 1 - (l - 1) = Levels - l /\ q \in Nat
    BY <1>0, <1>2 DEF Pages
  <2>2. entry[c][x] \in EntryType
    BY <1>2, <1>5
  <2>3. ~PathIn(entry, r, q)[Levels - l].present
    BY <1>2, <1>10, <2>1, <2>2, WalkOn
  <2>4. ~PathIn(entry, r, q)[Levels].present
    BY <2>1, <2>3, NothingBelow
  <2>5. PathIn(entry', r, q)[Levels - l].present /\ PathIn(entry', r, q)[Levels - l].frame = f
    BY <1>4, <1>5, <1>9, <1>10, <2>1, WalkOn
  <2>6. Index(q, l - 1) \in Indices
    BY <2>1, IndexType
  <2>7. ~PathIn(entry', r, q)[Levels - (l - 1)].present
    BY <1>5, <2>1, <2>5, <2>6, WalkOn
  <2>8. ~PathIn(entry', r, q)[Levels].present
    BY <2>1, <2>7, NothingBelow
  <2>9. QED
    BY <2>4, <2>5, <2>8
<1>11. ASSUME NEW q \in Pages,
              ~(PathIn(entry, r, q)[m].present /\ PathIn(entry, r, q)[m].frame = c /\ Index(q, l) = x)
       PROVE  PathIn(entry', r, q)[Levels] = PathIn(entry, r, q)[Levels]
  <2>1. Levels \in 0 .. Levels
    BY <1>0
  <2>2. \A k \in 0 .. Levels : PathIn(entry', r, q)[k] = PathIn(entry, r, q)[k]
    BY <1>8, <1>11, <2>1, SameWalk
  <2>3. QED
    BY <2>1, <2>2
<1>12. MapOf(entry', r) = MapOf(entry, r)
  BY <1>10, <1>11, SameMap
<1>13. call.page \in Pages /\ PathIn(entry, r, call.page)[m].present
       /\ PathIn(entry, r, call.page)[m].frame = c
  BY <1>2, CallPath, Constants
<1>14. QED
  BY <1>6, <1>10, <1>12, <1>13

\* What the flat map sees of the page tables.
TheMap == IF kernel_pml4 # NULL THEN Translation(kernel_pml4) ELSE <<>>

TheCall ==
    IF call = Idle THEN {}
    ELSE {[page |-> call.page, frame |-> call.frame, flags |-> call.flags]}

LEMMA FlatStays ==
    ASSUME UNCHANGED <<TheMap, TheCall, asked>>
    PROVE  [Flat!Next]_Flat!vars
BY DEF Flat!vars, TheMap, TheCall

LEMMA FlatAsks ==
    ASSUME TheCall = {}, NEW r, TheCall' = {r}, r \in Flat!Requests,
           asked' = asked \cup {r.flags}, UNCHANGED TheMap
    PROVE  [Flat!Next]_Flat!vars
<1>1. Flat!Ask(r)
  BY DEF Flat!Ask, TheMap, TheCall
<1>2. r \in TheCall' \cap Flat!Requests
  OBVIOUS
<1>3. QED
  BY <1>1, <1>2 DEF Flat!Next, TheCall

LEMMA FlatGrants ==
    ASSUME NEW r \in TheCall, NEW rights \in SUBSET r.flags,
           asked = {r.flags} => rights = r.flags,
           TheMap' = [p \in DOMAIN TheMap \cup {r.page} |->
                        IF p = r.page THEN [frame |-> r.frame, rights |-> rights] ELSE TheMap[p]],
           TheCall' = {}, UNCHANGED asked
    PROVE  [Flat!Next]_Flat!vars
<1>1. \E x \in SUBSET r.flags :
        /\ asked = {r.flags} => x = r.flags
        /\ TheMap' = [p \in DOMAIN TheMap \cup {r.page} |->
                        IF p = r.page THEN [frame |-> r.frame, rights |-> x] ELSE TheMap[p]]
  OBVIOUS
<1>2. TheCall' = {} /\ UNCHANGED asked /\ r \in TheCall
  OBVIOUS
<1>3. Flat!Grant(r)
  BY <1>1, <1>2, Zenon DEF Flat!Grant, TheMap, TheCall
<1>4. QED
  BY <1>3 DEF Flat!Next, TheCall

LEMMA FlatDrops ==
    ASSUME TheCall' = {}, UNCHANGED <<TheMap, asked>>, free = {} \/ kernel_pml4 = NULL
    PROVE  [Flat!Next]_Flat!vars
BY DEF Flat!Next, Flat!Drop, TheMap, TheCall

\* The map stays where its tables do.
LEMMA MapStays ==
    ASSUME UNCHANGED kernel_pml4,
           kernel_pml4 # NULL => MapOf(entry', kernel_pml4) = MapOf(entry, kernel_pml4)
    PROVE  UNCHANGED TheMap
BY TranslationIs DEF TheMap

\* Between two levels, and where others take and give back pages.
LEMMA QuietStep ==
    ASSUME UNCHANGED <<entry, kernel_pml4, TheCall, asked>>
    PROVE  [Flat!Next]_Flat!vars
BY MapStays, FlatStays

LEMMA BeginStep ==
    ASSUME MapInv, NEW p \in Pages, NEW frame \in Nat, NEW flags \in FlagSets,
           Begin(p, frame, flags), UNCHANGED <<tree, kernel_pml4, cr3, tlb>>, mapped' # -1
    PROVE  /\ CallOnItsWay' /\ RightsAsked' /\ Remembered'
           /\ [Flat!Next]_Flat!vars
<1>0. Levels \in Nat \ {0} /\ TreeInv /\ call = Idle /\ UNCHANGED entry
  BY PagingAssumption DEF MapInv, Begin, tree
<1>1. call' = [page |-> p, frame |-> frame, flags |-> flags,
               depth |-> Levels - 1, table |-> kernel_pml4]
  BY DEF Begin
<1>2. call' # Idle /\ Levels - 1 - (Levels - 1) = 0
  BY <1>0, <1>1 DEF Idle, NoTable
<1>3. kernel_pml4 # NULL =>
        /\ PathIn(entry, kernel_pml4, p)[0].present
        /\ PathIn(entry, kernel_pml4, p)[0].frame = kernel_pml4
  BY <1>0, WalkSteps, EntryTypes, Constants DEF TreeInv, PagingTypeOK
<1>4. CallOnItsWay'
  BY <1>0, <1>1, <1>2, <1>3 DEF CallOnItsWay, Begin
<1>5. RightsAsked'
  BY <1>0 DEF MapInv, RightsAsked, Begin
<1>6. Remembered'
  BY <1>0, RememberedStays DEF MapInv
<1> DEFINE r == [page |-> p, frame |-> frame, flags |-> flags]
<1>7. TheCall = {} /\ TheCall' = {r}
  BY <1>0, <1>1, <1>2 DEF TheCall
<1>8. r \in Flat!Requests
  BY DEF Flat!Requests
<1>9. UNCHANGED TheMap
  BY <1>0, MapStays
<1>10. [Flat!Next]_Flat!vars
  BY <1>7, <1>8, <1>9, FlatAsks DEF Begin
<1>11. QED
  BY <1>4, <1>5, <1>6, <1>10

LEMMA AllocRootStep ==
    ASSUME MapInv, AllocRoot, TreeInv'
    PROVE  /\ CallOnItsWay' /\ RightsAsked' /\ Remembered'
           /\ [Flat!Next]_Flat!vars
<1>0. /\ Levels \in Nat \ {0} /\ TreeInv /\ call = Idle /\ call' = Idle
      /\ kernel_pml4 = NULL /\ cr3 = NULL /\ cr3' = NULL /\ DOMAIN tlb = {} /\ tlb' = tlb
      /\ UNCHANGED asked /\ mapped' = 0
  BY PagingAssumption DEF MapInv, AllocRoot, CallOnItsWay, Remembered
<1>1. CallOnItsWay'
  BY <1>0 DEF CallOnItsWay
<1>2. Remembered'
  BY <1>0 DEF Remembered
<1>3. TheCall' = TheCall
  BY <1>0 DEF TheCall
<1>4. CASE \E f \in free :
             /\ TakeTable(f, Levels - 1)
             /\ entry' = [entry EXCEPT ![f] = EmptyTable]
             /\ kernel_pml4' = f
  <2>1. PICK f \in free : entry' = [entry EXCEPT ![f] = EmptyTable] /\ kernel_pml4' = f
    BY <1>4
  <2>2. /\ f \in Frames /\ f # NULL
        /\ \A i \in Indices : ~entry'[f][i].present /\ entry'[f][i] \in EntryType
        /\ \A g \in Frames \ {f} : entry'[g] = entry[g]
    BY <1>0, <2>1, EntryTypes, Constants DEF TreeInv, PagingTypeOK, EmptyTable
  <2>3. RightsAsked'
    BY <1>0, <2>2 DEF MapInv, RightsAsked
  <2>4. ASSUME NEW p \in Pages PROVE ~PathIn(entry', f, p)[Levels].present
    <3>1. /\ Levels - 1 \in 0 .. Levels - 1 /\ Levels - 1 \in 0 .. Levels /\ p \in Nat
          /\ Levels - (Levels - 1) = 1 /\ Levels - 1 - (Levels - 1) = 0 /\ 1 \in 0 .. Levels
      BY <1>0 DEF Pages
    <3>2. PathIn(entry', f, p)[0].present /\ PathIn(entry', f, p)[0].frame = f
      BY <2>2, WalkSteps, EntryTypes, Constants
    <3>3. Index(p, Levels - 1) \in Indices
      BY <3>1, IndexType
    <3>4. ~PathIn(entry', f, p)[1].present
      BY <2>2, <3>1, <3>2, <3>3, WalkOn
    <3>5. QED
      BY <3>1, <3>4, NothingBelow
  <2>5. MapOf(entry', f) = <<>>
    <3>1. {q \in Pages : PathIn(entry', f, q)[Levels].present} = {}
      BY <2>4
    <3>2. QED
      BY <3>1 DEF MapOf
  <2>6. TheMap = <<>> /\ TheMap' = MapOf(entry', f)
    BY <1>0, <2>1, <2>2, TranslationIs DEF TheMap
  <2>7. [Flat!Next]_Flat!vars
    BY <1>0, <1>3, <2>5, <2>6, FlatStays
  <2>8. QED
    BY <1>1, <1>2, <2>3, <2>7
<1>5. CASE free = {} /\ UNCHANGED <<tree, kernel_pml4>>
  <2>1. RightsAsked'
    BY <1>0, <1>5 DEF MapInv, RightsAsked, tree
  <2>2. [Flat!Next]_Flat!vars
    BY <1>0, <1>3, <1>5, QuietStep DEF tree
  <2>3. QED
    BY <1>1, <1>2, <2>1, <2>2
<1>6. QED
  BY <1>4, <1>5 DEF AllocRoot

\* A call that goes on is still the same call.
LEMMA SameCall ==
    ASSUME TreeInv, call # Idle, NEW f \in Frames \cup {NULL}, GoDown(f), call.depth > 0
    PROVE  /\ call' # Idle /\ TheCall' = TheCall
           /\ call'.page = call.page /\ call'.flags = call.flags
           /\ call'.table = f /\ call'.depth = call.depth - 1
<1>1. call'.depth = call.depth - 1 /\ call'.table = f /\ call.depth \in Int
  BY GoDownType, Constants DEF TreeInv, PagingTypeOK
<1>2. /\ call'.page = call.page /\ call'.flags = call.flags /\ call'.frame = call.frame
  BY DEF GoDown, TreeInv, PagingTypeOK
<1>3. call' # Idle
  BY <1>1 DEF Idle, NoTable
<1>4. QED
  BY <1>1, <1>2, <1>3 DEF TheCall

LEMMA DescendStep ==
    ASSUME MapInv, Descend
    PROVE  /\ CallOnItsWay' /\ RightsAsked' /\ Remembered'
           /\ [Flat!Next]_Flat!vars
<1>0. /\ TreeInv /\ UNCHANGED <<entry, kernel_pml4, cr3, mapped, tlb, asked>>
      /\ call.table # NULL /\ call # Idle /\ call.depth > 0 /\ call.depth \in 0 .. Levels - 1
      /\ Levels \in Nat
  BY HereType, PagingAssumption DEF MapInv, Descend, tree, Idle
<1>1. Here \in EntryType /\ Here.present /\ Here.frame \in Frames
  BY <1>0, HereType, Constants DEF Descend, Here, TreeInv, Apart
<1>2. /\ call' # Idle /\ TheCall' = TheCall
      /\ call'.page = call.page /\ call'.flags = call.flags
      /\ call'.table = Here.frame /\ call'.depth = call.depth - 1
  BY <1>0, <1>1, SameCall DEF Descend
<1>3. Here.frame # NULL
  BY <1>1, Constants
<1>4. ASSUME kernel_pml4 # NULL
      PROVE  LET e == PathIn(entry, kernel_pml4, call.page)[Levels - call.depth]
             IN  e.present /\ e.frame = Here.frame
  BY <1>0, <1>1, <1>4, CallPath, WalkOn DEF Here
<1>5. Levels - 1 - (call.depth - 1) = Levels - call.depth
  BY <1>0
<1>6. CallOnItsWay'
  BY <1>0, <1>2, <1>3, <1>4, <1>5 DEF CallOnItsWay, MapInv
<1>7. RightsAsked' /\ Remembered'
  BY <1>0, RememberedStays DEF MapInv, RightsAsked
<1>8. [Flat!Next]_Flat!vars
  BY <1>0, <1>2, QuietStep
<1>9. QED
  BY <1>6, <1>7, <1>8

LEMMA NoMemoryStep ==
    ASSUME MapInv, NoMemory
    PROVE  /\ CallOnItsWay' /\ RightsAsked' /\ Remembered'
           /\ [Flat!Next]_Flat!vars
<1>0. /\ TreeInv /\ UNCHANGED <<entry, free, kernel_pml4, cr3, mapped, tlb, asked>>
      /\ call # Idle /\ call.depth > 0 /\ free = {}
  BY DEF MapInv, NoMemory, tree, Idle
<1>1. /\ call' # Idle /\ TheCall' = TheCall
      /\ call'.page = call.page /\ call'.flags = call.flags /\ call'.table = NULL
  BY <1>0, SameCall DEF NoMemory
<1>2. CallOnItsWay'
  BY <1>0, <1>1 DEF CallOnItsWay, MapInv
<1>3. RightsAsked' /\ Remembered'
  BY <1>0, RememberedStays DEF MapInv, RightsAsked
<1>4. [Flat!Next]_Flat!vars
  BY <1>0, <1>1, QuietStep
<1>5. QED
  BY <1>2, <1>3, <1>4

LEMMA MakeTableStep ==
    ASSUME MapInv, MakeTable
    PROVE  /\ CallOnItsWay' /\ RightsAsked' /\ Remembered'
           /\ [Flat!Next]_Flat!vars
<1>0. /\ TreeInv /\ UNCHANGED <<kernel_pml4, cr3, mapped, tlb, asked>>
      /\ call.table # NULL /\ call # Idle /\ call.depth > 0 /\ call.depth \in 0 .. Levels - 1
      /\ Levels \in Nat
  BY HereType, PagingAssumption DEF MapInv, MakeTable, Idle
<1>1. PICK f \in free :
        /\ entry' = [entry EXCEPT ![f] = EmptyTable,
                         ![call.table][Index(call.page, call.depth)] = Entry(f, call.flags)]
        /\ GoDown(f)
  BY DEF MakeTable
<1>2. f \in Frames /\ f # NULL
  BY <1>0, <1>1, Constants DEF TreeInv, PagingTypeOK
<1>3. /\ call' # Idle /\ TheCall' = TheCall
      /\ call'.page = call.page /\ call'.flags = call.flags
      /\ call'.table = f /\ call'.depth = call.depth - 1
  BY <1>0, <1>1, <1>2, SameCall
<1>4. Levels - 1 - (call.depth - 1) = Levels - call.depth
  BY <1>0
<1>5. ASSUME kernel_pml4 # NULL
      PROVE  /\ MapOf(entry', kernel_pml4) = MapOf(entry, kernel_pml4)
             /\ PathIn(entry', kernel_pml4, call.page)[Levels - call.depth].present
             /\ PathIn(entry', kernel_pml4, call.page)[Levels - call.depth].frame = f
  BY <1>3, <1>5, MakeTableMap
<1>6. CallOnItsWay'
  BY <1>0, <1>2, <1>3, <1>4, <1>5 DEF CallOnItsWay, MapInv
<1>7. RightsAsked'
  <2>1. entry \in [Frames -> [Indices -> EntryType]] /\ call.flags \in asked
    BY <1>0 DEF MapInv, TreeInv, PagingTypeOK, CallOnItsWay
  <2>2. call.table \in Frames /\ Index(call.page, call.depth) \in Indices /\ f # call.table
    BY <1>0, <1>1, HereType, Constants DEF TreeInv, CallInTree
  <2>3. ASSUME NEW g \in Frames, NEW i \in Indices, entry'[g][i].present
        PROVE  entry'[g][i].rights \in asked
    <3>1. CASE g = f
      BY <1>1, <2>1, <2>2, <2>3, <3>1, EntryTypes DEF EmptyTable
    <3>2. CASE g = call.table /\ i = Index(call.page, call.depth)
      BY <1>1, <2>1, <2>2, <3>2 DEF Entry
    <3>3. CASE g # f /\ ~(g = call.table /\ i = Index(call.page, call.depth))
      <4>1. entry'[g][i] = entry[g][i]
        BY <1>1, <2>1, <2>2, <3>3
      <4>2. QED
        BY <2>3, <4>1 DEF MapInv, RightsAsked
    <3>4. QED
      BY <3>1, <3>2, <3>3
  <2>4. QED
    BY <1>0, <2>3 DEF RightsAsked
<1>8. Remembered'
  BY <1>0, <1>5, RememberedStays DEF MapInv
<1>9. [Flat!Next]_Flat!vars
  BY <1>0, <1>3, <1>5, MapStays, FlatStays
<1>10. QED
  BY <1>6, <1>7, <1>8, <1>9

LEMMA FollowNullStep ==
    ASSUME MapInv, FollowNull
    PROVE  /\ CallOnItsWay' /\ RightsAsked' /\ Remembered'
           /\ [Flat!Next]_Flat!vars
<1>0. /\ TreeInv /\ UNCHANGED <<kernel_pml4, cr3, mapped, tlb, asked>>
      /\ call # Idle /\ call.table = NULL /\ mapped # -1
      /\ kernel_pml4 # NULL => free = {}
  BY DEF MapInv, FollowNull, CallOnItsWay
<1>1. CASE call' = Idle /\ UNCHANGED tree
  <2>1. CallOnItsWay'
    BY <1>0, <1>1 DEF CallOnItsWay
  <2>2. RightsAsked' /\ Remembered'
    BY <1>0, <1>1, RememberedStays DEF MapInv, RightsAsked, tree
  <2>3. TheCall' = {} /\ UNCHANGED TheMap
    BY <1>0, <1>1, MapStays DEF TheCall, tree
  <2>4. QED
    BY <1>0, <2>1, <2>2, <2>3, FlatDrops
<1>2. CASE call.depth > 0 /\ free = {} /\ GoDown(NULL) /\ UNCHANGED tree
  <2>1. /\ call' # Idle /\ TheCall' = TheCall
        /\ call'.page = call.page /\ call'.flags = call.flags /\ call'.table = NULL
    BY <1>0, <1>2, SameCall
  <2>2. CallOnItsWay'
    BY <1>0, <1>2, <2>1 DEF CallOnItsWay, MapInv, tree
  <2>3. RightsAsked' /\ Remembered'
    BY <1>0, <1>2, RememberedStays DEF MapInv, RightsAsked, tree
  <2>4. QED
    BY <1>0, <1>2, <2>1, <2>2, <2>3, QuietStep DEF tree
<1>3. CASE /\ call.depth > 0
           /\ \E f \in free :
                 /\ TakeTable(f, call.depth - 1)
                 /\ entry' = [entry EXCEPT ![f] = EmptyTable]
                 /\ GoDown(f)
  <2>1. PICK f \in free : entry' = [entry EXCEPT ![f] = EmptyTable] /\ GoDown(f)
    BY <1>3
  <2>2. f \in Frames /\ kernel_pml4 = NULL
    BY <1>0, <2>1 DEF TreeInv, PagingTypeOK
  <2>3. /\ call' # Idle /\ TheCall' = TheCall
        /\ call'.page = call.page /\ call'.flags = call.flags
    BY <1>0, <1>3, <2>1, <2>2, SameCall
  <2>4. CallOnItsWay'
    BY <1>0, <2>2, <2>3 DEF CallOnItsWay, MapInv
  <2>5. \A g \in Frames, i \in Indices : entry'[g][i].present => entry'[g][i] = entry[g][i]
    BY <1>0, <2>1, <2>2, EntryTypes DEF TreeInv, PagingTypeOK, EmptyTable
  <2>6. RightsAsked'
    BY <1>0, <2>5 DEF MapInv, RightsAsked
  <2>7. Remembered' /\ UNCHANGED TheMap
    BY <1>0, <2>2, RememberedStays, MapStays DEF MapInv
  <2>8. QED
    BY <1>0, <2>3, <2>4, <2>6, <2>7, FlatStays
<1>4. QED
  BY <1>1, <1>2, <1>3 DEF FollowNull

\* The last level.  Where the call walks to, nobody else does, so only its page
\* changes; it has no more rights than were asked for, and all of them if
\* nobody has asked for others.
LEMMA WriteEntryMap ==
    ASSUME MapInv, WriteEntry, kernel_pml4 # NULL
    PROVE  \E rights \in SUBSET call.flags :
             /\ asked = {call.flags} => rights = call.flags
             /\ MapOf(entry', kernel_pml4) =
                  [p \in DOMAIN MapOf(entry, kernel_pml4) \cup {call.page} |->
                     IF p = call.page THEN [frame |-> call.frame, rights |-> rights]
                     ELSE MapOf(entry, kernel_pml4)[p]]
<1> DEFINE r == kernel_pml4
           c == call.table
           x == Index(call.page, 0)
           y == Entry(call.frame, call.flags)
<1>0. /\ Levels \in Nat \ {0} /\ TreeInv /\ Tree(entry, level, r)
      /\ entry \in [Frames -> [Indices -> EntryType]]
      /\ call.frame \in Nat /\ call.flags \in SUBSET AllRights
      /\ 0 \in 0 .. Levels - 1 /\ Levels - 1 - 0 = Levels - 1 /\ Levels - 0 = Levels
      /\ Levels - 1 \in 0 .. Levels - 1 /\ Levels - 1 \in 0 .. Levels /\ Levels \in 0 .. Levels
      /\ Levels - 1 < Levels /\ Levels - (Levels - 1) = 1
  BY PagingAssumption, RootTree DEF MapInv, TreeInv, PagingTypeOK
<1>1. c \in Frames /\ x \in Indices /\ level[c] = 0 /\ call.depth = 0
  BY <1>0, HereType DEF WriteEntry
<1>2. /\ y \in EntryType /\ y.present /\ y.frame = call.frame /\ y.rights = call.flags
  BY <1>0, EntryTypes
<1>3. /\ entry'[c][x] = y
      /\ \A i \in Indices \ {x} : entry'[c][i] = entry[c][i]
      /\ \A g \in Frames \ {c} : entry'[g] = entry[g]
  BY <1>0, <1>1 DEF WriteEntry
<1>4. /\ call.page \in Pages /\ call.page \in Nat
      /\ PathIn(entry, r, call.page)[Levels - 1].present
      /\ PathIn(entry, r, call.page)[Levels - 1].frame = c
  BY <1>0, <1>1, CallPath DEF WriteEntry
<1>5. ASSUME NEW q \in Pages, NEW k \in 0 .. Levels - 1,
             PathIn(entry, r, q)[k].present,
             ~(k = Levels - 1 /\ PathIn(entry, r, q)[k].frame = c /\ Index(q, 0) = x)
      PROVE  LET g == PathIn(entry, r, q)[k].frame
                 i == Index(q, Levels - 1 - k)
             IN  entry'[g][i] = entry[g][i]
  <2> DEFINE g == PathIn(entry, r, q)[k].frame
             i == Index(q, Levels - 1 - k)
  <2>1. q \in Nat /\ k \in 0 .. Levels /\ k < Levels /\ Levels - 1 - k \in 0 .. Levels
    BY <1>0 DEF Pages
  <2>2. g \in Frames /\ level[g] = Levels - 1 - k
    BY <1>0, <1>5, <2>1, WalkTables
  <2>3. g = c => k = Levels - 1 /\ Levels - 1 - k = 0
    BY <1>0, <1>1, <2>2
  <2>4. i \in Indices
    BY <2>1, IndexType
  <2>5. g = c => i # x
    BY <1>5, <2>3
  <2> HIDE DEF g, i
  <2>6. entry'[g][i] = entry[g][i]
    BY <1>3, <2>2, <2>4, <2>5
  <2>7. QED
    BY <2>6 DEF g, i
<1>6. ASSUME NEW q \in Pages, q # call.page
      PROVE  PathIn(entry', r, q)[Levels] = PathIn(entry, r, q)[Levels]
  <2>1. q \in Nat
    BY <1>0 DEF Pages
  <2>2. ASSUME PathIn(entry, r, q)[Levels - 1].present, PathIn(entry, r, q)[Levels - 1].frame = c,
               Index(q, 0) = x
        PROVE  FALSE
    <3>1. \A l \in 1 .. Levels - 1 : Index(q, l) = Index(call.page, l)
      BY <1>0, <1>4, <2>1, <2>2, SameWay
    <3>2. \A l \in 0 .. Levels - 1 : l = 0 \/ l \in 1 .. Levels - 1
      BY <1>0
    <3>3. \A l \in 0 .. Levels - 1 : Index(q, l) = Index(call.page, l)
      BY <2>2, <3>1, <3>2
    <3>4. QED
      BY <1>4, <1>6, <3>3, SameIndices
  <2>3. \A k \in 0 .. Levels : PathIn(entry', r, q)[k] = PathIn(entry, r, q)[k]
    BY <1>0, <1>5, <2>2, SameWalk
  <2>4. QED
    BY <1>0, <2>3
<1>7. PathIn(entry', r, call.page)[Levels - 1] = PathIn(entry, r, call.page)[Levels - 1]
  <2>1. \A k \in 0 .. (Levels - 1) - 1 : k \in 0 .. Levels - 1 /\ k # Levels - 1
    BY <1>0
  <2>2. \A k \in 0 .. Levels - 1 :
          PathIn(entry', r, call.page)[k] = PathIn(entry, r, call.page)[k]
    BY <1>0, <1>4, <1>5, <2>1, SameWalk
  <2>3. QED
    BY <1>0, <2>2
<1> DEFINE above == PathIn(entry, r, call.page)[Levels - 1].rights
           rights == call.flags \cap above
<1>8. /\ PathIn(entry', r, call.page)[Levels].present
      /\ PathIn(entry', r, call.page)[Levels].frame = call.frame
      /\ PathIn(entry', r, call.page)[Levels].rights = rights
  BY <1>0, <1>2, <1>3, <1>4, <1>7, WalkOn
<1>9. asked = {call.flags} => rights = call.flags
  <2> SUFFICES ASSUME asked = {call.flags} PROVE call.flags \subseteq above
    OBVIOUS
  <2>1. \A f \in Frames : \A i \in Indices :
          entry[f][i].present => call.flags \subseteq entry[f][i].rights
    BY DEF MapInv, RightsAsked
  <2>2. QED
    BY <1>0, <1>4, <2>1, WalkRights
<1> HIDE DEF rights
<1> DEFINE new == [frame |-> call.frame, rights |-> rights]
<1>10. MapOf(entry', r) =
         [p \in DOMAIN MapOf(entry, r) \cup {call.page} |->
            IF p = call.page THEN new ELSE MapOf(entry, r)[p]]
  <2>1. DOMAIN MapOf(entry', r) = DOMAIN MapOf(entry, r) \cup {call.page}
    BY <1>4, <1>6, <1>8 DEF MapOf
  <2>2. ASSUME NEW q \in DOMAIN MapOf(entry, r) \cup {call.page}
        PROVE  MapOf(entry', r)[q] = IF q = call.page THEN new ELSE MapOf(entry, r)[q]
    BY <1>4, <1>6, <1>8 DEF MapOf
  <2>3. QED
    BY <2>1, <2>2 DEF MapOf
<1>11. rights \in SUBSET call.flags
  BY DEF rights
<1>12. QED
  BY <1>9, <1>10, <1>11

LEMMA WriteEntryStep ==
    ASSUME MapInv, WriteEntry
    PROVE  /\ CallOnItsWay' /\ RightsAsked' /\ Remembered'
           /\ [Flat!Next]_Flat!vars
<1>0. /\ TreeInv /\ UNCHANGED <<kernel_pml4, cr3, mapped, asked>>
      /\ call # Idle /\ call' = Idle /\ mapped # -1
      /\ entry \in [Frames -> [Indices -> EntryType]]
  BY DEF MapInv, WriteEntry, CallOnItsWay, TreeInv, PagingTypeOK, Idle
<1>1. CallOnItsWay'
  BY <1>0 DEF CallOnItsWay
<1>2. RightsAsked'
  <2>1. call.table \in Frames /\ Index(call.page, 0) \in Indices /\ call.flags \in asked
    BY <1>0, HereType DEF WriteEntry, MapInv, CallOnItsWay
  <2>2. ASSUME NEW g \in Frames, NEW i \in Indices, entry'[g][i].present
        PROVE  entry'[g][i].rights \in asked
    <3>1. CASE g = call.table /\ i = Index(call.page, 0)
      BY <1>0, <2>1, <3>1 DEF WriteEntry, Entry
    <3>2. CASE ~(g = call.table /\ i = Index(call.page, 0))
      <4>1. entry'[g][i] = entry[g][i]
        BY <1>0, <2>1, <3>2 DEF WriteEntry
      <4>2. QED
        BY <2>2, <4>1 DEF MapInv, RightsAsked
    <3>3. QED
      BY <3>1, <3>2
  <2>3. QED
    BY <1>0, <2>2 DEF RightsAsked
<1>3. CASE kernel_pml4 = NULL
  <2>1. cr3 = NULL /\ DOMAIN tlb' = {}
    BY <1>3 DEF MapInv, Remembered, WriteEntry
  <2>2. Remembered'
    BY <1>0, <2>1 DEF Remembered
  <2>3. TheCall' = {} /\ UNCHANGED TheMap
    BY <1>0, <1>3, MapStays DEF TheCall
  <2>4. QED
    BY <1>0, <1>1, <1>2, <1>3, <2>2, <2>3, FlatDrops
<1>4. CASE kernel_pml4 # NULL
  <2> DEFINE was == MapOf(entry, kernel_pml4)
             is  == MapOf(entry', kernel_pml4)
  <2>1. PICK rights \in SUBSET call.flags :
          /\ asked = {call.flags} => rights = call.flags
          /\ is = [p \in DOMAIN was \cup {call.page} |->
                     IF p = call.page THEN [frame |-> call.frame, rights |-> rights]
                     ELSE was[p]]
    BY <1>4, WriteEntryMap
  <2>2. TheMap = was /\ TheMap' = is
    BY <1>0, <1>4, TranslationIs DEF TheMap
  <2> HIDE DEF was, is
  <2>3. Remembered'
    <3>1. CASE cr3 = NULL
      BY <1>0, <3>1 DEF MapInv, Remembered, WriteEntry
    <3>2. CASE cr3 # NULL
      <4>1. cr3 = kernel_pml4 /\ cr3' = kernel_pml4' /\ kernel_pml4' = kernel_pml4
        BY <1>0, <3>2 DEF MapInv, Remembered
      <4>2. Translation(cr3) = was /\ Translation(cr3)' = is
        BY <4>1, TranslationIs DEF was, is
      <4>3. ASSUME NEW p \in DOMAIN tlb'
            PROVE  p \in DOMAIN is /\ tlb'[p] = is[p]
        <5>1. p \in DOMAIN tlb /\ p # call.page /\ tlb'[p] = tlb[p]
          BY <4>3 DEF WriteEntry
        <5>2. p \in DOMAIN was /\ tlb[p] = was[p]
          BY <4>2, <5>1 DEF MapInv, Remembered
        <5>3. QED
          BY <2>1, <5>1, <5>2
      <4>4. QED
        BY <4>1, <4>2, <4>3, <3>2 DEF Remembered
    <3>3. QED
      BY <3>1, <3>2
  <2> DEFINE r == [page |-> call.page, frame |-> call.frame, flags |-> call.flags]
  <2>4. TheCall = {r} /\ TheCall' = {}
    BY <1>0 DEF TheCall
  <2>5. [Flat!Next]_Flat!vars
    BY <1>0, <2>1, <2>2, <2>4, FlatGrants
  <2>6. QED
    BY <1>1, <1>2, <2>3, <2>5
<1>5. QED
  BY <1>3, <1>4

LEMMA LookupStep ==
    ASSUME MapInv, NEW q \in Pages, Lookup(q)
    PROVE  /\ CallOnItsWay' /\ RightsAsked' /\ Remembered'
           /\ [Flat!Next]_Flat!vars
<1>0. UNCHANGED <<free, entry, kernel_pml4, cr3, mapped, call, asked>> /\ cr3 # NULL
  BY DEF Lookup, tree
<1>1. CallOnItsWay' /\ RightsAsked'
  BY <1>0 DEF MapInv, CallOnItsWay, RightsAsked
<1>2. PICK kept \in SUBSET DOMAIN tlb :
        tlb' = [p \in kept \cup {q} |-> IF p = q THEN Translation(cr3)[q] ELSE tlb[p]]
  BY DEF Lookup
<1>3. q \in DOMAIN Translation(cr3)
  BY DEF Lookup, Walk, Translation
<1>4. Translation(cr3)' = Translation(cr3)
  BY <1>0, TranslationIs
<1>5. Remembered'
  BY <1>0, <1>2, <1>3, <1>4 DEF MapInv, Remembered
<1>6. TheCall' = TheCall
  BY <1>0 DEF TheCall
<1>7. QED
  BY <1>0, <1>1, <1>5, <1>6, QuietStep

LEMMA SwitchStep ==
    ASSUME MapInv, Switch
    PROVE  /\ CallOnItsWay' /\ RightsAsked' /\ Remembered'
           /\ [Flat!Next]_Flat!vars
<1>0. UNCHANGED <<free, entry, kernel_pml4, mapped, call, asked>>
  BY DEF Switch, tree
<1>1. CallOnItsWay' /\ RightsAsked'
  BY <1>0 DEF MapInv, CallOnItsWay, RightsAsked
<1>2. Remembered'
  BY <1>0 DEF Switch, Remembered
<1>3. TheCall' = TheCall
  BY <1>0 DEF TheCall
<1>4. QED
  BY <1>0, <1>1, <1>2, <1>3, QuietStep

LEMMA OthersStep ==
    ASSUME MapInv, OthersAlloc \/ \E f \in Frames : OthersFree(f)
    PROVE  /\ CallOnItsWay' /\ RightsAsked' /\ Remembered'
           /\ [Flat!Next]_Flat!vars
<1>0. UNCHANGED <<entry, kernel_pml4, cr3, tlb, mapped, call, asked>> /\ call = Idle
  BY DEF OthersAlloc, OthersFree
<1>1. CallOnItsWay' /\ RightsAsked'
  BY <1>0 DEF MapInv, CallOnItsWay, RightsAsked
<1>2. Remembered'
  BY <1>0, RememberedStays DEF MapInv
<1>3. TheCall' = TheCall
  BY <1>0 DEF TheCall
<1>4. QED
  BY <1>0, <1>1, <1>2, <1>3, QuietStep

\* Where vmm_init's loops are: within the addresses there are.
LEMMA InitMapStep ==
    ASSUME MapInv, InitMap
    PROVE  /\ CallOnItsWay' /\ RightsAsked' /\ Remembered'
           /\ [Flat!Next]_Flat!vars
<1> DEFINE p == IF mapped < Identity THEN mapped ELSE FbPage + mapped - Identity
<1>0. /\ mapped \in 0 .. Identity + FbPages - 1 /\ Begin(p, p, {"writable"})
      /\ mapped' = mapped + 1 /\ UNCHANGED <<tree, kernel_pml4, cr3, tlb>>
  BY DEF InitMap
<1>1. /\ Identity \in Nat /\ FbPage \in Nat /\ FbPages \in Nat /\ Span[Levels] \in Nat
      /\ Identity <= Span[Levels] /\ FbPage + FbPages <= Span[Levels]
      /\ {"writable"} \in FlagSets
  BY PagingAssumption, SpanStep
<1>2. p \in Pages /\ p \in Nat /\ mapped' # -1
  BY <1>0, <1>1 DEF Pages
<1> HIDE DEF p
<1>3. QED
  BY <1>0, <1>1, <1>2, BeginStep

LEMMA MapStep ==
    ASSUME MapInv, NEW p \in CallPages, NEW t \in Targets, NEW flags \in FlagSets, Map(p, t, flags)
    PROVE  /\ CallOnItsWay' /\ RightsAsked' /\ Remembered'
           /\ [Flat!Next]_Flat!vars
<1>1. p \in Pages /\ t \in Nat
  BY Constants
<1>2. kernel_pml4 # NULL /\ mapped' # -1
  BY DEF Map, MapInv, Remembered, CallOnItsWay
<1>3. QED
  BY <1>1, <1>2, BeginStep DEF Map

LEMMA NextFlat == MapInv /\ [PagingNext]_pagingVars => MapInv' /\ [Flat!Next]_Flat!vars
<1> SUFFICES ASSUME MapInv, [PagingNext]_pagingVars PROVE MapInv' /\ [Flat!Next]_Flat!vars
  OBVIOUS
<1>1. TreeInv'
  BY NextInv DEF MapInv
<1>2. CASE UNCHANGED pagingVars
  <2>1. CallOnItsWay' /\ RightsAsked' /\ Remembered'
    BY <1>2, RememberedStays DEF pagingVars, MapInv, CallOnItsWay, RightsAsked
  <2>2. TheCall' = TheCall
    BY <1>2 DEF pagingVars, TheCall
  <2>3. QED
    BY <1>1, <1>2, <2>1, <2>2, QuietStep DEF pagingVars, MapInv
<1>3. CASE PagingNext
  <2>1. /\ CallOnItsWay' /\ RightsAsked' /\ Remembered'
        /\ [Flat!Next]_Flat!vars
    BY <1>1, <1>3, AllocRootStep, InitMapStep, SwitchStep, MapStep, DescendStep, MakeTableStep,
       NoMemoryStep, FollowNullStep, WriteEntryStep, LookupStep, OthersStep DEF PagingNext
  <2>2. QED
    BY <1>1, <2>1 DEF MapInv
<1>4. QED
  BY <1>2, <1>3

LEMMA InitFlat == PagingInit => MapInv /\ Flat!Init
<1> SUFFICES ASSUME PagingInit PROVE MapInv /\ Flat!Init
  OBVIOUS
<1>1. CallOnItsWay /\ Remembered
  BY DEF PagingInit, CallOnItsWay, Remembered
<1>2. RightsAsked
  BY EntryTypes DEF PagingInit, RightsAsked, EmptyTable
<1>3. Flat!Init
  BY DEF PagingInit, Flat!Init
<1>4. QED
  BY <1>1, <1>2, <1>3, InitInv DEF MapInv

----------------------------------------------------------------------------

\* Whatever is mapped, in every order, with and without memory for the tables,
\* vmm_map's variables keep their types.
THEOREM PagingTypes == PagingSpec => []PagingTypeOK
<1>1. TreeInv => PagingTypeOK
  BY DEF TreeInv
<1>2. QED
  BY InitInv, NextInv, <1>1, PTL DEF PagingSpec

\* vmm_map's tables are a tree: a page that is a table is reached through one
\* entry, of a table one level up, and is never a page the allocator may give
\* to somebody else; also between two levels of a call, and when there was no
\* memory for one.
THEOREM TreeOfTables == PagingSpec => []TablesApart
<1>1. TreeInv => TablesApart
  BY DEF TreeInv, Apart, TablesApart
<1>2. QED
  BY InitInv, NextInv, <1>1, PTL DEF PagingSpec

\* The processor never goes by a translation that was replaced: whatever it has
\* remembered since, vmm_map's invlpg and the load of CR3 leave in the TLB only
\* what the tables say.
THEOREM TlbStaysFresh == PagingSpec => []TlbFresh
<1>1. MapInv => TlbFresh
  BY DEF MapInv, Remembered, TlbFresh
<1>2. MapInv /\ [PagingNext]_pagingVars => MapInv'
  BY NextFlat
<1>3. PagingInit => MapInv
  BY InitFlat
<1>4. QED
  BY <1>1, <1>2, <1>3, PTL DEF PagingSpec

\* vmm_map is a map of pages: at every step of every call the tables stand for a
\* flat map, of which a call changes its own page only, or nothing where memory
\* ran out; for any number of levels and entries of a table.
THEOREM ImplementsFlatMap == PagingSpec => IsFlatMap
<1>1. MapInv /\ [PagingNext]_pagingVars => MapInv' /\ [Flat!Next]_Flat!vars
  BY NextFlat
<1>2. PagingInit => MapInv /\ Flat!Init
  BY InitFlat
<1>3. QED
  BY <1>1, <1>2, PTL DEF PagingSpec, IsFlatMap, Flat!Spec
=============================================================================
