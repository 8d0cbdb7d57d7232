------------------------------- MODULE Paging -------------------------------
(***************************************************************************)
(* The page tables of kernel/vmm.c: vmm_init builds the kernel's tree and  *)
(* loads it into CR3, vmm_map adds pages to it, the processor's TLB caches *)
(* what it has looked up.                                                  *)
(*                                                                         *)
(* vmm_map goes down the tree one level at a time, and takes a page of the *)
(* allocator where a table is missing; each get_next_level is a step, as   *)
(* the processor may look up an address between any two.  The allocator is *)
(* seen as its clear bits: pmm_alloc_page gives the lowest one, and module *)
(* Pmm says that it is nobody else's.                                      *)
(*                                                                         *)
(* Nobody looks whether a table could be allocated.  If not, what is at    *)
(* address 0 is taken for it, and may hold anything: what the kernel does  *)
(* next depends on it.                                                     *)
(***************************************************************************)
EXTENDS Integers, FiniteSets, TLC

CONSTANTS
    Levels,         \* levels of tables (4)
    Entries,        \* entries of a table (512)
    Frames,         \* the page numbers pmm_alloc_page may answer
    Targets,        \* frames callers map pages to
    CallPages,      \* pages callers map
    FlagSets,       \* the rights callers ask for
    Identity,       \* pages that vmm_init maps to themselves (0x40000)
    FbPage, FbPages,\* first page and number of pages of the frame buffer
    TlbSize         \* how many translations the processor remembers

NULL == 0

\* How many pages an entry of a table of a level stands for, 1 << (9 * l); and a
\* whole table, one level up.
Span[l \in 0 .. Levels] == IF l = 0 THEN 1 ELSE Entries * Span[l - 1]

Pages == 0 .. Span[Levels] - 1
Indices == 0 .. Entries - 1
AllRights == {"writable"} \cup UNION FlagSets
NoTable == -1

ASSUME PagingAssumption ==
    /\ Levels \in Nat \ {0} /\ Entries \in Nat \ {0}
    /\ Frames \subseteq Nat \ {NULL}
    /\ Targets \subseteq Nat /\ CallPages \subseteq Pages
    /\ TlbSize \in Nat \ {0}
    /\ Identity \in Nat /\ FbPage \in Nat /\ FbPages \in Nat
    /\ Identity <= Span[Levels] /\ FbPage + FbPages <= Span[Levels]
    /\ {"writable"} \in FlagSets

VARIABLES
    free,       \* the pages whose bits in the bitmap are clear
    entry,      \* entry[f][i]: what a page that is a table has at an index
    level,      \* which level a page is a table of, or NoTable
    kernel_pml4,
    cr3,        \* NULL: the firmware's tables are still loaded
    mapped,     \* how many pages vmm_init has mapped
    call,       \* where the vmm_map in progress is, or Idle
    tlb,        \* the translations the processor remembers
    asked,      \* the rights that were asked for
    events      \* "null": a table was not to be had; "wild": page 0 was followed

pagingVars == <<free, entry, level, kernel_pml4, cr3, mapped, call, tlb, asked, events>>
tree == <<free, entry, level>>

Absent == [present |-> FALSE, frame |-> NULL, rights |-> {}]
Entry(frame, flags) == [present |-> TRUE, frame |-> frame, rights |-> flags]
EmptyTable == [i \in Indices |-> Absent]

Idle == [page |-> 0, frame |-> 0, flags |-> {}, depth |-> NoTable, table |-> NULL]

----------------------------------------------------------------------------
(* Addresses.                                                              *)

\* Mutant: the shift is one level too far.
IndexAbove(p, l) == (p \div Span[l + 1]) % Entries

\* PT_IDX, PD_IDX, PDPT_IDX and PML4_IDX, by level.
Index(p, l) == (p \div Span[l]) % Entries

\* How the processor finds a page below a root: the entry k levels down, with
\* the rights all levels agree on.
PathIn(tables, root, p) ==
    LET down[k \in 0 .. Levels] ==
          IF k = 0 THEN Entry(root, AllRights)
          ELSE IF ~down[k - 1].present THEN Absent
          ELSE LET e == tables[down[k - 1].frame][Index(p, Levels - k)]
               IN  [e EXCEPT !.rights = @ \cap down[k - 1].rights]
    IN  down

Walk(root, p) == PathIn(entry, root, p)[Levels]

Translation(root) ==
    LET leaf == [p \in Pages |-> Walk(root, p)]
    IN  [p \in {q \in Pages : leaf[q].present} |->
            [frame |-> leaf[p].frame, rights |-> leaf[p].rights]]

----------------------------------------------------------------------------
(* vmm_init and vmm_map.                                                   *)

Lowest(f) == f \in free /\ \A g \in free : f <= g

\* Mutant: the page is not taken from the allocator.
TakeTableUnmarked(f, l) ==
    /\ Lowest(f)
    /\ UNCHANGED free
    /\ level' = [level EXCEPT ![f] = l]

\* pmm_alloc_zpage, for a table of a level.
TakeTable(f, l) ==
    /\ Lowest(f)
    /\ free' = free \ {f}
    /\ level' = [level EXCEPT ![f] = l]

\* vmm_init takes the root, which nobody looks at either.
AllocRoot ==
    /\ mapped = -1
    /\ mapped' = 0
    /\ \/ \E f \in free :
             /\ TakeTable(f, Levels - 1)
             /\ entry' = [entry EXCEPT ![f] = EmptyTable]
             /\ kernel_pml4' = f
       \/ free = {} /\ UNCHANGED <<tree, kernel_pml4>>
    /\ UNCHANGED <<cr3, call, tlb, asked, events>>

\* vmm_map begins.
Begin(p, frame, flags) ==
    /\ call = Idle
    /\ call' = [page |-> p, frame |-> frame, flags |-> flags,
                depth |-> Levels - 1, table |-> kernel_pml4]
    /\ asked' = asked \cup {flags}

\* The two loops of vmm_init: the first pages, then the frame buffer's.
InitMap ==
    /\ mapped \in 0 .. Identity + FbPages - 1
    /\ LET p == IF mapped < Identity THEN mapped ELSE FbPage + mapped - Identity
       IN  Begin(p, p, {"writable"})
    /\ mapped' = mapped + 1
    /\ UNCHANGED <<tree, kernel_pml4, cr3, tlb, events>>

\* vmm_switch_table: loading CR3 empties the TLB.  Without a root the
\* processor would look up addresses in page 0.
Switch ==
    /\ mapped = Identity + FbPages
    /\ call = Idle /\ cr3 = NULL
    /\ cr3' = kernel_pml4
    /\ tlb' = <<>>
    /\ events' = IF kernel_pml4 = NULL THEN events \cup {"wild"} ELSE events
    /\ UNCHANGED <<tree, kernel_pml4, mapped, call, asked>>

\* A caller of vmm_map, in the running kernel.
Map(p, frame, flags) ==
    /\ cr3 # NULL
    /\ Begin(p, frame, flags)
    /\ UNCHANGED <<tree, kernel_pml4, cr3, mapped, tlb, events>>

Here == entry[call.table][Index(call.page, call.depth)]
GoDown(f) == call' = [call EXCEPT !.depth = call.depth - 1, !.table = f]

\* get_next_level finds the table.
Descend ==
    /\ call.depth > 0 /\ call.table # NULL
    /\ Here.present
    /\ GoDown(Here.frame)
    /\ UNCHANGED <<tree, kernel_pml4, cr3, mapped, tlb, asked, events>>

\* get_next_level makes one, with the flags of this caller.
MakeTable ==
    /\ call.depth > 0 /\ call.table # NULL
    /\ ~Here.present
    /\ \E f \in free :
          /\ TakeTable(f, call.depth - 1)
          /\ entry' = [entry EXCEPT ![f] = EmptyTable,
                           ![call.table][Index(call.page, call.depth)] = Entry(f, call.flags)]
          /\ GoDown(f)
    /\ UNCHANGED <<kernel_pml4, cr3, mapped, tlb, asked, events>>

\* get_next_level returns NULL, which vmm_map takes for a table.
NoMemory ==
    /\ call.depth > 0 /\ call.table # NULL
    /\ ~Here.present /\ free = {}
    /\ GoDown(NULL)
    /\ events' = events \cup {"null"}
    /\ UNCHANGED <<tree, kernel_pml4, cr3, mapped, tlb, asked>>

\* At address 0: something that looks like an entry is followed, to anywhere;
\* or nothing, and there still is no memory, or the call ends with an entry
\* written to page 0.  With a page to be had (the root was NULL), page 0 gets it.
FollowNull ==
    /\ call # Idle /\ call.table = NULL
    /\ \/ /\ call.depth > 0
          /\ call' = Idle
          /\ events' = events \cup {"wild"}
          /\ UNCHANGED tree
       \/ /\ call.depth > 0 /\ free = {}
          /\ GoDown(NULL)
          /\ events' = events \cup {"null"}
          /\ UNCHANGED tree
       \/ /\ call.depth > 0
          /\ \E f \in free :
                /\ TakeTable(f, call.depth - 1)
                /\ entry' = [entry EXCEPT ![f] = EmptyTable]
                /\ GoDown(f)
          /\ events' = events \cup {"null"}
       \/ /\ call.depth = 0
          /\ call' = Idle
          /\ events' = events \cup {"null"}
          /\ UNCHANGED tree
    /\ UNCHANGED <<kernel_pml4, cr3, mapped, tlb, asked>>

\* Mutant: the TLB keeps what it had.
WriteEntryUnflushed ==
    /\ call.depth = 0 /\ call.table # NULL
    /\ entry' = [entry EXCEPT ![call.table][Index(call.page, 0)] =
                                 Entry(call.frame, call.flags)]
    /\ call' = Idle
    /\ UNCHANGED <<free, level, kernel_pml4, cr3, mapped, tlb, asked, events>>

\* The last level, and invlpg.  That the store and invlpg are one step is an
\* abstraction: a lookup between the two would find what was just stored.
WriteEntry ==
    /\ call.depth = 0 /\ call.table # NULL
    /\ entry' = [entry EXCEPT ![call.table][Index(call.page, 0)] =
                                 Entry(call.frame, call.flags)]
    /\ tlb' = [p \in DOMAIN tlb \ {call.page} |-> tlb[p]]
    /\ call' = Idle
    /\ UNCHANGED <<free, level, kernel_pml4, cr3, mapped, asked, events>>

----------------------------------------------------------------------------
(* Everybody else.                                                         *)

\* The processor looks an address up whenever it likes, and forgets some.
Lookup(p) ==
    /\ cr3 # NULL
    /\ p \notin DOMAIN tlb
    /\ Walk(cr3, p).present
    /\ \E kept \in SUBSET DOMAIN tlb :
          /\ Cardinality(kept) < TlbSize
          /\ tlb' = [q \in kept \cup {p} |-> IF q = p THEN Translation(cr3)[p] ELSE tlb[q]]
    /\ UNCHANGED <<tree, kernel_pml4, cr3, mapped, call, asked, events>>

\* Other callers of the allocator, between calls of vmm_map.
OthersAlloc ==
    /\ call = Idle
    /\ \E f \in free : Lowest(f) /\ free' = free \ {f}
    /\ UNCHANGED <<entry, level, kernel_pml4, cr3, mapped, call, tlb, asked, events>>

OthersFree(f) ==
    /\ call = Idle
    /\ f \notin free /\ level[f] = NoTable
    /\ free' = free \cup {f}
    /\ UNCHANGED <<entry, level, kernel_pml4, cr3, mapped, call, tlb, asked, events>>

PagingInit ==
    /\ free \in SUBSET Frames
    /\ entry = [f \in Frames |-> EmptyTable]
    /\ level = [f \in Frames |-> NoTable]
    /\ kernel_pml4 = NULL /\ cr3 = NULL
    /\ mapped = -1
    /\ call = Idle
    /\ tlb = <<>> /\ asked = {} /\ events = {}

PagingNext ==
    \/ AllocRoot \/ InitMap \/ Switch
    \/ \E p \in CallPages, t \in Targets, flags \in FlagSets : Map(p, t, flags)
    \/ Descend \/ MakeTable \/ NoMemory \/ FollowNull \/ WriteEntry
    \/ \E p \in Pages : Lookup(p)
    \/ OthersAlloc
    \/ \E f \in Frames : OthersFree(f)

PagingSpec == PagingInit /\ [][PagingNext]_pagingVars

----------------------------------------------------------------------------
(* Correctness.                                                            *)

EntryType == [present : BOOLEAN, frame : Nat, rights : SUBSET AllRights]

PagingTypeOK ==
    /\ free \subseteq Frames
    /\ entry \in [Frames -> [Indices -> EntryType]]
    /\ level \in [Frames -> NoTable .. Levels - 1]
    /\ kernel_pml4 \in Frames \cup {NULL} /\ cr3 \in Frames \cup {NULL}
    /\ mapped \in -1 .. Identity + FbPages
    /\ call \in [page : Nat, frame : Nat, flags : SUBSET AllRights,
                 depth : NoTable .. Levels - 1, table : Frames \cup {NULL}]
    /\ DOMAIN tlb \subseteq Pages
    /\ events \subseteq {"null", "wild"}

Sane == "wild" \notin events

\* Every table belongs to one place: an entry of a table one level up, and one
\* only, or the root.  No table is a page the allocator may give away again.
TablesApart ==
    Sane =>
      \A f, g \in Frames : \A i, j \in Indices :
        level[f] > 0 /\ entry[f][i].present =>
          LET t == entry[f][i].frame
          IN  /\ t \in Frames \ free
              /\ level[t] = level[f] - 1
              /\ level[g] > 0 /\ entry[g][j].present /\ entry[g][j].frame = t
                   => f = g /\ i = j

\* What makes them so: the call in progress is at a table of its level, the
\* root is of the highest, and a page that is a table is not free.
CallInTree ==
    /\ kernel_pml4 # NULL => level[kernel_pml4] = Levels - 1
    /\ call.table # NULL => call.depth # NoTable /\ level[call.table] = call.depth
    /\ \A f \in Frames : level[f] # NoTable => f \notin free

\* The processor never goes by a translation that was replaced, whenever it
\* looked it up.
TlbFresh ==
    Sane => \A p \in DOMAIN tlb :
              p \in DOMAIN Translation(cr3) /\ tlb[p] = Translation(cr3)[p]

\* The tree does what a flat map of the pages does, at every step of a call:
\* a call maps its page, or nothing if it ends without memory for a table, and
\* never changes another page.
Flat == INSTANCE FlatMap WITH
    Frames  <- Nat,
    short   <- free = {} \/ kernel_pml4 = NULL,
    map     <- IF kernel_pml4 # NULL THEN Translation(kernel_pml4) ELSE <<>>,
    asked   <- asked,
    request <- IF call = Idle THEN {}
               ELSE {[page |-> call.page, frame |-> call.frame, flags |-> call.flags]}

IsFlatMap == Flat!Spec
=============================================================================
