------------------------------- MODULE FlatMap -------------------------------
(***************************************************************************)
(* What vmm_map promises its callers: page tables are a map from pages to  *)
(* the frame each was last mapped to, and the rights that go with it.      *)
(* Mapping a page leaves every other one as it is.                         *)
(*                                                                         *)
(* A page has no more rights than were asked for.  It has all of them as   *)
(* long as everybody asks for the same: the upper levels of the tree have  *)
(* the rights of whoever came first (kernel/vmm.c:17).                     *)
(***************************************************************************)
CONSTANTS
    Pages,      \* page numbers of virtual memory
    Frames,     \* page numbers of physical memory
    FlagSets    \* the rights callers may ask for, each a set

VARIABLES
    map,        \* map[p].frame and map[p].rights, for the pages that are mapped
    short,      \* whether there is no memory for a table, as others have it
    asked,      \* the rights that were asked for so far
    request     \* the call in progress, a set of one or none

Requests == [page : Pages, frame : Frames, flags : FlagSets]

Init == map = <<>> /\ asked = {} /\ request = {}

Ask(r) ==
    /\ request = {}
    /\ request' = {r}
    /\ asked' = asked \cup {r.flags}
    /\ UNCHANGED map

Grant(r) ==
    /\ r \in request
    /\ \E rights \in SUBSET r.flags :
          /\ asked = {r.flags} => rights = r.flags
          /\ map' = [p \in DOMAIN map \cup {r.page} |->
                        IF p = r.page THEN [frame |-> r.frame, rights |-> rights] ELSE map[p]]
    /\ request' = {}
    /\ UNCHANGED asked

\* There is no memory for a table.  Nobody is told.
Drop ==
    /\ short
    /\ request' = {}
    /\ UNCHANGED <<map, asked>>

Next ==
    \/ \E r \in request' \cap Requests : Ask(r)
    \/ \E r \in request : Grant(r)
    \/ Drop

\* Memory comes and goes.
vars == <<map, asked, request>>

Spec == Init /\ [][Next]_vars
=============================================================================
