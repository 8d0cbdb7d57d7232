------------------------------ MODULE MCInput ------------------------------
(* Both shift keys for Input. *)
EXTENDS Input

CONSTANTS letter, caps, left, right

MCKeys == {left, right}

\* Bound: behaviours are followed up to their second event.
FewEvents == Cardinality(events) <= 1
=============================================================================
