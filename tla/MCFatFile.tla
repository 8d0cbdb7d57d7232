----------------------------- MODULE MCFatFile -----------------------------
(* Sectors of two cells and three data clusters for FatFile. *)
EXTENDS FatFile, TLC

CONSTANTS a, b

MCStamps == {a, b}

Sym == Permutations(MCStamps)

\* Bound: behaviours are followed to the first event that ends the promise,
\* and after a seek to a cluster's start as long as reads come too late.
UntilBroken ==
    Calm \/ (events = {"boundary"} /\ AtEnd /\ handle.position < handle.size)
=============================================================================
