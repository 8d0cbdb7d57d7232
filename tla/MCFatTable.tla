---------------------------- MODULE MCFatTable ----------------------------
(* A volume of three data clusters and two directory entries for FatTable. *)
EXTENDS FatTable

CONSTANTS h1

MCHandles == {h1}

\* Bound: behaviours are followed to their second event that is not recovered
\* from, and no further.
FewEvents == Cardinality(events) <= 1
=============================================================================
