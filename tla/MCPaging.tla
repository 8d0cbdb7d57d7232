------------------------------ MODULE MCPaging ------------------------------
(* Three levels of two entries: eight pages.  Of those callers map, one has  *)
(* its tables when vmm_init is done, and the other needs two more.          *)
EXTENDS Paging

const_FlagSets == {{"writable"}, {"writable", "user"}}

\* Once page 0 was followed anything may happen.
UntilWild == Sane

\* Once there is a root, other callers of the allocator have at most so many pages.
const_OthersHold == 1
FewOthers ==
    \/ kernel_pml4 = NULL
    \/ Cardinality({f \in Frames \ free : level[f] = NoTable}) <= const_OthersHold
=============================================================================
