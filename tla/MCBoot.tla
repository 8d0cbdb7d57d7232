------------------------------- MODULE MCBoot -------------------------------
(* Up to three graphics modes for Boot. *)
EXTENDS Boot

\* Too low, just large enough, as wide and higher, the target, and one that is
\* larger than the target.
MCSizes == {[w |-> 1280, h |-> 720], Least, [w |-> 1024, h |-> 1280], Target,
            [w |-> 1920, h |-> 1200]}

MCModeLists == UNION {[1 .. n -> MCSizes] : n \in 1 .. 3}
=============================================================================
