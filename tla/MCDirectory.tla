---------------------------- MODULE MCDirectory ----------------------------
(* Names of one character and a root of two clusters for Directory. *)
EXTENDS Directory

\* "a" and "A", which are one name; "b"; and a character that says "deleted".
MCPaths == {<<97>>, <<65>>, <<98>>, <<229>>}

MCFile(p, c, text) == [path |-> p, attr |-> {}, file |-> c, cells |-> text]
MCFormatted == {<<MCFile(<<97>>, 1, <<1, 1, 1>>)>>}

\* Bound: behaviours are followed as long as the promise holds, and the root is
\* not listed while a file is open.
WhileSound == sound
OneHandle == ~(handle.open /\ lister.open)
FewAttributes ==
    Cardinality({i \in Slots : slots[i].attr # {}}) <= IF handle.open \/ lister.open THEN 0 ELSE 1
=============================================================================
