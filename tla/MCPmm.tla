------------------------------- MODULE MCPmm -------------------------------
(* Small memory maps for Pmm: 8 pages below 16 MB, bitmap bytes of 8 pages. *)
EXTENDS Pmm, TLC

CONSTANTS c1, c2, c3

MCClients == {c1, c2, c3}

Desc(k, s, n) == [kind |-> k, start |-> s, pages |-> n]

\* Regions on byte boundaries.  In the first the bitmap finds a home above
\* 16 MB; in the second it finds none and stays at page 0.
AlignedMaps ==
    {<<Desc("conventional", 0, 8), Desc("other", 8, 8),
       Desc("conventional", 16, 24), Desc("bootservices", 40, 8)>>,
     <<Desc("bootservices", 8, 16), Desc("other", 24, 8)>>,
     <<Desc("bootservices", 16, 16)>>}

\* Regions that end inside a byte the next, reserved, region shares.
UnalignedMaps ==
    {<<Desc("conventional", 0, 8), Desc("conventional", 8, 16),
       Desc("bootservices", 25, 2), Desc("other", 27, 5)>>}

MCWorkloads == {{}, {1, 3, 7}}

LongRuns == {{8, 10}}

Sym == Permutations(MCClients)

AllMaps == AlignedMaps \cup UnalignedMaps
=============================================================================
