------------------------------- MODULE MCHeap -------------------------------
EXTENDS Heap

CONSTANTS x, y

MCStamps == {x, y}
=============================================================================
