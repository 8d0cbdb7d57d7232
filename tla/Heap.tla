-------------------------------- MODULE Heap --------------------------------
(***************************************************************************)
(* The kernel heap of kernel/memory.c: kmalloc takes blocks off a 32 MB    *)
(* range, each behind a header of a size and a magic number; kfree checks  *)
(* the magic number and zeroes the block, which is never used again.       *)
(*                                                                         *)
(* The heap is modelled byte for byte, as offsets from HEAP_BASE_ADDR (a   *)
(* multiple of 8), with the callers that write to the blocks they hold.    *)
(* Sizes are uint32_t: sums wrap at Word32.                                *)
(***************************************************************************)
EXTENDS Integers, FiniteSets

CONSTANTS
    HeapSize,       \* HEAP_SIZE: 32 MB
    Word32,         \* 2^32
    Sizes,          \* the sizes callers pass to kmalloc
    Stamps          \* what callers write to their blocks

VARIABLES
    heap_used,      \* static uint32_t heap_used
    memory,         \* what every byte of the heap holds
    blocks          \* what kmalloc returned: pointer, size, what its caller
                    \* wrote last, and whether it was freed

heapVars == <<heap_used, memory, blocks>>

HeaderSize == 8     \* sizeof(alloc_info_t)
MagicAt == 4        \* offset of alloc_info_t.magic in the header

\* Values of a byte other than the stamps: what the memory held at boot, the
\* magic number, zero, and the size field, one value for every size.
Unwritten == [kind |-> "unwritten"]
Magic == [kind |-> "magic"]
Zeroed == [kind |-> "zeroed"]
SizeField(n) == [kind |-> "size", size |-> n]

ASSUME HeapAssumption ==
    /\ HeapSize \in Nat /\ HeapSize % 8 = 0
    /\ Word32 \in Nat /\ Word32 % 8 = 0 /\ HeapSize < Word32
    /\ Sizes \subseteq 1 .. Word32 - 1

----------------------------------------------------------------------------
\* Mutant: the header is not counted.
TotalSizeNoHeader(n) == ((n + 7) % Word32) - (((n + 7) % Word32) % 8)

\* The bytes kmalloc takes for a request: header and size, rounded up to 8,
\* in 32-bit arithmetic.
TotalSize(n) ==
    LET raw == (n + HeaderSize) % Word32
        up  == (raw + 7) % Word32
    IN  up - (up % 8)

\* The bytes of a block, and those of the block and its header.
Data(b) == b.ptr .. b.ptr + b.size - 1
Extent(b) == b.ptr - HeaderSize .. b.ptr + b.size - 1

HeapInit ==
    /\ heap_used = 0
    /\ memory = [i \in 0 .. HeapSize - 1 |-> Unwritten]
    /\ blocks = {}

\* kmalloc.  The test is a 32-bit sum too; a request that fails it gets NULL
\* and changes nothing.
Kmalloc(n) ==
    /\ (heap_used + TotalSize(n)) % Word32 <= HeapSize
    /\ memory' = [i \in 0 .. HeapSize - 1 |->
                     IF i >= heap_used /\ i < heap_used + MagicAt THEN SizeField(n)
                     ELSE IF i >= heap_used + MagicAt /\ i < heap_used + HeaderSize THEN Magic
                     ELSE memory[i]]
    /\ blocks' = blocks \cup
                    {[ptr |-> heap_used + HeaderSize, size |-> n,
                      stamp |-> Unwritten, freed |-> FALSE]}
    /\ heap_used' = (heap_used + TotalSize(n)) % Word32

\* A caller fills a block it holds.
Write(b, v) ==
    /\ ~b.freed
    /\ memory' = [i \in 0 .. HeapSize - 1 |-> IF i \in Data(b) THEN v ELSE memory[i]]
    /\ blocks' = (blocks \ {b}) \cup {[b EXCEPT !.stamp = v]}
    /\ UNCHANGED heap_used

\* Mutant: the block's whole extent is zeroed from the pointer on.
KfreeTooFar(b) ==
    /\ memory[b.ptr - HeaderSize + MagicAt] = Magic
    /\ \E n \in Sizes :
          /\ memory[b.ptr - HeaderSize] = SizeField(n)
          /\ memory' = [i \in 0 .. HeapSize - 1 |->
                           IF i >= b.ptr /\ i < b.ptr + TotalSize(n) THEN Zeroed ELSE memory[i]]
    /\ blocks' = (blocks \ {b}) \cup {[b EXCEPT !.stamp = Zeroed, !.freed = TRUE]}
    /\ UNCHANGED heap_used

\* Mutant: the room a block took is given back, wherever the block is.
KfreeReclaims(b) ==
    /\ memory[b.ptr - HeaderSize + MagicAt] = Magic
    /\ \E n \in Sizes :
          /\ memory[b.ptr - HeaderSize] = SizeField(n)
          /\ memory' = [i \in 0 .. HeapSize - 1 |->
                           IF i >= b.ptr /\ i < b.ptr + n THEN Zeroed ELSE memory[i]]
          /\ heap_used' = (heap_used - TotalSize(n)) % Word32
    /\ blocks' = blocks \ {b}

\* kfree of a block, or of one that was freed before: the size in the header
\* is the number of bytes zeroed.  The block stays taken.
Kfree(b) ==
    /\ memory[b.ptr - HeaderSize + MagicAt] = Magic
    /\ \E n \in Sizes :
          /\ memory[b.ptr - HeaderSize] = SizeField(n)
          /\ memory' = [i \in 0 .. HeapSize - 1 |->
                           IF i >= b.ptr /\ i < b.ptr + n THEN Zeroed ELSE memory[i]]
    /\ blocks' = (blocks \ {b}) \cup {[b EXCEPT !.stamp = Zeroed, !.freed = TRUE]}
    /\ UNCHANGED heap_used

HeapNext ==
    \/ \E n \in Sizes : Kmalloc(n)
    \/ \E b \in blocks : \/ \E v \in Stamps : Write(b, v)
                         \/ Kfree(b)

HeapSpec == HeapInit /\ [][HeapNext]_heapVars

----------------------------------------------------------------------------
(* Properties.                                                             *)

Values == {Unwritten, Magic, Zeroed} \cup {SizeField(n) : n \in Sizes} \cup Stamps

HeapTypeOK ==
    /\ heap_used \in 0 .. Word32 - 1
    /\ memory \in [0 .. HeapSize - 1 -> Values]
    /\ blocks \subseteq [ptr : Nat, size : Sizes, stamp : Values, freed : BOOLEAN]

\* The sizes whose sums do not wrap, whatever is already taken.
SizesFit == \A n \in Sizes : HeapSize + n + HeaderSize + 7 < Word32

\* Every block is inside the heap, below heap_used and aligned to 8 bytes, and
\* no two blocks share a byte, freed ones included.
BlocksApart ==
    /\ \A b \in blocks : Extent(b) \subseteq 0 .. heap_used - 1 /\ b.ptr % 8 = 0
    /\ heap_used <= HeapSize
    /\ \A b, d \in blocks : b # d => Extent(b) \cap Extent(d) = {}

\* What a caller wrote to its block is there until it frees it: neither an
\* allocation, nor a write to another block, nor the zeroing of another block,
\* even one freed twice, touches it.
ContentsKept ==
    \A b \in blocks : \A i \in Data(b) : b.stamp # Unwritten => memory[i] = b.stamp

\* Every header says what kmalloc wrote, so that kfree finds the magic number
\* and zeroes the block, no more and no less.
HeadersKept ==
    \A b \in blocks :
        /\ \A i \in b.ptr - HeaderSize .. b.ptr - HeaderSize + MagicAt - 1 :
              memory[i] = SizeField(b.size)
        /\ \A i \in b.ptr - HeaderSize + MagicAt .. b.ptr - 1 : memory[i] = Magic

=============================================================================
