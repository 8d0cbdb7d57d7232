------------------------------ MODULE ByteFile ------------------------------
(***************************************************************************)
(* What the file half of drivers/fs/fat32.c promises a caller: a file is a *)
(* sequence of cells with a position in it, and what is saved of it on the *)
(* disk lags behind until it is closed.  FatFile implements this.          *)
(*                                                                         *)
(* The promise ends (ok becomes false) with a call or a failure the driver *)
(* does not cope with.                                                     *)
(***************************************************************************)
EXTENDS Integers, Sequences

CONSTANTS
    Cells,          \* what a cell of a file may hold
    MaxSize         \* bound on the size of the file

VARIABLES
    content,        \* the file as the caller sees it
    saved,          \* what a crash would leave of it
    position,       \* where the next read or write takes place
    isOpen,
    out,            \* what a read returned, in the state after it
    ok              \* the promise holds

vars == <<content, saved, position, isOpen, out, ok>>

Init ==
    /\ content = <<>> /\ saved = <<>> /\ out = <<>>
    /\ position = 0 /\ isOpen = FALSE /\ ok = TRUE

\* old with vs written over it, or past its end, from cell p on.
Overwritten(old, p, vs) ==
    [i \in 1 .. (IF p + Len(vs) > Len(old) THEN p + Len(vs) ELSE Len(old)) |->
        IF i > p /\ i <= p + Len(vs) THEN vs[i - p] ELSE old[i]]

\* What is saved once everything written is on the disk: the cells, but not
\* a new length.
Flushed == SubSeq(content, 1, Len(saved))

Open ==
    /\ out' = <<>> /\ ok /\ ~isOpen
    /\ isOpen' = TRUE
    /\ UNCHANGED <<content, saved, position, ok>>

Read ==
    /\ ok /\ isOpen
    /\ \E n \in 1 .. Len(content) - position :
          /\ out' = SubSeq(content, position + 1, position + n)
          /\ position' = position + n
    /\ UNCHANGED <<content, saved, isOpen, ok>>

\* What was written before may reach the disk on the way.
Write ==
    /\ out' = <<>> /\ ok /\ isOpen
    /\ \E n \in 1 .. MaxSize - position : \E v \in Cells :
          /\ content' = Overwritten(content, position, [i \in 1 .. n |-> v])
          /\ position' = position + n
    /\ saved' \in {saved, Flushed}
    /\ UNCHANGED <<isOpen, ok>>

Seek ==
    /\ out' = <<>> /\ ok /\ isOpen
    /\ position' \in 0 .. Len(content)
    /\ UNCHANGED <<content, saved, isOpen, ok>>

\* To a shorter length, behind the position.
Truncate ==
    /\ out' = <<>> /\ ok /\ isOpen
    /\ \E n \in position .. Len(content) - 1 :
          /\ content' = SubSeq(content, 1, n)
          /\ saved' = SubSeq(saved, 1, n)
    /\ UNCHANGED <<position, isOpen, ok>>

Flush ==
    /\ out' = <<>> /\ ok /\ isOpen
    /\ saved' = Flushed
    /\ UNCHANGED <<content, position, isOpen, ok>>

\* Everything is saved.
Close ==
    /\ out' = <<>> /\ ok /\ isOpen /\ Flushed = saved
    /\ saved' = content
    /\ isOpen' = FALSE /\ position' = 0
    /\ UNCHANGED <<content, ok>>

\* The file goes back to what is saved.
Crash ==
    /\ out' = <<>> /\ ok /\ isOpen
    /\ content' = saved
    /\ isOpen' = FALSE /\ position' = 0
    /\ UNCHANGED <<saved, ok>>

\* From here on nothing is promised.
Break ==
    /\ ok /\ isOpen
    /\ content' = <<>> /\ saved' = <<>> /\ out' = <<>>
    /\ position' = 0 /\ isOpen' = FALSE /\ ok' = FALSE

Next ==
    \/ Open \/ Read \/ Write \/ Seek \/ Truncate
    \/ Flush \/ Close \/ Crash \/ Break

Spec == Init /\ [][Next]_vars

=============================================================================
