---------------------------- MODULE LineHistory ----------------------------
(***************************************************************************)
(* What the shell promises whoever types into it: a line to edit, and the  *)
(* last lines that were entered, oldest first, to go back to.  A line is   *)
(* remembered once when it is entered several times in a row.              *)
(*                                                                         *)
(* Going back replaces what was typed; coming forward again past the       *)
(* newest line keeps the line that was shown last, and not what was typed  *)
(* before (kernel/shell.c:434).                                            *)
(***************************************************************************)
EXTENDS Integers, Sequences

CONSTANTS
    Chars,          \* what can be typed into a line
    MaxLine,        \* the longest line
    MaxHistory,     \* how many lines are remembered
    Answer(_, _)    \* what a line prints, given the lines remembered

VARIABLES
    line,       \* what was typed so far
    lines,      \* what was entered, oldest first
    back,       \* how far the user has gone back; 0: not at all
    answer      \* what the last key printed, besides the line

Init == line = <<>> /\ lines = <<>> /\ back = 0 /\ answer = <<>>

Type(c) ==
    /\ Len(line) < MaxLine
    /\ line' = Append(line, c)
    /\ answer' = <<>>
    /\ UNCHANGED <<lines, back>>

Erase ==
    /\ line # <<>>
    /\ line' = SubSeq(line, 1, Len(line) - 1)
    /\ answer' = <<>>
    /\ UNCHANGED <<lines, back>>

Remembered ==
    IF lines # <<>> /\ lines[Len(lines)] = line THEN lines
    ELSE IF Len(lines) < MaxHistory THEN Append(lines, line)
    ELSE Append(Tail(lines), line)

Enter ==
    /\ line # <<>>
    /\ lines' = Remembered
    /\ answer' = Answer(line, lines')
    /\ line' = <<>>
    /\ back' = 0

Older ==
    /\ back < Len(lines)
    /\ back' = back + 1
    /\ line' = lines[Len(lines) - back]
    /\ answer' = <<>>
    /\ UNCHANGED lines

Newer ==
    /\ back > 0
    /\ back' = back - 1
    /\ line' = IF back = 1 THEN line ELSE lines[Len(lines) - back + 2]
    /\ answer' = <<>>
    /\ UNCHANGED lines

\* A key that does nothing yet, or nothing at all.
Ignore == answer' = <<>> /\ UNCHANGED <<line, lines, back>>

Next ==
    \/ \E c \in Chars : Type(c)
    \/ Erase \/ Enter \/ Older \/ Newer \/ Ignore

Spec == Init /\ [][Next]_<<line, lines, back, answer>>
=============================================================================
