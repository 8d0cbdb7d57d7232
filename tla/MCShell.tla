------------------------------ MODULE MCShell ------------------------------
(* A ring of three lines of at most two characters.                          *)
EXTENDS Shell, Strings

const_HISTORY == <<"A">>
const_ECHO == <<"B">>
const_PROMPT == <<"[">>

\* With the prompt, lines fill a row, go on in a second one or stick.
const_Terminals ==
    {[columns |-> 2, wraps |-> TRUE], [columns |-> 2, wraps |-> FALSE],
     [columns |-> 3, wraps |-> TRUE]}

\* All lines of the ring together are no longer than this; where the screen is
\* astray, and LineShown says nothing until the next line, than that.
const_Remembered == 4
const_RememberedAstray == 2
ShortLines ==
    LET len[s \in 0 .. MAX_HISTORY] ==
          IF s = 0 THEN 0 ELSE len[s - 1] + Len(history[s - 1])
    IN  len[MAX_HISTORY] <= IF astray THEN const_RememberedAstray ELSE const_Remembered

\* The words of a line are what stands between its blanks.  Two things are
\* odd: a line that begins with a blank has an empty first word, and names no
\* command; and the last word there is room for keeps its blanks.
NoBlanks(l) == SelectSeq(l, LAMBDA c : c # Blank)
const_Long == 5

ASSUME WordsOfLines ==
    \A n \in 1 .. const_Long : \A l \in [1 .. n -> {Blank, "A", "B"}] :
      LET argv  == Argv(l)
          begin == {i \in 2 .. n : Begins(l, i)} \cup {1}
          text[k \in 0 .. Len(argv)] == IF k = 0 THEN <<>> ELSE text[k - 1] \o argv[k]
      IN  /\ Len(argv) <= MAX_ARGS
          /\ Len(argv) < MAX_ARGS => Len(argv) = Cardinality(begin)
          /\ NoBlanks(text[Len(argv)]) = NoBlanks(l)
          /\ \A k \in 1 .. Len(argv) :
               /\ k < MAX_ARGS => NoBlanks(argv[k]) = argv[k]
               /\ argv[k] = <<>> => k = 1 /\ l[1] = Blank
               /\ k > 1 => argv[k][1] # Blank
=============================================================================
