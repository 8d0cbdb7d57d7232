--------------------------- MODULE TerminalProofs ---------------------------
(* What Terminal keeps for windows of every size, every greeting, every     *)
(* command's answer, and every interleaving of the main thread with keys    *)
(* and moves of the mouse, checked by TLAPS.                                *)
EXTENDS Terminal, WellFoundedInduction, TLAPS

----------------------------------------------------------------------------
(* One character.                                                          *)

Who == {"nobody", "text", "input", "pointer"}
Terms == [screen : [Places -> Who], col : Nat \ {0}, row : Nat]

LEMMA Sizes ==
    /\ Columns \in Nat /\ Columns >= 4 /\ LastRow \in Nat /\ LastRow >= 1
    /\ Inside \subseteq Places
    /\ \A p \in Places : p = <<p[1], p[2]>> /\ p[1] \in 1 .. Columns /\ p[2] \in 0 .. LastRow + 1
    /\ \A p \in Places : p \in Inside <=> p[1] <= Columns - 1 /\ p[2] <= LastRow
    /\ ~TooFar(1)
BY TerminalAssumption DEF Inside, Places, TooFar

LEMMA WidthRange == \A ch : Width(ch) \in {0, 1, 2}
BY DEF Width

LEMMA DrawnType ==
    ASSUME NEW s \in [Places -> Who], NEW c, NEW r, NEW n, NEW who \in Who
    PROVE  Drawn(s, c, r, n, who) \in [Places -> Who]
BY DEF Drawn

\* The glyph, before the test for the end of the line.
Glyph(t, ch, who) ==
    IF ch = "newline" THEN [t EXCEPT !.col = 1, !.row = @ + 1]
    ELSE [t EXCEPT !.screen = Drawn(@, t.col, t.row, Width(ch), who),
                   !.col = @ + Width(ch)]

LEMMA GlyphFields ==
    ASSUME NEW t \in Terms, NEW ch, NEW who \in Who
    PROVE  /\ Glyph(t, ch, who) \in Terms
           /\ IF ch = "newline"
              THEN /\ Glyph(t, ch, who).screen = t.screen
                   /\ Glyph(t, ch, who).col = 1
                   /\ Glyph(t, ch, who).row = t.row + 1
              ELSE /\ Glyph(t, ch, who).screen = Drawn(t.screen, t.col, t.row, Width(ch), who)
                   /\ Glyph(t, ch, who).col = t.col + Width(ch)
                   /\ Glyph(t, ch, who).row = t.row
<1>1. t.screen \in [Places -> Who] /\ t.col \in Nat \ {0} /\ t.row \in Nat
  BY DEF Terms
<1>2. Drawn(t.screen, t.col, t.row, Width(ch), who) \in [Places -> Who]
  BY <1>1, DrawnType
<1>3. t.col + Width(ch) \in Nat \ {0} /\ t.row + 1 \in Nat /\ 1 \in Nat \ {0}
  BY <1>1, WidthRange
<1>4. CASE ch = "newline"
  BY <1>1, <1>3, <1>4 DEF Glyph, Terms
<1>5. CASE ch # "newline"
  BY <1>1, <1>2, <1>3, <1>5 DEF Glyph, Terms
<1>6. QED
  BY <1>4, <1>5

LEMMA WrappedFields ==
    ASSUME NEW t \in Terms
    PROVE  /\ Wrapped(t) \in Terms /\ ~TooFar(Wrapped(t).col)
           /\ Wrapped(t).screen = t.screen
           /\ IF TooFar(t.col) THEN Wrapped(t).col = 1 /\ Wrapped(t).row = t.row + 1
              ELSE Wrapped(t) = t
<1>1. t.screen \in [Places -> Who] /\ t.row + 1 \in Nat /\ 1 \in Nat \ {0}
  BY DEF Terms
<1>2. CASE TooFar(t.col)
  <2>1. Wrapped(t) = [t EXCEPT !.col = 1, !.row = @ + 1]
    BY <1>2 DEF Wrapped
  <2>2. /\ Wrapped(t) \in Terms /\ Wrapped(t).screen = t.screen
        /\ Wrapped(t).col = 1 /\ Wrapped(t).row = t.row + 1
    BY <1>1, <2>1 DEF Terms
  <2>3. QED
    BY <1>2, <2>2, Sizes
<1>3. CASE ~TooFar(t.col)
  BY <1>3 DEF Wrapped
<1>4. QED
  BY <1>2, <1>3

LEMMA ScrolledFields ==
    ASSUME NEW t \in Terms
    PROVE  /\ Scrolled(t) \in Terms /\ Scrolled(t).row <= LastRow
           /\ Scrolled(t).col = t.col
           /\ IF t.row > LastRow THEN Scrolled(t).row = 0 /\ Scrolled(t).screen = Cleared(t.screen)
              ELSE Scrolled(t) = t
<1>1. /\ t.screen \in [Places -> Who] /\ t.col \in Nat \ {0} /\ t.row \in Nat
      /\ LastRow \in Nat /\ 0 \in Nat
  BY Sizes DEF Terms
<1>2. Cleared(t.screen) \in [Places -> Who]
  BY <1>1 DEF Cleared, Who
<1>3. CASE t.row > LastRow
  <2>1. Scrolled(t) = [t EXCEPT !.row = 0, !.screen = Cleared(@)]
    BY <1>3 DEF Scrolled
  <2>2. /\ Scrolled(t) \in Terms /\ Scrolled(t).screen = Cleared(t.screen)
        /\ Scrolled(t).col = t.col /\ Scrolled(t).row = 0
    BY <1>1, <1>2, <2>1 DEF Terms
  <2>3. QED
    BY <1>1, <1>3, <2>2
<1>4. CASE ~(t.row > LastRow)
  BY <1>1, <1>4 DEF Scrolled
<1>5. QED
  BY <1>3, <1>4

\* After a character the cursor is where any character fits.
LEMMA PutShape ==
    ASSUME NEW t \in Terms, NEW ch, NEW who \in Who
    PROVE  /\ Put(t, ch, who) \in Terms
           /\ ~TooFar(Put(t, ch, who).col) /\ Put(t, ch, who).row <= LastRow
           /\ Put(t, ch, who) = Scrolled(IF ch = "newline" THEN Glyph(t, ch, who)
                                         ELSE Wrapped(Glyph(t, ch, who)))
<1> DEFINE g == Glyph(t, ch, who)
           w == IF ch = "newline" THEN g ELSE Wrapped(g)
<1>1. Put(t, ch, who) = Scrolled(w)
  BY DEF Put, Glyph
<1>2. g \in Terms /\ (ch = "newline" => g.col = 1)
  BY GlyphFields
<1> HIDE DEF g
<1>3. w \in Terms /\ ~TooFar(w.col)
  BY <1>2, WrappedFields, Sizes
<1>4. QED
  <2> HIDE DEF w
  <2>1. Scrolled(w) \in Terms /\ ~TooFar(Scrolled(w).col) /\ Scrolled(w).row <= LastRow
    BY <1>3, ScrolledFields
  <2>2. QED
    BY <1>1, <2>1 DEF w, g

\* Blank behind the pointer, whose places with nobody's behind are P.
Void(t, p, P) == t.screen[p] = "nobody" \/ (t.screen[p] = "pointer" /\ p \in P)

Ahead(t, p) == p[2] > t.row \/ (p[2] = t.row /\ p[1] >= t.col)

\* Nothing outside the window and nothing from the cursor on.
Ready(t, P) == \A p \in Places : p \notin Inside \/ Ahead(t, p) => Void(t, p, P)

\* What a glyph leaves blank behind: all from the new cursor on.
LEMMA GlyphReady ==
    ASSUME NEW t \in Terms, NEW ch, NEW who \in Who, NEW P,
           ~TooFar(t.col), t.row <= LastRow, Ready(t, P)
    PROVE  Ready(Glyph(t, ch, who), P)
<1> DEFINE g == Glyph(t, ch, who)
<1>1. t.screen \in [Places -> Who] /\ t.col \in Nat \ {0} /\ t.row \in Nat
  BY DEF Terms
<1>2. CASE ch = "newline"
  <2>1. g.screen = t.screen /\ g.col = 1 /\ g.row = t.row + 1
    BY <1>2, GlyphFields
  <2> HIDE DEF g
  <2>2. ASSUME NEW p \in Places, p \notin Inside \/ Ahead(g, p) PROVE Void(g, p, P)
    <3>1. p \notin Inside \/ Ahead(t, p)
      BY <1>1, <2>1, <2>2, Sizes DEF Ahead
    <3>2. QED
      BY <2>1, <3>1 DEF Ready, Void
  <2>3. QED
    BY <2>2 DEF Ready, g
<1>3. CASE ch # "newline"
  <2>1. /\ g.screen = Drawn(t.screen, t.col, t.row, Width(ch), who)
        /\ g.col = t.col + Width(ch) /\ g.row = t.row
    BY <1>3, GlyphFields
  <2> HIDE DEF g
  <2>2. ASSUME NEW p \in Places, p \notin Inside \/ Ahead(g, p) PROVE Void(g, p, P)
    <3>1. p \notin Inside \/ Ahead(t, p)
      BY <1>1, <2>1, <2>2, Sizes, WidthRange DEF Ahead
    <3>2. ~(p[2] = t.row /\ p[1] >= t.col /\ p[1] < t.col + Width(ch))
      <4>1. CASE p \notin Inside
        BY <1>1, <4>1, Sizes, WidthRange DEF TooFar
      <4>2. CASE Ahead(g, p)
        BY <1>1, <2>1, <4>2, Sizes, WidthRange DEF Ahead
      <4>3. QED
        BY <2>2, <4>1, <4>2
    <3>3. g.screen[p] = t.screen[p]
      BY <2>1, <3>2 DEF Drawn
    <3>4. QED
      BY <3>1, <3>3 DEF Ready, Void
  <2>3. QED
    BY <2>2 DEF Ready, g
<1>4. QED
  BY <1>2, <1>3

LEMMA PutReady ==
    ASSUME NEW t \in Terms, NEW ch, NEW who \in Who, NEW P,
           ~TooFar(t.col), t.row <= LastRow, Ready(t, P)
    PROVE  Ready(Put(t, ch, who), P)
<1> DEFINE g == Glyph(t, ch, who)
           w == IF ch = "newline" THEN g ELSE Wrapped(g)
<1>1. g \in Terms /\ Ready(g, P)
  BY GlyphFields, GlyphReady
<1>2. Put(t, ch, who) = Scrolled(w)
  BY PutShape
<1> HIDE DEF g
<1>3. w \in Terms /\ Ready(w, P)
  <2>1. CASE w = g
    BY <1>1, <2>1
  <2>2. CASE w # g
    <3>1. w = Wrapped(g) /\ TooFar(g.col)
      BY <1>1, <2>2, WrappedFields
    <3>2. w \in Terms /\ w.screen = g.screen /\ w.col = 1 /\ w.row = g.row + 1
      BY <1>1, <3>1, WrappedFields
    <3>3. g.row \in Nat /\ g.col \in Nat
      BY <1>1 DEF Terms
    <3> HIDE DEF w
    <3>4. ASSUME NEW p \in Places, p \notin Inside \/ Ahead(w, p) PROVE Void(w, p, P)
      <4>1. p \notin Inside \/ Ahead(g, p)
        BY <3>2, <3>3, <3>4, Sizes DEF Ahead
      <4>2. QED
        BY <1>1, <3>2, <4>1 DEF Ready, Void
    <3>5. QED
      BY <3>2, <3>4 DEF Ready
  <2>3. QED
    BY <2>1, <2>2
<1> HIDE DEF w
<1>4. CASE w.row > LastRow
  <2>1. Scrolled(w).screen = Cleared(w.screen)
    BY <1>3, <1>4, ScrolledFields
  <2>2. ASSUME NEW p \in Places PROVE Void(Scrolled(w), p, P)
    <3>1. CASE p \in Inside
      BY <2>1, <3>1 DEF Cleared, Void
    <3>2. CASE p \notin Inside
      <4>1. Scrolled(w).screen[p] = w.screen[p]
        BY <2>1, <3>2 DEF Cleared
      <4>2. QED
        BY <1>3, <3>2, <4>1 DEF Ready, Void
    <3>3. QED
      BY <3>1, <3>2
  <2>3. QED
    BY <1>2, <2>2 DEF Ready
<1>5. CASE ~(w.row > LastRow)
  BY <1>2, <1>3, <1>5, ScrolledFields
<1>6. QED
  BY <1>4, <1>5

----------------------------------------------------------------------------
(* Many characters.                                                        *)

\* A set of numbers has a least one.
LEMMA Smallest ==
    ASSUME NEW S, S \subseteq Nat, S # {}
    PROVE  \E m \in S : \A k \in S : m <= k
<1> DEFINE R == OpToRel(<, Nat)
<1>1. IsWellFoundedOn(R, Nat)
  BY NatLessThanWellFounded
<1>2. \A j, k \in Nat : j < k => <<j, k>> \in R
  BY DEF OpToRel
<1> HIDE DEF R
<1>3. PICK m \in S : \A k \in S : ~(<<k, m>> \in R)
  BY <1>1, WFMin
<1>4. ASSUME NEW k \in S PROVE m <= k
  <2>1. m \in Nat /\ k \in Nat
    OBVIOUS
  <2>2. ~(k < m)
    BY <1>2, <1>3, <2>1
  <2>3. QED
    BY <2>1, <2>2
<1>5. QED
  BY <1>4

\* What holds of 0, and of each number after one it holds of, holds of n.
LEMMA UpTo ==
    ASSUME NEW S, NEW n \in Nat, 0 \in S, \A k \in 0 .. n - 1 : k \in S => k + 1 \in S
    PROVE  n \in S
<1> DEFINE T == {k \in 0 .. n : k \notin S}
<1>1. ASSUME T # {} PROVE FALSE
  <2>1. T \subseteq Nat
    OBVIOUS
  <2>2. PICK m \in T : \A k \in T : m <= k
    BY <1>1, <2>1, Smallest
  <2>3. m \in 1 .. n /\ m - 1 \in 0 .. n - 1 /\ (m - 1) + 1 = m
    BY <2>2
  <2>4. m - 1 \in S
    BY <2>2, <2>3
  <2>5. QED
    BY <2>2, <2>3, <2>4
<1>2. QED
  BY <1>1

\* u is the terminal after each of the first n characters.
Rounds(t, chars, n, u) ==
    u = [i \in 0 .. n |-> IF i = 0 THEN t ELSE Put(u[i - 1], chars[i], "text")]

\* The loop of term_puts, round by round.
LEMMA PutAllRounds ==
    ASSUME NEW t, NEW chars, Len(chars) \in Nat
    PROVE  \E u : /\ u[0] = t
                  /\ \A i \in 1 .. Len(chars) : u[i] = Put(u[i - 1], chars[i], "text")
                  /\ PutAll(t, chars) = u[Len(chars)]
<1> DEFINE L == Len(chars)
           S == {n \in 0 .. L : \E u : Rounds(t, chars, n, u)}
<1>0. L \in Nat
  OBVIOUS
<1>1. 0 \in S
  <2>1. Rounds(t, chars, 0, [i \in 0 .. 0 |-> t])
    BY DEF Rounds
  <2>2. QED
    BY <1>0, <2>1
<1>5. PutAll(t, chars) = (CHOOSE u : Rounds(t, chars, L, u))[L]
  BY DEF PutAll, Rounds
<1> HIDE DEF L
<1>2. ASSUME NEW n \in 0 .. L - 1, n \in S PROVE n + 1 \in S
  <2>1. PICK u : Rounds(t, chars, n, u)
    BY <1>2
  <2> DEFINE v == [i \in 0 .. n + 1 |-> IF i <= n THEN u[i] ELSE Put(u[n], chars[n + 1], "text")]
  <2>2. ASSUME NEW i \in 0 .. n + 1
        PROVE  v[i] = IF i = 0 THEN t ELSE Put(v[i - 1], chars[i], "text")
    <3>1. CASE i <= n
      BY <1>0, <2>1, <3>1 DEF Rounds
    <3>2. CASE i = n + 1
      <4>1. v[i - 1] = u[n] /\ v[i] = Put(u[n], chars[i], "text")
        BY <1>0, <3>2
      <4>2. QED
        BY <1>0, <3>2, <4>1
    <3>3. QED
      BY <1>0, <3>1, <3>2
  <2>3. Rounds(t, chars, n + 1, v)
    BY <2>2 DEF Rounds
  <2>4. QED
    BY <1>0, <2>3
<1> HIDE DEF S
<1>3. L \in S
  BY <1>0, <1>1, <1>2, UpTo
<1> DEFINE u == CHOOSE u : Rounds(t, chars, L, u)
<1>4. Rounds(t, chars, L, u)
  BY <1>3 DEF S
<1>6. PutAll(t, chars) = u[L]
  BY <1>5
<1> HIDE DEF u
<1>7. u[0] = t /\ \A i \in 1 .. L : u[i] = Put(u[i - 1], chars[i], "text")
  BY <1>0, <1>4 DEF Rounds
<1>8. QED
  BY <1>6, <1>7 DEF L

\* A text leaves the cursor where any character fits, and blank what was ahead.
LEMMA PutAllGood ==
    ASSUME NEW t \in Terms, NEW chars, Len(chars) \in Nat \ {0}, NEW P
    PROVE  /\ PutAll(t, chars) \in Terms
           /\ ~TooFar(PutAll(t, chars).col) /\ PutAll(t, chars).row <= LastRow
           /\ ~TooFar(t.col) /\ t.row <= LastRow /\ Ready(t, P) => Ready(PutAll(t, chars), P)
<1> DEFINE L == Len(chars)
           fits(v) == ~TooFar(v.col) /\ v.row <= LastRow
           start == fits(t) /\ Ready(t, P)
<1>1. PICK u : /\ u[0] = t
               /\ \A i \in 1 .. L : u[i] = Put(u[i - 1], chars[i], "text")
               /\ PutAll(t, chars) = u[L]
  BY PutAllRounds
<1>2. L \in Nat /\ L # 0 /\ "text" \in Who
  BY DEF Who
<1> HIDE DEF L
<1> DEFINE S == {i \in 0 .. L : /\ u[i] \in Terms
                                /\ i # 0 => fits(u[i])
                                /\ start => fits(u[i]) /\ Ready(u[i], P)}
<1>3. 0 \in S
  BY <1>1, <1>2
<1>4. ASSUME NEW k \in 0 .. L - 1, k \in S PROVE k + 1 \in S
  <2>1. k + 1 \in 1 .. L /\ (k + 1) - 1 = k /\ u[k] \in Terms
    BY <1>2, <1>4
  <2>2. PICK ch : u[k + 1] = Put(u[k], ch, "text")
    BY <1>1, <2>1
  <2>3. u[k + 1] \in Terms /\ fits(u[k + 1])
    BY <1>2, <2>1, <2>2, PutShape
  <2>4. start => Ready(u[k + 1], P)
    <3>1. start => fits(u[k]) /\ Ready(u[k], P)
      BY <1>4
    <3>2. QED
      BY <1>2, <2>1, <2>2, <3>1, PutReady
  <2>5. QED
    BY <1>2, <2>1, <2>3, <2>4
<1> HIDE DEF S
<1>5. L \in S
  BY <1>2, <1>3, <1>4, UpTo
<1>6. QED
  BY <1>1, <1>2, <1>5 DEF S

----------------------------------------------------------------------------
(* The cursor, whatever comes in between.                                  *)

\* Where the cursor may be at each step of term_puts: beyond the end of a row
\* only until the test, which finds out by the variable and by the register;
\* below the window only until it is cleared.
CursorInv ==
    /\ at # "wrap" => ~TooFar(col)
    /\ at = "wrap" => (TooFar(col) => TooFar(x))
    /\ at # "scroll" => row <= LastRow
    /\ at = "scroll" => (row > LastRow => y > LastRow)
    /\ at \in {"store", "wrap", "newline"} => y <= LastRow
    /\ at # "look" => ~Done

TypeInv == TypeOK /\ (\A q \in DOMAIN saved : saved[q] \in Who) /\ CursorInv

LEMMA NowType == ASSUME TypeInv PROVE Now \in Terms
BY DEF TypeInv, TypeOK, Now, Terms, Who

\* A character of a handler's leaves the cursor where any character fits,
\* whatever the main thread is at.
LEMMA BecomesGood ==
    ASSUME TypeInv, NEW t \in Terms, ~TooFar(t.col), t.row <= LastRow, Becomes(t),
           at' = at, x' = x, y' = y, printed' = printed, saved' = saved,
           g_input_index' \in 0 .. MaxLength - 1, early' \in BOOLEAN, inWay' \in BOOLEAN
    PROVE  TypeInv'
<1>1. t.screen \in [Places -> Who] /\ t.col \in Nat \ {0} /\ t.row \in Nat
  BY DEF Terms
<1>2. col' \in 1 .. Columns + 1 /\ row' \in 0 .. LastRow + 1
  BY <1>1, Sizes DEF Becomes, TooFar
<1>3. TypeOK'
  BY <1>1, <1>2 DEF TypeInv, TypeOK, Becomes, Who
<1>4. CursorInv'
  <2>1. ~TooFar(col') /\ row' <= LastRow
    BY DEF Becomes
  <2>2. ~(row' > LastRow)
    BY <1>2, <2>1, Sizes
  <2>3. QED
    BY <1>2, <2>1, Sizes DEF TypeInv, CursorInv, Done
<1>5. QED
  BY <1>3, <1>4 DEF TypeInv

LEMMA EnterText ==
    ASSUME TypeInv, Enter
    PROVE  \E chars : Len(chars) \in Nat \ {0} /\ Becomes(PutAll(Now, chars))
<1>1. PICK answer \in IF g_input_index = 0 THEN {<<>>} ELSE
         Replies \cup {<<"ascii">> \o [i \in 1 .. g_input_index |-> "ascii"] \o <<"newline">>} :
            Becomes(PutAll(Now, <<"newline">> \o answer \o Prompt))
  BY DEF Enter
<1>2. answer \in Seq(Characters)
  <2>1. g_input_index \in Nat
    BY TerminalAssumption DEF TypeInv, TypeOK
  <2>2. \A n \in Nat : [i \in 1 .. n |-> "ascii"] \in Seq(Characters)
    BY DEF Characters
  <2>3. [i \in 1 .. g_input_index |-> "ascii"] \in Seq(Characters)
    BY <2>1, <2>2
  <2>4. <<>> \in Seq(Characters) /\ <<"ascii">> \in Seq(Characters) /\ <<"newline">> \in Seq(Characters)
    BY DEF Characters
  <2>5. <<"ascii">> \o [i \in 1 .. g_input_index |-> "ascii"] \o <<"newline">> \in Seq(Characters)
    BY <2>3, <2>4
  <2>6. QED
    BY <1>1, <2>4, <2>5, TerminalAssumption
<1>3. Len(<<"newline">> \o answer \o Prompt) \in Nat \ {0}
  <2>1. \A s, p \in Seq(Characters) : Len(<<"newline">> \o s \o p) \in Nat \ {0}
    BY DEF Characters
  <2>2. QED
    BY <1>2, <2>1, TerminalAssumption
<1>4. QED
  BY <1>1, <1>3

LEMMA BackspaceFields ==
    ASSUME Backspace
    PROVE  /\ g_input_index > 0 /\ g_input_index' = g_input_index - 1 /\ row' = row
           /\ IF col > 1 THEN screen' = Drawn(screen, col - 1, row, 1, "nobody") /\ col' = col - 1
              ELSE screen' = screen /\ col' = col
<1>1. CASE col > 1
  <2> DEFINE t == [Now EXCEPT !.col = @ - 1, !.screen = Drawn(@, col - 1, row, 1, "nobody")]
  <2>1. Becomes(t)
    BY <1>1 DEF Backspace
  <2>2. t.screen = Drawn(screen, col - 1, row, 1, "nobody") /\ t.col = col - 1 /\ t.row = row
    BY DEF Now
  <2> HIDE DEF t
  <2>3. QED
    BY <1>1, <2>1, <2>2 DEF Becomes, Backspace
<1>2. CASE ~(col > 1)
  BY <1>2 DEF Backspace, term
<1>3. QED
  BY <1>1, <1>2

\* Keys.
LEMMA KeyType ==
    ASSUME TypeInv, Key
    PROVE  TypeInv'
<1>0. "input" \in Who /\ Now \in Terms /\ g_input_index \in 0 .. MaxLength - 1 /\ MaxLength \in Nat \ {0}
  BY NowType, TerminalAssumption DEF Who, TypeInv, TypeOK
<1>1. ASSUME Letter PROVE TypeInv'
  <2>1. PICK t \in Terms : t = Put(Now, "ascii", "input")
    BY <1>0, PutShape
  <2>3. ~TooFar(t.col) /\ t.row <= LastRow
    BY <1>0, <2>1, PutShape
  <2>4. Becomes(t) /\ g_input_index' \in 0 .. MaxLength - 1
    BY <1>0, <1>1, <2>1 DEF Letter
  <2>5. early' \in BOOLEAN /\ inWay' \in BOOLEAN
    BY <1>1 DEF Letter, Painted, TypeInv, TypeOK
  <2>6. QED
    BY <1>1, <2>3, <2>4, <2>5, BecomesGood DEF Letter, Painted
<1>2. ASSUME Enter PROVE TypeInv'
  <2>1. PICK chars : Len(chars) \in Nat \ {0} /\ Becomes(PutAll(Now, chars))
    BY <1>2, EnterText
  <2>2. PICK n \in Terms : n = Now
    BY <1>0
  <2>3. PICK t \in Terms : t = PutAll(n, chars) /\ ~TooFar(t.col) /\ t.row <= LastRow
    BY <2>1, PutAllGood
  <2>4. Becomes(t) /\ g_input_index' \in 0 .. MaxLength - 1
    BY <1>0, <1>2, <2>1, <2>2, <2>3 DEF Enter
  <2>5. early' \in BOOLEAN /\ inWay' \in BOOLEAN
    BY <1>2 DEF Enter, Painted, TypeInv, TypeOK
  <2>6. QED
    BY <1>2, <2>3, <2>4, <2>5, BecomesGood DEF Enter, Painted
<1>3. ASSUME Backspace PROVE TypeInv'
  <2>1. /\ g_input_index' \in 0 .. MaxLength - 1
        /\ at' = at /\ x' = x /\ y' = y /\ printed' = printed /\ saved' = saved /\ row' = row
        /\ early' \in BOOLEAN /\ inWay' \in BOOLEAN
    <3>1. at' = at /\ x' = x /\ y' = y /\ printed' = printed /\ saved' = saved
      BY <1>3 DEF Backspace, Painted
    <3>2. early' \in BOOLEAN /\ inWay' \in BOOLEAN
      BY <1>3 DEF Backspace, Painted, TypeInv, TypeOK
    <3>3. QED
      BY <1>0, <1>3, <3>1, <3>2, BackspaceFields
  <2>2. col' \in 1 .. Columns + 1 /\ col' <= col /\ col \in 1 .. Columns + 1
    BY <1>3, Sizes, BackspaceFields DEF TypeInv, TypeOK
  <2>3. screen' \in [Places -> Who]
    <3>1. "nobody" \in Who /\ screen \in [Places -> Who]
      BY DEF TypeInv, TypeOK, Who
    <3>2. screen' = screen \/ screen' = Drawn(screen, col - 1, row, 1, "nobody")
      BY <1>3, BackspaceFields
    <3>3. QED
      BY <3>1, <3>2, DrawnType
  <2>4. TooFar(col') => TooFar(col)
    BY <2>2, Sizes DEF TooFar
  <2>5. QED
    BY <2>1, <2>2, <2>3, <2>4 DEF TypeInv, TypeOK, Who, CursorInv, Done
<1>4. QED
  BY <1>1, <1>2, <1>3 DEF Key

\* The main thread.
LEMMA MainType ==
    ASSUME TypeInv, Main
    PROVE  TypeInv'
<1>0. /\ col \in 1 .. Columns + 1 /\ row \in 0 .. LastRow + 1 /\ x \in 1 .. Columns + 1
      /\ y \in 0 .. LastRow + 1 /\ printed \in 0 .. Len(Greeting) /\ Len(Greeting) \in Nat
      /\ "nobody" \in Who /\ "text" \in Who /\ screen \in [Places -> Who]
      /\ inWay \in BOOLEAN /\ (early \in BOOLEAN)
  BY TerminalAssumption DEF TypeInv, TypeOK, Who
<1>1. ASSUME Look PROVE TypeInv'
  BY <1>0, <1>1, Sizes DEF Look, term, TypeInv, TypeOK, CursorInv, Done
<1>2. ASSUME Draw PROVE TypeInv'
  <2>1. screen' \in [Places -> Who]
    BY <1>0, <1>2, DrawnType DEF Draw
  <2>2. inWay' \in BOOLEAN /\ saved' = saved
    BY <1>0, <1>2 DEF Draw, Painted
  <2>3. QED
    BY <1>0, <1>2, <2>1, <2>2 DEF Draw, TypeInv, TypeOK, CursorInv, Done, Who
<1>3. ASSUME Fetch PROVE TypeInv'
  <2>1. ~TooFar(col) /\ row <= LastRow
    BY <1>3 DEF Fetch, TypeInv, CursorInv
  <2>2. x' \in 1 .. Columns + 1
    BY <1>0, <1>3, <2>1, Sizes, WidthRange DEF Fetch, TooFar
  <2>3. QED
    BY <1>0, <1>3, <2>1, <2>2, Sizes DEF Fetch, term, TypeInv, TypeOK, CursorInv, Done
<1>4. ASSUME Store PROVE TypeInv'
  BY <1>0, <1>4, Sizes DEF Store, TypeInv, TypeOK, CursorInv, Done
<1>5. ASSUME NextRow, at \in {"wrap", "newline"}, at' = "scroll",
             UNCHANGED <<screen, g_input_index, printed, x, early, saved, inWay>>
      PROVE  TypeInv'
  <2>1. row <= LastRow /\ y <= LastRow /\ ~Done
    BY <1>5 DEF TypeInv, CursorInv
  <2>2. col' = 1 /\ row' \in 0 .. LastRow + 1 /\ y' = row'
    BY <1>0, <1>5, <2>1, Sizes DEF NextRow
  <2>3. TypeOK'
    BY <1>0, <1>5, <2>2, Sizes DEF TypeInv, TypeOK
  <2>4. CursorInv'
    BY <1>5, <2>1, <2>2, Sizes DEF CursorInv, Done
  <2>5. QED
    BY <1>5, <2>3, <2>4 DEF TypeInv
<1>6. ASSUME Newline PROVE TypeInv'
  BY <1>5, <1>6 DEF Newline
<1>7. ASSUME Wrap PROVE TypeInv'
  <2>1. PICK c \in {x, col} : IF TooFar(c) THEN NextRow ELSE UNCHANGED <<col, row, y>>
    BY <1>7 DEF Wrap
  <2>2. CASE TooFar(c)
    BY <1>5, <1>7, <2>1, <2>2 DEF Wrap
  <2>3. CASE ~TooFar(c)
    <3>1. ~TooFar(col) /\ row <= LastRow
      BY <1>7, <2>3 DEF Wrap, TypeInv, CursorInv
    <3>2. QED
      BY <1>0, <1>7, <2>1, <2>3, <3>1, Sizes DEF Wrap, TypeInv, TypeOK, CursorInv, Done
  <2>4. QED
    BY <2>2, <2>3
<1>8. ASSUME Scroll PROVE TypeInv'
  <2>1. PICK r \in {y, row} : IF r > LastRow THEN screen' = Cleared(screen) /\ row' = 0
                              ELSE UNCHANGED <<screen, row>>
    BY <1>8 DEF Scroll
  <2>2. at = "scroll" /\ ~TooFar(col) /\ ~Done /\ (row > LastRow => y > LastRow)
    BY <1>8 DEF Scroll, TypeInv, CursorInv
  <2>3. row' \in 0 .. LastRow
    BY <1>0, <2>1, <2>2, Sizes
  <2>4. screen' \in [Places -> Who]
    BY <1>0, <2>1 DEF Cleared
  <2>5. inWay' \in BOOLEAN /\ saved' = saved
    BY <1>0, <1>8 DEF Scroll, Painted
  <2>6. printed' \in 0 .. Len(Greeting)
    BY <1>0, <1>8, <2>2 DEF Scroll, Done
  <2>7. QED
    BY <1>0, <1>8, <2>2, <2>3, <2>4, <2>5, <2>6, Sizes DEF Scroll, TypeInv, TypeOK, CursorInv, Who
<1>9. QED
  BY <1>1, <1>2, <1>3, <1>4, <1>6, <1>7, <1>8 DEF Main

\* The pointer.
LEMMA MouseType ==
    ASSUME TypeInv, NEW p \in Spots, on_mouse_update(p)
    PROVE  TypeInv'
<1>1. screen \in [Places -> Who] /\ "pointer" \in Who /\ inWay \in BOOLEAN
  BY DEF TypeInv, TypeOK, Who
<1>2. PICK s : /\ s = restore_mouse_background(screen)
               /\ saved' = save_mouse_background(s, p) /\ screen' = draw_mouse_cursor(s, p)
  BY DEF on_mouse_update
<1>3. s \in [Places -> Who]
  BY <1>1, <1>2 DEF restore_mouse_background, TypeInv
<1>4. screen' \in [Places -> Who]
  BY <1>1, <1>2, <1>3 DEF draw_mouse_cursor
<1>5. CursorAt(p) \subseteq Places
  BY DEF CursorAt
<1>6. DOMAIN saved' \subseteq Places /\ \A q \in DOMAIN saved' : saved'[q] \in Who
  BY <1>2, <1>3, <1>5 DEF save_mouse_background
<1>7. inWay' \in BOOLEAN
  BY <1>1 DEF on_mouse_update, Moves
<1>8. UNCHANGED <<col, row, g_input_index, printed, at, x, y, early>>
  BY DEF on_mouse_update, Moves
<1>9. QED
  BY <1>4, <1>6, <1>7, <1>8 DEF TypeInv, TypeOK, CursorInv, Done, Who

LEMMA TypeInvHolds == Spec => []TypeInv
<1>1. Init => TypeInv
  <2> SUFFICES ASSUME Init PROVE TypeInv
    OBVIOUS
  <2>1. PICK under \in {{}} \cup {CursorAt(p) : p \in Spots} :
            saved = [q \in under |-> "nobody"] /\ inWay = (under # {})
    BY DEF Init
  <2>2. under \subseteq Places
    BY DEF CursorAt
  <2>3. DOMAIN saved \subseteq Places /\ inWay \in BOOLEAN /\ \A q \in DOMAIN saved : saved[q] \in Who
    BY <2>1, <2>2 DEF Who
  <2>4. Len(Greeting) \in Nat /\ MaxLength \in Nat \ {0}
    BY TerminalAssumption
  <2>5. TypeOK
    <3>1. /\ screen = [p \in Places |-> "nobody"] /\ col = 1 /\ row = 0 /\ g_input_index = 0
          /\ printed = 0 /\ at = "look" /\ x = 1 /\ y = 0
      BY DEF Init
    <3>2. early \in BOOLEAN
      BY DEF Init
    <3>3. QED
      BY <2>3, <2>4, <3>1, <3>2, Sizes DEF TypeOK
  <2>6. CursorInv
    BY Sizes DEF Init, CursorInv
  <2>7. QED
    BY <2>3, <2>5, <2>6 DEF TypeInv
<1>2. TypeInv /\ [Next]_vars => TypeInv'
  <2> SUFFICES ASSUME TypeInv, [Next]_vars PROVE TypeInv'
    OBVIOUS
  <2>1. CASE UNCHANGED vars
    BY <2>1 DEF vars, term, TypeInv, TypeOK, CursorInv, Done
  <2>2. QED
    BY <2>1, KeyType, MainType, MouseType DEF Next
<1>3. QED
  BY <1>1, <1>2, PTL DEF Spec

\* For windows of every size, every greeting and every command's answer: the
\* cursor, term_puts's registers, the line's length and what is kept from under
\* the pointer stay what they are, whenever keys and moves come in between.
THEOREM TerminalTypes == Spec => []TypeOK
<1>1. TypeInv => TypeOK
  BY DEF TypeInv
<1>2. QED
  BY <1>1, TypeInvHolds, PTL

----------------------------------------------------------------------------
(* The text, as long as no key is early and the pointer is let alone.      *)

\* While nothing was drawn over the pointer it is on the screen where it was
\* put; of keys, none came before the greeting was out; and the main thread's
\* registers hold what the variables do.
RegistersInv ==
    /\ \A q \in DOMAIN saved : screen[q] = "pointer"
    /\ ~Done => g_input_index = 0
    /\ at # "look" => y = row
    /\ at \in {"draw", "fetch", "wrap"} => x = col
    /\ at = "store" => x = col + Width(Next_ch)

\* Where the next glyph goes: to the cursor, or past the glyph already drawn.
Pen == IF at \in {"fetch", "store"} THEN col + Width(Next_ch) ELSE col

\* Nothing is outside the window, and nothing from the pen on.
BlankInv ==
    \A p \in Places :
        p \notin Inside \/ p[2] > row \/ (p[2] = row /\ p[1] >= Pen) => Beneath[p] = "nobody"

\* As far back in this row as there are characters typed, no text is found.
TypedInv ==
    \A c \in 1 .. col - 1 : c >= col - g_input_index => Beneath[<<c, row>>] # "text"

TermInv == Clean => RegistersInv /\ BlankInv /\ TypedInv

LEMMA BeneathAt ==
    ASSUME NEW q \in Places
    PROVE  /\ Beneath[q] = IF q \in DOMAIN saved THEN saved[q] ELSE screen[q]
           /\ Beneath'[q] = IF q \in DOMAIN saved' THEN saved'[q] ELSE screen'[q]
BY DEF Beneath, restore_mouse_background

\* The places whose pointer has nobody's drawing behind it.
Hidden == {q \in DOMAIN saved : saved[q] = "nobody"}

\* What is drawn and leaves the pointer alone changes nothing behind it.
LEMMA PaintedKeeps ==
    ASSUME Painted, ~inWay', \A q \in DOMAIN saved : screen[q] = "pointer"
    PROVE  /\ ~inWay /\ saved' = saved
           /\ \A q \in DOMAIN saved' : screen'[q] = "pointer"
           /\ \A q \in Places :
                 IF q \in DOMAIN saved
                 THEN Beneath'[q] = Beneath[q] /\ screen'[q] = "pointer" /\ screen[q] = "pointer"
                 ELSE Beneath'[q] = screen'[q] /\ Beneath[q] = screen[q]
<1>1. ~inWay /\ saved' = saved /\ \A q \in DOMAIN saved : screen'[q] = screen[q]
  BY DEF Painted
<1>2. QED
  BY <1>1, BeneathAt

LEMMA VoidIsBlank ==
    ASSUME Painted, ~inWay', \A q \in DOMAIN saved : screen[q] = "pointer",
           NEW t \in Terms, t.screen = screen', NEW s \in Terms, s.screen = screen,
           NEW q \in Places
    PROVE  /\ Void(s, q, Hidden) <=> Beneath[q] = "nobody"
           /\ Void(t, q, Hidden) <=> Beneath'[q] = "nobody"
BY PaintedKeeps, BeneathAt DEF Void, Hidden

\* Between characters, the terminal is ready for another.
LEMMA NowReady ==
    ASSUME TypeInv, RegistersInv, BlankInv, ~inWay, at = "look"
    PROVE  Now \in Terms /\ ~TooFar(Now.col) /\ Now.row <= LastRow /\ Ready(Now, Hidden)
<1>1. /\ Now \in Terms /\ Now.screen = screen /\ Now.col = col /\ Now.row = row
      /\ ~TooFar(col) /\ row <= LastRow /\ Pen = col
  BY NowType DEF Now, TypeInv, CursorInv, Pen
<1>2. ASSUME NEW p \in Places, p \notin Inside \/ Ahead(Now, p) PROVE Void(Now, p, Hidden)
  <2>1. Beneath[p] = "nobody"
    BY <1>1, <1>2 DEF BlankInv, Ahead
  <2>2. QED
    BY <1>1, <2>1, BeneathAt DEF Void, Hidden, RegistersInv
<1>3. QED
  BY <1>1, <1>2 DEF Ready

\* A key that draws characters.
LEMMA BecomesBlank ==
    ASSUME TypeInv, RegistersInv, at = "look", Painted, ~inWay', at' = at,
           NEW t \in Terms, Becomes(t), NEW P, P = Hidden, Ready(t, P)
    PROVE  BlankInv'
<1>1. PICK s \in Terms : s = Now
  BY NowType
<1>2. s.screen = screen /\ t.screen = screen' /\ t.col = col' /\ t.row = row' /\ Pen' = col'
  BY <1>1 DEF Now, Becomes, Pen
<1>3. ASSUME NEW p \in Places,
             p \notin Inside \/ p[2] > row' \/ (p[2] = row' /\ p[1] >= Pen')
      PROVE  Beneath'[p] = "nobody"
  <2>1. Void(t, p, Hidden)
    BY <1>2, <1>3 DEF Ready, Ahead
  <2>2. QED
    BY <1>2, <2>1, VoidIsBlank DEF RegistersInv
<1>4. QED
  BY <1>3 DEF BlankInv

LEMMA NoneBefore == \A k \in Nat : \A c \in 1 .. k - 1 : ~(c >= k - 0)
OBVIOUS

\* When the line is empty there is nothing to be found.
LEMMA NothingTyped ==
    ASSUME col' \in Nat, g_input_index' = 0
    PROVE  TypedInv'
<1>1. PICK k \in Nat : k = col'
  OBVIOUS
<1>2. \A c \in 1 .. k - 1 : ~(c >= k - 0)
  BY NoneBefore
<1>3. QED
  BY <1>1, <1>2, Zenon DEF TypedInv

LEMMA KeyTerm ==
    ASSUME TypeInv, TermInv, Key, Clean'
    PROVE  RegistersInv' /\ BlankInv' /\ TypedInv'
<1>0. /\ Done /\ ~early /\ ~inWay' /\ Painted /\ at' = at /\ x' = x /\ y' = y /\ printed' = printed
  BY DEF Key, Letter, Enter, Backspace, Clean
<1>1. at = "look" /\ ~inWay
  BY <1>0 DEF TypeInv, CursorInv, Painted
<1>2. RegistersInv /\ BlankInv /\ TypedInv
  BY <1>0, <1>1 DEF TermInv, Clean
<1>3. RegistersInv'
  BY <1>0, <1>1, <1>2, PaintedKeeps DEF RegistersInv, Done
<1>4. /\ col \in 1 .. Columns /\ row \in 0 .. LastRow /\ g_input_index \in Nat
      /\ ~TooFar(col) /\ LastRow \in Nat
  BY <1>1, Sizes, TerminalAssumption DEF TypeInv, TypeOK, CursorInv, TooFar
<1>5. PICK P : P = Hidden
  OBVIOUS
<1>6. PICK s \in Terms : /\ s = Now /\ ~TooFar(s.col) /\ s.row <= LastRow /\ Ready(s, P)
  BY <1>1, <1>2, <1>5, NowReady
<1>7. s.screen = screen /\ s.col = col /\ s.row = row
  BY <1>6 DEF Now
<1>8. CASE Letter
  <2>0. "input" \in Who
    BY DEF Who
  <2>1. PICK t \in Terms : t = Put(s, "ascii", "input") /\ Ready(t, P)
    BY <1>6, <2>0, PutShape, PutReady
  <2>2. Becomes(t) /\ g_input_index' = g_input_index + 1
    BY <1>6, <1>8, <2>1 DEF Letter
  <2>3. BlankInv'
    BY <1>0, <1>1, <1>2, <1>5, <2>1, <2>2, BecomesBlank
  <2>4. \/ col' = 1
        \/ col' = col + 1 /\ row' = row /\ screen' = Drawn(screen, col, row, 1, "input")
    <3> DEFINE g == Glyph(s, "ascii", "input")
    <3>1. /\ g \in Terms /\ g.screen = Drawn(screen, col, row, 1, "input")
          /\ g.col = col + 1 /\ g.row = row
      BY <1>7, <2>0, GlyphFields DEF Width
    <3>2. t = Scrolled(Wrapped(g))
      BY <2>0, <2>1, PutShape
    <3> HIDE DEF g
    <3>3. Wrapped(g) \in Terms
      BY <3>1, WrappedFields
    <3>4. t.col = Wrapped(g).col
      BY <3>2, <3>3, ScrolledFields
    <3>5. CASE TooFar(g.col)
      BY <2>2, <3>1, <3>4, <3>5, WrappedFields DEF Becomes
    <3>6. CASE ~TooFar(g.col)
      <4>1. Wrapped(g) = g /\ ~(g.row > LastRow)
        BY <1>4, <3>1, <3>6, WrappedFields
      <4>2. t = g
        BY <3>1, <3>2, <4>1, ScrolledFields
      <4>3. QED
        BY <2>2, <3>1, <4>2 DEF Becomes
    <3>7. QED
      BY <3>5, <3>6
  <2>5. ASSUME NEW c \in 1 .. col' - 1, c >= col' - g_input_index'
        PROVE  Beneath'[<<c, row'>>] # "text"
    <3>1. col' = col + 1 /\ row' = row /\ screen' = Drawn(screen, col, row, 1, "input")
      BY <2>4, <2>5
    <3>2. c \in 1 .. col /\ c >= col - g_input_index
      BY <1>4, <2>2, <2>5, <3>1
    <3>3. PICK q \in Places : q = <<c, row>> /\ q[1] = c /\ q[2] = row
      <4>1. c \in 1 .. Columns /\ row \in 0 .. LastRow + 1
        BY <1>4, <3>2, Sizes
      <4>2. <<c, row>> \in Places
        BY <4>1 DEF Places
      <4>3. QED
        BY <4>2
    <3>4. CASE c = col
      <4>1. screen'[q] = "input"
        BY <3>1, <3>3, <3>4, <1>4 DEF Drawn
      <4>2. QED
        BY <1>0, <1>2, <3>1, <3>3, <4>1, PaintedKeeps DEF RegistersInv
    <3>5. CASE c # col
      <4>1. c \in 1 .. col - 1
        BY <1>4, <3>2, <3>5
      <4>2. screen'[q] = screen[q]
        BY <1>4, <3>1, <3>3, <4>1 DEF Drawn
      <4>3. Beneath[q] # "text"
        BY <1>2, <3>2, <3>3, <4>1 DEF TypedInv
      <4>4. QED
        BY <1>0, <1>2, <3>1, <3>3, <4>2, <4>3, PaintedKeeps DEF RegistersInv
    <3>6. QED
      BY <3>4, <3>5
  <2>6. QED
    BY <1>3, <2>3, <2>5 DEF TypedInv
<1>9. CASE Enter
  <2>1. PICK chars : Len(chars) \in Nat \ {0} /\ Becomes(PutAll(Now, chars))
    BY <1>9, EnterText
  <2>2. PICK t \in Terms : t = PutAll(s, chars) /\ Ready(t, P)
    BY <1>6, <2>1, PutAllGood
  <2>3. Becomes(t) /\ g_input_index' = 0
    BY <1>6, <1>9, <2>1, <2>2 DEF Enter
  <2>4. BlankInv'
    BY <1>0, <1>1, <1>2, <1>5, <2>2, <2>3, BecomesBlank
  <2>5. col' \in Nat
    BY <2>3 DEF Becomes, Terms
  <2>6. TypedInv'
    BY <2>3, <2>5, NothingTyped
  <2>7. QED
    BY <1>3, <2>4, <2>6
<1>10. CASE Backspace
  <2>1. /\ g_input_index' = g_input_index - 1 /\ row' = row /\ g_input_index > 0
        /\ IF col > 1 THEN screen' = Drawn(screen, col - 1, row, 1, "nobody") /\ col' = col - 1
           ELSE screen' = screen /\ col' = col
    BY <1>10, BackspaceFields
  <2>2. Pen = col /\ Pen' = col'
    BY <1>0, <1>1 DEF Pen
  <2>3. ASSUME NEW p \in Places
        PROVE  Beneath'[p] = "nobody" \/ Beneath'[p] = Beneath[p]
    <3>1. screen'[p] = screen[p] \/ screen'[p] = "nobody"
      BY <2>1 DEF Drawn
    <3>2. QED
      BY <1>0, <1>2, <3>1, PaintedKeeps DEF RegistersInv
  <2>4. ASSUME NEW p \in Places,
               p \notin Inside \/ p[2] > row' \/ (p[2] = row' /\ p[1] >= Pen')
        PROVE  Beneath'[p] = "nobody"
    <3>1. CASE p \notin Inside \/ p[2] > row \/ (p[2] = row /\ p[1] >= col)
      BY <1>2, <2>2, <2>3, <3>1 DEF BlankInv
    <3>2. CASE ~(p \notin Inside \/ p[2] > row \/ (p[2] = row /\ p[1] >= col))
      <4>1. p[2] = row /\ p[1] = col - 1 /\ col > 1
        BY <1>4, <2>1, <2>2, <2>4, <3>2, Sizes
      <4>2. screen'[p] = "nobody"
        BY <1>4, <2>1, <4>1 DEF Drawn
      <4>3. QED
        BY <1>0, <1>2, <4>2, PaintedKeeps DEF RegistersInv
    <3>3. QED
      BY <3>1, <3>2
  <2>5. ASSUME NEW c \in 1 .. col' - 1, c >= col' - g_input_index'
        PROVE  Beneath'[<<c, row'>>] # "text"
    <3>1. c \in 1 .. col - 1 /\ c >= col - g_input_index
      BY <1>4, <2>1, <2>5
    <3>2. <<c, row>> \in Places
      BY <1>4, <3>1, Sizes DEF Places
    <3>3. QED
      BY <1>2, <2>1, <2>3, <3>1, <3>2 DEF TypedInv
  <2>6. QED
    BY <1>3, <2>4, <2>5 DEF BlankInv, TypedInv
<1>11. QED
  BY <1>8, <1>9, <1>10 DEF Key


LEMMA MainTerm ==
    ASSUME TypeInv, TermInv, Main, Clean'
    PROVE  RegistersInv' /\ BlankInv' /\ TypedInv'
<1>0. ~Done /\ Clean
  <2>1. ~Done
    BY DEF Main, Look, Draw, Fetch, Store, Newline, Wrap, Scroll, TypeInv, CursorInv
  <2>2. early' = early /\ (inWay' = inWay \/ Painted)
    BY DEF Main, Look, Draw, Fetch, Store, Newline, Wrap, Scroll
  <2>3. inWay => inWay'
    BY <2>2 DEF Painted
  <2>4. QED
    BY <2>1, <2>2, <2>3 DEF Clean
<1>1. RegistersInv /\ BlankInv /\ g_input_index = 0
  BY <1>0 DEF TermInv, RegistersInv
<1>2. /\ col \in Nat /\ row \in Nat /\ Columns \in Nat /\ LastRow \in Nat
      /\ (at # "wrap" => col + 2 <= Columns) /\ (at # "scroll" => row <= LastRow)
  BY Sizes DEF TypeInv, TypeOK, CursorInv, TooFar
<1>3. TypedInv'
  <2>1. g_input_index' = g_input_index
    BY DEF Main, Look, Draw, Fetch, Store, Newline, Wrap, Scroll
  <2>2. col' \in Nat
    BY MainType DEF TypeInv, TypeOK
  <2>3. QED
    BY <1>1, <2>1, <2>2, NothingTyped
\* What draws nothing.
<1>4. ASSUME UNCHANGED <<screen, saved>>,
             \A p \in Places : p[2] > row' \/ (p[2] = row' /\ p[1] >= Pen')
                               => p[2] > row \/ (p[2] = row /\ p[1] >= Pen)
      PROVE  BlankInv'
  <2>1. \A p \in Places : Beneath'[p] = Beneath[p]
    BY <1>4, BeneathAt
  <2>2. QED
    BY <1>1, <1>4, <2>1 DEF BlankInv
<1>5. CASE Look
  <2>1. /\ UNCHANGED <<screen, col, row, g_input_index, printed, saved>> /\ y' = row
        /\ at = "look" /\ at' \in {"newline", "draw"} /\ x' = col
    BY <1>5 DEF Look, term
  <2>2. RegistersInv'
    BY <1>1, <2>1 DEF RegistersInv, Done
  <2>3. Pen' = Pen
    BY <2>1 DEF Pen
  <2>4. QED
    BY <1>3, <1>4, <2>1, <2>2, <2>3
<1>6. CASE Draw
  <2>1. /\ Painted /\ ~inWay' /\ at = "draw" /\ at' = "fetch"
        /\ UNCHANGED <<col, row, x, y, printed, g_input_index>>
        /\ screen' = Drawn(screen, col, row, Width(Next_ch), "text")
    BY <1>1, <1>6 DEF Draw, Clean, RegistersInv
  <2>2. RegistersInv'
    BY <1>1, <2>1, PaintedKeeps DEF RegistersInv, Done
  <2>3. Pen = col /\ Pen' = col + Width(Next_ch)
    BY <2>1 DEF Pen, Next_ch
  <2>4. ASSUME NEW p \in Places, p \notin Inside \/ p[2] > row' \/ (p[2] = row' /\ p[1] >= Pen')
        PROVE  Beneath'[p] = "nobody"
    <3>1. p \notin Inside \/ p[2] > row \/ (p[2] = row /\ p[1] >= Pen)
      BY <1>2, <2>1, <2>3, <2>4, Sizes, WidthRange
    <3>2. ~(p[2] = row /\ p[1] >= col /\ p[1] < col + Width(Next_ch))
      BY <1>2, <2>1, <2>3, <2>4, Sizes, WidthRange
    <3>3. Beneath[p] = "nobody" /\ screen'[p] = screen[p]
      BY <1>1, <2>1, <3>1, <3>2 DEF BlankInv, Drawn
    <3>4. QED
      BY <1>1, <2>1, <3>3, PaintedKeeps DEF RegistersInv
  <2>5. QED
    BY <1>3, <2>2, <2>4 DEF BlankInv
<1>7. CASE Fetch
  <2>1. RegistersInv'
    BY <1>1, <1>7 DEF Fetch, term, RegistersInv, Done, Next_ch
  <2>2. Pen' = Pen
    BY <1>7 DEF Fetch, term, Pen, Next_ch
  <2>3. QED
    BY <1>3, <1>4, <1>7, <2>1, <2>2 DEF Fetch, term
<1>8. CASE Store
  <2>1. RegistersInv'
    BY <1>1, <1>8 DEF Store, RegistersInv, Done
  <2>2. Pen' = Pen
    BY <1>1, <1>8 DEF Store, Pen, RegistersInv
  <2>3. QED
    BY <1>3, <1>4, <1>8, <2>1, <2>2 DEF Store
<1>9. ASSUME at \in {"newline", "wrap"}, at' = "scroll", row' = row + 1, col' = 1, y' = row',
             UNCHANGED <<screen, saved, g_input_index, printed>>
      PROVE  RegistersInv' /\ BlankInv'
  <2>1. RegistersInv'
    BY <1>1, <1>9 DEF RegistersInv, Done
  <2>2. Pen = col /\ Pen' = 1
    BY <1>9 DEF Pen
  <2>3. \A p \in Places : p[2] > row' \/ (p[2] = row' /\ p[1] >= Pen')
                          => p[2] > row \/ (p[2] = row /\ p[1] >= Pen)
    BY <1>2, <1>9, Sizes
  <2>4. QED
    BY <1>4, <1>9, <2>1, <2>3
<1>10. CASE Newline
  <2>1. y = row
    BY <1>1, <1>10 DEF Newline, RegistersInv
  <2>2. QED
    BY <1>3, <1>9, <1>10, <2>1 DEF Newline, NextRow
<1>11. CASE Wrap
  <2>1. y = row /\ x = col
    BY <1>1, <1>11 DEF Wrap, RegistersInv
  <2>2. CASE TooFar(col)
    BY <1>3, <1>9, <1>11, <2>1, <2>2 DEF Wrap, NextRow
  <2>3. CASE ~TooFar(col)
    <3>1. UNCHANGED <<col, row, y>> /\ at' = "scroll"
      BY <1>11, <2>1, <2>3 DEF Wrap
    <3>2. RegistersInv'
      BY <1>1, <1>11, <2>1, <3>1 DEF Wrap, RegistersInv, Done
    <3>3. Pen' = Pen
      BY <1>11, <3>1 DEF Wrap, Pen
    <3>4. QED
      BY <1>3, <1>4, <1>11, <3>1, <3>2, <3>3 DEF Wrap
  <2>4. QED
    BY <2>2, <2>3
<1>12. CASE Scroll
  <2>1. /\ Painted /\ ~inWay' /\ at = "scroll" /\ at' = "look" /\ y = row
        /\ col' = col /\ g_input_index' = g_input_index
        /\ IF row > LastRow THEN screen' = Cleared(screen) /\ row' = 0
           ELSE UNCHANGED <<screen, row>>
    BY <1>1, <1>12 DEF Scroll, Clean, RegistersInv
  <2>2. RegistersInv'
    BY <1>1, <2>1, PaintedKeeps DEF RegistersInv
  <2>3. Pen = col /\ Pen' = col
    BY <2>1 DEF Pen
  <2>4. CASE row > LastRow
    <3>1. ASSUME NEW p \in Places PROVE Beneath'[p] = "nobody"
      <4>1. CASE p \in Inside
        <5>1. screen'[p] = "nobody"
          BY <2>1, <2>4, <4>1 DEF Cleared
        <5>2. QED
          BY <1>1, <2>1, <5>1, PaintedKeeps DEF RegistersInv
      <4>2. CASE p \notin Inside
        <5>1. screen'[p] = screen[p] /\ Beneath[p] = "nobody"
          BY <1>1, <2>1, <2>4, <4>2 DEF Cleared, BlankInv
        <5>2. QED
          BY <1>1, <2>1, <5>1, PaintedKeeps DEF RegistersInv
      <4>3. QED
        BY <4>1, <4>2
    <3>2. QED
      BY <1>3, <2>2, <3>1 DEF BlankInv
  <2>5. CASE ~(row > LastRow)
    BY <1>3, <1>4, <2>1, <2>2, <2>3, <2>5 DEF Painted
  <2>6. QED
    BY <2>4, <2>5
<1>13. QED
  BY <1>3, <1>5, <1>6, <1>7, <1>8, <1>10, <1>11, <1>12 DEF Main

\* Where the pointer was, what it hid is back; where it is, that is kept.
LEMMA MouseBeneath ==
    ASSUME screen \in [Places -> Who], NEW p \in Spots, on_mouse_update(p)
    PROVE  /\ Beneath' = Beneath
           /\ \A q \in DOMAIN saved' : screen'[q] = "pointer"
<1>1. PICK s : /\ s = restore_mouse_background(screen)
               /\ saved' = save_mouse_background(s, p) /\ screen' = draw_mouse_cursor(s, p)
  BY DEF on_mouse_update
<1>2. s = Beneath /\ CursorAt(p) \subseteq Places
  BY <1>1 DEF Beneath, CursorAt
<1>3. DOMAIN saved' = CursorAt(p) /\ \A q \in CursorAt(p) : saved'[q] = s[q] /\ screen'[q] = "pointer"
  BY <1>1, <1>2 DEF save_mouse_background, draw_mouse_cursor
<1>4. \A q \in Places \ CursorAt(p) : screen'[q] = s[q]
  BY <1>1 DEF draw_mouse_cursor
<1>5. \A q \in Places : Beneath'[q] = s[q]
  BY <1>3, <1>4, BeneathAt
<1>6. /\ Beneath = [q \in Places |-> Beneath[q]]
      /\ Beneath' = [q \in Places |-> Beneath'[q]]
  BY DEF Beneath, restore_mouse_background
<1>7. QED
  BY <1>2, <1>3, <1>5, <1>6

LEMMA MouseTerm ==
    ASSUME TypeInv, TermInv, NEW p \in Spots, on_mouse_update(p), Clean'
    PROVE  RegistersInv' /\ BlankInv' /\ TypedInv'
<1>1. /\ Beneath' = Beneath /\ \A q \in DOMAIN saved' : screen'[q] = "pointer"
  BY MouseBeneath DEF TypeInv, TypeOK, Who
<1>2. UNCHANGED <<col, row, g_input_index, printed, at, x, y, early>> /\ Clean
  BY DEF on_mouse_update, Moves, Clean
<1>3. RegistersInv /\ BlankInv /\ TypedInv
  BY <1>2 DEF TermInv
<1>4. RegistersInv'
  BY <1>1, <1>2, <1>3 DEF RegistersInv, Done, Next_ch
<1>5. Pen' = Pen
  BY <1>2 DEF Pen, Next_ch
<1>6. QED
  BY <1>1, <1>2, <1>3, <1>4, <1>5 DEF BlankInv, TypedInv

LEMMA TermInvHolds == Spec => []TermInv
<1>1. Init => TermInv
  <2> SUFFICES ASSUME Init, Clean PROVE RegistersInv /\ BlankInv /\ TypedInv
    BY DEF TermInv
  <2>1. saved = [q \in {} |-> "nobody"]
    BY DEF Init, Clean
  <2>2. /\ screen = [p \in Places |-> "nobody"] /\ col = 1 /\ row = 0 /\ g_input_index = 0
        /\ at = "look" /\ x = 1 /\ y = 0 /\ Pen = 1
    BY DEF Init, Pen
  <2>3. RegistersInv
    BY <2>1, <2>2 DEF RegistersInv
  <2>4. BlankInv
    BY <2>1, <2>2, BeneathAt DEF BlankInv
  <2>5. TypedInv
    BY <2>2 DEF TypedInv
  <2>6. QED
    BY <2>3, <2>4, <2>5
<1>2. TypeInv /\ TermInv /\ [Next]_vars => TermInv'
  <2> SUFFICES ASSUME TypeInv, TermInv, [Next]_vars PROVE TermInv'
    OBVIOUS
  <2>1. CASE UNCHANGED vars
    <3>1. /\ UNCHANGED <<screen, col, row, g_input_index, printed, at, x, y, early, saved, inWay>>
      BY <2>1 DEF vars, term
    <3>2. Beneath' = Beneath /\ Pen' = Pen
      BY <3>1 DEF Beneath, restore_mouse_background, Pen, Next_ch
    <3>3. QED
      BY <3>1, <3>2 DEF TermInv, Clean, RegistersInv, BlankInv, TypedInv, Done, Next_ch
  <2>2. CASE Next
    BY <2>2, KeyTerm, MainTerm, MouseTerm DEF Next, TermInv
  <2>3. QED
    BY <2>1, <2>2
<1>3. QED
  BY <1>1, <1>2, TypeInvHolds, PTL DEF Spec

\* Between characters the cursor is where any character fits, and without early
\* keys nothing is drawn outside the window.
THEOREM TextStaysInside == Spec => []TextFits
<1>1. TypeInv /\ TermInv => TextFits
  BY DEF TypeInv, CursorInv, TermInv, BlankInv, TextFits
<1>2. QED
  BY <1>1, TypeInvHolds, TermInvHolds, PTL

\* Text is never drawn over text: what comes next finds blanks only.
THEOREM NothingIsOverwritten == Spec => []BlankAhead
<1>1. TypeInv /\ TermInv => BlankAhead
  <2> SUFFICES ASSUME TermInv, Clean, at = "look", NEW p \in Inside,
                      p[2] > row \/ (p[2] = row /\ p[1] >= col)
               PROVE  Beneath[p] = "nobody"
    BY DEF BlankAhead
  <2>1. Pen = col /\ p \in Places
    BY Sizes DEF Pen
  <2>2. QED
    BY <2>1 DEF TermInv, BlankInv
<1>2. QED
  BY <1>1, TypeInvHolds, TermInvHolds, PTL

\* Characters are taken back to the prompt and no further.
THEOREM BackspaceSparesText == Spec => PromptKept
<1>1. TypeInv /\ TermInv /\ [Next]_vars
      => [Clean /\ ~inWay' /\ Done /\ Backspace =>
            \A p \in Places : Beneath[p] = "text" => Beneath'[p] = "text"]_vars
  <2> SUFFICES ASSUME TypeInv, TermInv, Clean, ~inWay', Done, Backspace,
                      NEW p \in Places, Beneath[p] = "text"
               PROVE  Beneath'[p] = "text"
    OBVIOUS
  <2>1. RegistersInv /\ TypedInv /\ Painted
    BY DEF TermInv, Backspace
  <2>2. /\ g_input_index > 0
        /\ IF col > 1 THEN screen' = Drawn(screen, col - 1, row, 1, "nobody")
           ELSE screen' = screen
    BY BackspaceFields
  <2>3. col \in Nat /\ row \in Nat /\ g_input_index \in Nat
    BY Sizes, TerminalAssumption DEF TypeInv, TypeOK
  <2>4. screen'[p] = screen[p]
    <3>1. CASE col > 1 /\ p[2] = row /\ p[1] = col - 1
      <4>1. col - 1 \in 1 .. col - 1 /\ col - 1 >= col - g_input_index /\ p = <<col - 1, row>>
        BY <2>2, <2>3, <3>1, Sizes
      <4>2. QED
        BY <2>1, <4>1 DEF TypedInv
    <3>2. CASE ~(col > 1 /\ p[2] = row /\ p[1] = col - 1)
      BY <2>2, <2>3, <3>2, Sizes DEF Drawn
    <3>3. QED
      BY <3>1, <3>2
  <2>5. QED
    BY <2>1, <2>4, PaintedKeeps DEF RegistersInv
<1>2. QED
  BY <1>1, TypeInvHolds, TermInvHolds, PTL DEF Spec, PromptKept

\* Wherever the mouse moves to, what is behind its pointer stays as it was.
THEOREM PointerIsNoEraser == Spec => PointerLeavesNoTrace
<1>1. TypeInv /\ [Next]_vars
      => [Clean /\ ~inWay' /\ (\E p \in Spots : on_mouse_update(p)) => Beneath' = Beneath]_vars
  BY MouseBeneath DEF TypeInv, TypeOK, Who
<1>2. QED
  BY <1>1, TypeInvHolds, PTL DEF Spec, PointerLeavesNoTrace
=============================================================================
