---------------------------- MODULE ShellProofs ----------------------------
(* For rings and lines of every length and rows of every width, whatever is *)
(* typed: the shell's ring and counters are the list of lines LineHistory   *)
(* promises, and the line on the screen is the line it has until the        *)
(* margin comes into play, checked by TLAPS.                                *)
EXTENDS Shell, SequenceTheorems, TLAPS

----------------------------------------------------------------------------
(* The places of the ring.                                                 *)

\* A sum of two places, or of a place and the size.
LEMMA Wrap ==
    ASSUME NEW n \in Nat \ {0}, NEW a \in 0 .. 2 * n - 1
    PROVE  a % n = IF a < n THEN a ELSE a - n
<1>1. CASE a < n
  BY <1>1, SMT
<1>2. CASE a >= n
  <2> DEFINE q == a \div n
  <2>1. q \in Int /\ a % n \in 0 .. n - 1 /\ a = n * q + (a % n)
    BY SMT
  <2>2. q >= 1
    <3>1. ASSUME q <= 0 PROVE n * q <= 0
      BY <2>1, <3>1, SMT
    <3>2. QED
      BY <2>1, <3>1, <1>2
  <2>3. q < 2
    <3>1. ASSUME q >= 2 PROVE n * q >= 2 * n
      BY <2>1, <3>1, SMT
    <3>2. QED
      BY <2>1, <3>1
  <2>4. q = 1
    BY <2>1, <2>2, <2>3
  <2>5. n * q = n
    BY <2>4
  <2>6. QED
    BY <2>1, <2>5, <1>2
<1>3. QED
  BY <1>1, <1>2

Place(pos, count, i) == (pos + MAX_HISTORY - count + (i - 1)) % MAX_HISTORY

LEMMA PlaceType ==
    ASSUME NEW pos \in Slots, NEW count \in 0 .. MAX_HISTORY, NEW i \in 1 .. count
    PROVE  /\ Place(pos, count, i) \in Slots
           /\ Place(pos, count, i) =
                LET a == pos + MAX_HISTORY - count + (i - 1)
                IN  IF a < MAX_HISTORY THEN a ELSE a - MAX_HISTORY
<1> DEFINE a == pos + MAX_HISTORY - count + (i - 1)
<1>1. MAX_HISTORY \in Nat \ {0} /\ a \in 0 .. 2 * MAX_HISTORY - 1
  BY ShellAssumption DEF Slots
<1>2. a % MAX_HISTORY = IF a < MAX_HISTORY THEN a ELSE a - MAX_HISTORY
  BY <1>1, Wrap
<1>3. QED
  BY <1>1, <1>2 DEF Place, Slots

\* The ring as a sequence.
LEMMA ListingType ==
    ASSUME NEW slots \in [Slots -> Line], NEW pos \in Slots, NEW count \in 0 .. MAX_HISTORY
    PROVE  /\ Listing(slots, pos, count) \in Seq(Line)
           /\ Len(Listing(slots, pos, count)) = count
           /\ \A i \in 1 .. count : Listing(slots, pos, count)[i] = slots[Place(pos, count, i)]
<1>1. Listing(slots, pos, count) = [i \in 1 .. count |-> slots[Place(pos, count, i)]]
  BY DEF Listing, Place
<1>2. \A i \in 1 .. count : slots[Place(pos, count, i)] \in Line
  BY PlaceType
<1>3. count \in Nat
  BY ShellAssumption
<1>4. QED
  BY <1>1, <1>2, <1>3

\* The line entered last stands before the next place, and the line an index
\* means at its place of the list.
LEMMA Reading ==
    ASSUME TypeOK
    PROVE  /\ history_count > 0 => Latest = Lines[history_count]
           /\ \A index \in 0 .. history_count - 1 :
                /\ Viewed(index) = Lines[index + 1] /\ Viewed(index) \in Line
<1>0. /\ history \in [Slots -> Line] /\ history_pos \in Slots
      /\ history_count \in 0 .. MAX_HISTORY /\ MAX_HISTORY \in Nat \ {0}
      /\ history_count \in Int /\ history_pos \in Int
  BY ShellAssumption DEF TypeOK, Slots
<1>1. ASSUME history_count > 0 PROVE Latest = Lines[history_count]
  <2>1. history_pos + MAX_HISTORY - history_count + (history_count - 1)
          = history_pos + MAX_HISTORY - 1
    BY <1>0
  <2>2. Lines[history_count] = history[Place(history_pos, history_count, history_count)]
    BY <1>0, <1>1, ListingType DEF Lines
  <2>3. QED
    BY <2>1, <2>2 DEF Latest, Place
<1>2. ASSUME NEW index \in 0 .. history_count - 1
      PROVE  Viewed(index) = Lines[index + 1] /\ Viewed(index) \in Line
  <2>1. history_pos + MAX_HISTORY - history_count + ((index + 1) - 1)
          = history_pos + MAX_HISTORY - (history_count - index)
    BY <1>0
  <2>2. index + 1 \in 1 .. history_count
    BY <1>0
  <2>3. /\ Lines[index + 1] = history[Place(history_pos, history_count, index + 1)]
        /\ Place(history_pos, history_count, index + 1) \in Slots
    BY <1>0, <2>2, ListingType, PlaceType DEF Lines
  <2>4. QED
    BY <1>0, <2>1, <2>3 DEF Viewed, Place
<1>3. QED
  BY <1>1, <1>2

\* A line that is written to the next place is the list's last, and takes the
\* place of the first when the ring is full.
LEMMA Writing ==
    ASSUME NEW slots \in [Slots -> Line], NEW pos \in Slots, NEW count \in 0 .. MAX_HISTORY,
           NEW l \in Line
    PROVE  LET old   == Listing(slots, pos, count)
               next  == (pos + 1) % MAX_HISTORY
               more  == IF count < MAX_HISTORY THEN count + 1 ELSE count
               new   == Listing([slots EXCEPT ![pos] = l], next, more)
           IN  /\ next \in Slots /\ more \in 1 .. MAX_HISTORY
               /\ new = IF count < MAX_HISTORY THEN Append(old, l) ELSE Append(Tail(old), l)
<1> DEFINE old == Listing(slots, pos, count)
           next == (pos + 1) % MAX_HISTORY
           more == IF count < MAX_HISTORY THEN count + 1 ELSE count
           after == [slots EXCEPT ![pos] = l]
           new == Listing(after, next, more)
<1>1. MAX_HISTORY \in Nat \ {0} /\ pos \in Int /\ count \in Int
      /\ pos >= 0 /\ pos < MAX_HISTORY
  BY ShellAssumption DEF Slots
<1>2. next = (IF pos + 1 < MAX_HISTORY THEN pos + 1 ELSE pos + 1 - MAX_HISTORY)
      /\ next \in Slots
  <2>1. pos + 1 \in 0 .. 2 * MAX_HISTORY - 1
    BY <1>1
  <2> DEFINE a == pos + 1
  <2>2. a % MAX_HISTORY = IF a < MAX_HISTORY THEN a ELSE a - MAX_HISTORY
    <3> HIDE DEF a
    <3>1. QED
      BY <1>1, <2>1, Wrap DEF a
  <2>3. QED
    BY <1>1, <2>2 DEF Slots
<1>3. more \in 1 .. MAX_HISTORY /\ after \in [Slots -> Line]
  BY <1>1
<1>4. /\ old \in Seq(Line) /\ Len(old) = count
      /\ \A i \in 1 .. count : old[i] = slots[Place(pos, count, i)]
  BY ListingType
<1>5. /\ new \in Seq(Line) /\ Len(new) = more
      /\ \A i \in 1 .. more : new[i] = after[Place(next, more, i)]
  <2> HIDE DEF after, next, more
  <2>1. QED
    BY <1>2, <1>3, ListingType
<1>6. after[pos] = l /\ \A s \in Slots : s # pos => after[s] = slots[s]
  BY DEF Slots
<1> HIDE DEF old, next, after, new
<1>7. Place(next, more, more) = pos
  BY <1>1, <1>2, <1>3, PlaceType
<1>8. CASE count < MAX_HISTORY
  <2>1. ASSUME NEW i \in 1 .. count
        PROVE  Place(next, more, i) = Place(pos, count, i) /\ Place(pos, count, i) # pos
               /\ Place(pos, count, i) \in Slots
    <3>1. Place(pos, count, i) \in Slots /\ i \in 1 .. more /\ more = count + 1
      BY <1>1, <1>8, PlaceType
    <3>2. Place(next, more, i) =
            LET a == next + MAX_HISTORY - more + (i - 1)
            IN  IF a < MAX_HISTORY THEN a ELSE a - MAX_HISTORY
      BY <3>1, <1>2, <1>3, PlaceType
    <3>3. Place(pos, count, i) =
            LET a == pos + MAX_HISTORY - count + (i - 1)
            IN  IF a < MAX_HISTORY THEN a ELSE a - MAX_HISTORY
      BY PlaceType
    <3>4. QED
      BY <3>1, <3>2, <3>3, <1>1, <1>2, <1>8
  <2>2. \A i \in 1 .. count : new[i] = old[i]
    BY <2>1, <1>1, <1>4, <1>5, <1>6, <1>8
  <2>3. new[count + 1] = l /\ Len(new) = count + 1
    BY <1>3, <1>5, <1>6, <1>7, <1>8
  <2>4. /\ Append(old, l) \in Seq(Line) /\ Len(Append(old, l)) = count + 1
        /\ \A i \in 1 .. count : Append(old, l)[i] = old[i]
        /\ Append(old, l)[count + 1] = l
    BY <1>4, AppendProperties
  <2>5. ASSUME NEW i \in 1 .. Len(new) PROVE new[i] = Append(old, l)[i]
    <3>1. i = count + 1 \/ i \in 1 .. count
      <4>1. i \in 1 .. count + 1 /\ count \in Nat
        BY <2>3, <1>1
      <4>2. QED
        BY <4>1
    <3>2. CASE i = count + 1
      BY <3>2, <2>3, <2>4
    <3>3. CASE i \in 1 .. count
      BY <3>3, <2>2, <2>4
    <3>4. QED
      BY <3>1, <3>2, <3>3
  <2>6. new = Append(old, l)
    BY <2>3, <2>4, <2>5, <1>5, SeqEqual
  <2>7. QED
    BY <2>6, <1>2, <1>3, <1>8 DEF old, next, after, new
<1>9. CASE count = MAX_HISTORY
  <2> DEFINE kept == Tail(old)
  <2>1. /\ kept \in Seq(Line) /\ Len(kept) = count - 1
        /\ \A i \in 1 .. count - 1 : kept[i] = old[i + 1]
    <3>1. old # <<>>
      BY <1>1, <1>4, <1>9, EmptySeq
    <3>2. QED
      BY <3>1, <1>1, <1>4, HeadTailProperties
  <2> HIDE DEF kept
  <2>2. ASSUME NEW i \in 1 .. count - 1
        PROVE  /\ Place(next, more, i) = Place(pos, count, i + 1)
               /\ Place(pos, count, i + 1) # pos /\ Place(pos, count, i + 1) \in Slots
    <3>1. i + 1 \in 1 .. count /\ i \in 1 .. more /\ more = count
      BY <1>1, <1>9
    <3>2. Place(next, more, i) =
            LET a == next + MAX_HISTORY - more + (i - 1)
            IN  IF a < MAX_HISTORY THEN a ELSE a - MAX_HISTORY
      BY <3>1, <1>2, <1>3, PlaceType
    <3>3. /\ Place(pos, count, i + 1) \in Slots
          /\ Place(pos, count, i + 1) =
               LET a == pos + MAX_HISTORY - count + ((i + 1) - 1)
               IN  IF a < MAX_HISTORY THEN a ELSE a - MAX_HISTORY
      BY <3>1, PlaceType
    <3>4. QED
      BY <3>1, <3>2, <3>3, <1>1, <1>2, <1>9
  <2>3. ASSUME NEW i \in 1 .. count - 1 PROVE new[i] = kept[i]
    <3>1. i \in 1 .. more /\ i + 1 \in 1 .. count
      BY <1>1, <1>9
    <3>2. new[i] = after[Place(next, more, i)] /\ old[i + 1] = slots[Place(pos, count, i + 1)]
      BY <3>1, <1>4, <1>5
    <3>3. QED
      BY <3>2, <2>1, <2>2, <1>6
  <2>4. new[count] = l /\ Len(new) = count
    BY <1>3, <1>5, <1>6, <1>7, <1>9
  <2>5. /\ Append(kept, l) \in Seq(Line) /\ Len(Append(kept, l)) = count
        /\ \A i \in 1 .. count - 1 : Append(kept, l)[i] = kept[i]
        /\ Append(kept, l)[count] = l
    <3>1. Len(kept) + 1 = count
      BY <2>1, <1>1
    <3>2. QED
      BY <2>1, <3>1, AppendProperties
  <2>6. ASSUME NEW i \in 1 .. Len(new) PROVE new[i] = Append(kept, l)[i]
    <3>1. i = count \/ i \in 1 .. count - 1
      <4>1. i \in 1 .. count /\ count \in Nat
        BY <2>4, <1>1
      <4>2. QED
        BY <4>1
    <3>2. CASE i = count
      BY <3>2, <2>4, <2>5
    <3>3. CASE i \in 1 .. count - 1
      BY <3>3, <2>3, <2>5
    <3>4. QED
      BY <3>1, <3>2, <3>3
  <2>7. new = Append(kept, l)
    BY <2>4, <2>5, <2>6, <1>5, SeqEqual
  <2>8. new = Append(Tail(old), l) /\ ~(count < MAX_HISTORY)
    BY <2>7, <1>1, <1>9 DEF kept
  <2>9. QED
    BY <2>8, <1>2, <1>3 DEF old, next, after, new
<1>10. QED
  BY <1>1, <1>8, <1>9 DEF old, next, after, new

----------------------------------------------------------------------------
(* Types, and what the screen shows.                                       *)

LEMMA CutType ==
    ASSUME NEW text \in Text, NEW n \in 0 .. Len(text)
    PROVE  /\ Cut(text, n) \in Text /\ Len(Cut(text, n)) = n
           /\ \A i \in 1 .. n : Cut(text, n)[i] = text[i]
           /\ Beyond(text, n) \in Text
<1>1. /\ Len(text) \in Nat /\ \A i \in 1 .. Len(text) : text[i] \in Printable
  BY LenProperties, ElementOfSeq DEF Text
<1>2. /\ SubSeq(text, 1, n) \in Seq(Printable)
      /\ Len(SubSeq(text, 1, n)) = IF 1 <= n THEN n - 1 + 1 ELSE 0
      /\ \A i \in 1 .. n - 1 + 1 : SubSeq(text, 1, n)[i] = text[1 + i - 1]
  <2>1. \A i \in 1 .. n : text[i] \in Printable
    BY <1>1
  <2>2. QED
    BY <2>1, SubSeqProperties
<1>3. SubSeq(text, n + 1, Len(text)) \in Seq(Printable)
  <2>1. \A i \in n + 1 .. Len(text) : text[i] \in Printable
    BY <1>1
  <2>2. n + 1 \in Int /\ Len(text) \in Int
    BY <1>1
  <2>3. QED
    BY <2>1, <2>2, SubSeqProperties
<1>4. \A i \in 1 .. n : 1 + i - 1 = i /\ i \in 1 .. n - 1 + 1
  OBVIOUS
<1>5. QED
  BY <1>2, <1>3, <1>4 DEF Cut, Beyond, Text

\* Behind the cursor there may be more than the line, for any longer text.
LEMMA BeyondType ==
    ASSUME NEW text \in Text, NEW n \in Nat
    PROVE  Beyond(text, n) \in Text
<1>1. /\ Len(text) \in Nat /\ \A i \in 1 .. Len(text) : text[i] \in Printable
  BY LenProperties, ElementOfSeq DEF Text
<1>2. \A i \in n + 1 .. Len(text) : text[i] \in Printable
  BY <1>1
<1>3. n + 1 \in Int /\ Len(text) \in Int
  BY <1>1
<1>4. QED
  BY <1>2, <1>3, SubSeqProperties DEF Beyond, Text

LEMMA CutConcat ==
    ASSUME NEW l \in Text, NEW rest \in Text
    PROVE  /\ l \o rest \in Text /\ Len(l \o rest) >= Len(l) /\ Len(l) \in Nat
           /\ Cut(l \o rest, Len(l)) = l
<1>1. /\ l \o rest \in Text /\ Len(l \o rest) = Len(l) + Len(rest)
      /\ \A i \in 1 .. Len(l) + Len(rest) :
           (l \o rest)[i] = IF i <= Len(l) THEN l[i] ELSE rest[i - Len(l)]
  BY ConcatProperties DEF Text
<1>2. Len(l) \in Nat /\ Len(rest) \in Nat
  BY LenProperties DEF Text
<1>3. /\ Cut(l \o rest, Len(l)) \in Text /\ Len(Cut(l \o rest, Len(l))) = Len(l)
      /\ \A i \in 1 .. Len(l) : Cut(l \o rest, Len(l))[i] = (l \o rest)[i]
  <2>1. Len(l) \in 0 .. Len(l \o rest)
    BY <1>1, <1>2
  <2>2. QED
    BY <1>1, <2>1, CutType
<1>4. \A i \in 1 .. Len(l) : Cut(l \o rest, Len(l))[i] = l[i]
  BY <1>1, <1>2, <1>3
<1>5. QED
  BY <1>1, <1>2, <1>3, <1>4, SeqEqual DEF Text

LEMMA CutBeyond ==
    ASSUME NEW text \in Text, NEW n \in 0 .. Len(text)
    PROVE  /\ Cut(text, n) \o Beyond(text, n) = text
           /\ Len(Beyond(text, n)) = Len(text) - n
<1>1. /\ Len(text) \in Nat /\ \A i \in 1 .. Len(text) : text[i] \in Printable
  BY LenProperties, ElementOfSeq DEF Text
<1>2. Cut(text, n) \in Text /\ Len(Cut(text, n)) = n /\ \A i \in 1 .. n : Cut(text, n)[i] = text[i]
  BY CutType
<1>3. /\ Beyond(text, n) \in Text /\ Len(Beyond(text, n)) = Len(text) - n
      /\ \A i \in 1 .. Len(text) - n : Beyond(text, n)[i] = text[n + i]
  <2>1. n + 1 \in Int /\ Len(text) \in Int /\ \A i \in n + 1 .. Len(text) : text[i] \in Printable
    BY <1>1
  <2>2. /\ Beyond(text, n) \in Seq(Printable)
        /\ Len(Beyond(text, n)) = IF n + 1 <= Len(text) THEN Len(text) - (n + 1) + 1 ELSE 0
        /\ \A i \in 1 .. Len(text) - (n + 1) + 1 : Beyond(text, n)[i] = text[n + 1 + i - 1]
    BY <2>1, SubSeqProperties DEF Beyond
  <2>3. \A i \in 1 .. Len(text) - n : n + 1 + i - 1 = n + i /\ i \in 1 .. Len(text) - (n + 1) + 1
    BY <1>1
  <2>4. QED
    BY <1>1, <2>2, <2>3 DEF Text
<1> DEFINE both == Cut(text, n) \o Beyond(text, n)
<1>4. /\ both \in Text /\ Len(both) = n + (Len(text) - n)
      /\ \A i \in 1 .. n + (Len(text) - n) :
           both[i] = IF i <= n THEN Cut(text, n)[i] ELSE Beyond(text, n)[i - n]
  BY <1>2, <1>3, ConcatProperties DEF Text
<1> HIDE DEF both
<1>5. n + (Len(text) - n) = Len(text)
  BY <1>1
<1>6. ASSUME NEW i \in 1 .. Len(text) PROVE both[i] = text[i]
  <2>1. CASE i <= n
    BY <1>2, <1>4, <1>5, <2>1
  <2>2. CASE ~(i <= n)
    <3>1. i - n \in 1 .. Len(text) - n /\ n + (i - n) = i
      BY <1>1, <2>2
    <3>2. QED
      BY <1>3, <1>4, <1>5, <2>2, <3>1
  <2>3. QED
    BY <2>1, <2>2
<1>7. both = text
  BY <1>4, <1>5, <1>6, SeqEqual DEF Text
<1>8. QED
  BY <1>3, <1>7 DEF both

LEMMA ConcatText ==
    ASSUME NEW a \in Text, NEW b \in Text
    PROVE  a \o b \in Text
BY ConcatProperties DEF Text

LEMMA ConcatThree ==
    ASSUME NEW a \in Text, NEW b \in Text, NEW c \in Text
    PROVE  (a \o b) \o c = a \o (b \o c)
<1>1. a \in Seq(Printable) /\ b \in Seq(Printable) /\ c \in Seq(Printable)
  BY DEF Text
<1>2. QED
  BY <1>1, ConcatAssociative

LEMMA CutEmpty == \A text : Cut(text, 0) = <<>>
BY SubSeqEmpty DEF Cut

LEMMA CutAll == \A text \in Text : Cut(text, Len(text)) = text
BY SubSeqFull DEF Cut, Text

LEMMA CutJoined ==
    ASSUME NEW up \in Text, NEW text \in Text, NEW n \in 0 .. Len(text)
    PROVE  /\ up \o Cut(text, n) \in Text
           /\ (up \o Cut(text, n)) \o Beyond(text, n) = up \o text
<1>1. PICK a \in Text : a = Cut(text, n)
  BY CutType
<1>2. PICK b \in Text : b = Beyond(text, n)
  BY CutType
<1>3. a \o b = text
  BY <1>1, <1>2, CutBeyond
<1>4. up \o a \in Text
  BY ConcatText
<1>5. up \o (a \o b) = (up \o a) \o b
  BY ConcatThree, Zenon
<1>6. QED
  BY <1>1, <1>2, <1>3, <1>4, <1>5

\* The rows that a text of n characters fills.
LEMMA FullRows ==
    ASSUME NEW n \in Nat \ {0}, NEW c \in Nat \ {0}
    PROVE  LET full == ((n - 1) \div c) * c
           IN  full \in 0 .. n - 1 /\ n - full \in 1 .. c
<1> DEFINE q == (n - 1) \div c
<1>1. q \in Int /\ (n - 1) % c \in 0 .. c - 1 /\ n - 1 = c * q + ((n - 1) % c)
  BY SMT
<1>2. q >= 0
  <2>1. ASSUME q <= -1 PROVE c * q <= -c
    BY <1>1, <2>1, SMT
  <2>2. QED
    BY <1>1, <2>1
<1>3. c * q >= 0 /\ q * c = c * q /\ c * q \in Int
  BY <1>1, <1>2, SMT
<1>4. QED
  BY <1>1, <1>3

\* What stands on the screen after text was put there is what was there before
\* the column, and the text.
LEMMA PutShows ==
    ASSUME TypeOK, NEW up \in Text, NEW row \in Text, NEW column \in 0 .. Len(row),
           NEW text \in Text, Put(up, row, column, text)
    PROVE  /\ above' \in Text /\ shown' \in Text
           /\ cursor' \in 0 .. terminal.columns /\ cursor' <= Len(shown')
           /\ ~Sticks(column, text) =>
                above' \o Cut(shown', cursor') = up \o (Cut(row, column) \o text)
<1>1. PICK c \in Nat \ {0} : c = terminal.columns /\ c >= 2
  BY ShellAssumption DEF TypeOK
<1>2. PICK whole \in Text : whole = Cut(row, column) \o text /\ Len(whole) = column + Len(text)
  <2>1. Cut(row, column) \in Text /\ Len(Cut(row, column)) = column
    BY CutType
  <2>2. QED
    BY <2>1, ConcatProperties DEF Text
<1>3. Len(whole) \in Nat
  BY LenProperties DEF Text
<1>4. PICK full : full = ((Len(whole) - 1) \div c) * c
  OBVIOUS
<1>5. \/ /\ Len(whole) <= c
         /\ above' = up /\ shown' = whole \o Beyond(row, Len(whole)) /\ cursor' = Len(whole)
      \/ /\ Len(whole) > c /\ terminal.wraps
         /\ above' = up \o Cut(whole, full)
         /\ shown' = Beyond(whole, full) /\ cursor' = Len(whole) - full
      \/ /\ Len(whole) > c /\ ~terminal.wraps
         /\ above' = up
         /\ shown' = Append(Cut(whole, c - 1), whole[Len(whole)])
         /\ cursor' = c
  BY <1>1, <1>2, <1>4 DEF Put
<1>6. CASE /\ Len(whole) <= c
           /\ above' = up /\ shown' = whole \o Beyond(row, Len(whole)) /\ cursor' = Len(whole)
  <2>1. Beyond(row, Len(whole)) \in Text
    BY <1>3, BeyondType
  <2>2. shown' \in Text /\ Len(shown') >= Len(whole) /\ Cut(shown', Len(whole)) = whole
    BY <1>6, <2>1, CutConcat
  <2>3. cursor' \in 0 .. c /\ cursor' <= Len(shown')
    BY <1>3, <1>6, <2>2
  <2>4. above' \o Cut(shown', cursor') = up \o whole
    BY <1>6, <2>2
  <2>5. above' \in Text
    BY <1>6
  <2>6. QED
    BY <1>1, <1>2, <2>2, <2>3, <2>4, <2>5
<1>7. CASE /\ Len(whole) > c /\ terminal.wraps
           /\ above' = up \o Cut(whole, full)
           /\ shown' = Beyond(whole, full) /\ cursor' = Len(whole) - full
  <2>1. Len(whole) \in Nat \ {0}
    BY <1>3, <1>7
  <2>2. full \in 0 .. Len(whole) - 1 /\ Len(whole) - full \in 1 .. c
    BY <1>4, <2>1, FullRows
  <2>3. full \in 0 .. Len(whole) /\ Len(whole) - full \in 0 .. c
    BY <1>3, <2>2
  <2>4. PICK front \in Text, rest \in Text :
          front = Cut(whole, full) /\ rest = Beyond(whole, full) /\ Len(rest) = Len(whole) - full
    BY <2>3, CutType, CutBeyond
  <2>5. up \o front \in Text /\ (up \o front) \o rest = up \o whole
    BY <2>3, <2>4, CutJoined
  <2>6. Cut(rest, Len(rest)) = rest /\ Len(rest) \in Nat
    BY <2>4, CutAll, LenProperties DEF Text
  <2>7. above' \o Cut(shown', cursor') = up \o whole
    BY <1>7, <2>4, <2>5, <2>6
  <2>8. /\ above' \in Text /\ shown' \in Text
        /\ cursor' \in 0 .. c /\ cursor' <= Len(shown')
    BY <1>7, <2>3, <2>4, <2>5, <2>6
  <2>9. QED
    BY <1>1, <1>2, <2>7, <2>8
<1>8. CASE /\ Len(whole) > c /\ ~terminal.wraps
           /\ above' = up
           /\ shown' = Append(Cut(whole, c - 1), whole[Len(whole)])
           /\ cursor' = c
  <2>1. Sticks(column, text)
    BY <1>1, <1>2, <1>8 DEF Sticks
  <2>2. c - 1 \in 0 .. Len(whole) /\ Len(whole) \in 1 .. Len(whole) /\ (c - 1) + 1 = c
    BY <1>1, <1>3, <1>8
  <2>3. whole[Len(whole)] \in Printable
    BY <2>2, ElementOfSeq DEF Text
  <2>4. Cut(whole, c - 1) \in Text /\ Len(Cut(whole, c - 1)) = c - 1
    BY <2>2, CutType
  <2>5. shown' \in Text /\ Len(shown') = c
    BY <1>8, <2>2, <2>3, <2>4, AppendProperties DEF Text
  <2>6. QED
    BY <1>1, <1>8, <2>1, <2>5
<1>9. QED
  BY <1>5, <1>6, <1>7, <1>8

\* The screen's part of the invariant, when the terminal stays.
ScreenOK ==
    /\ above \in Text /\ shown \in Text
    /\ cursor \in 0 .. terminal.columns /\ cursor <= Len(shown)
    /\ astray \in BOOLEAN
    /\ LineShown

LEMMA PromptType == PROMPT \in Text /\ Len(PROMPT) \in Nat
BY ShellAssumption, LenProperties DEF Text

\* After a refresh prompt and line stand before the cursor, whatever was there.
LEMMA RefreshShows ==
    ASSUME TypeOK, NEW l \in Line, Refresh(l), input_buffer' = l, terminal' = terminal
    PROVE  ScreenOK'
<1>1. Cleared \in Text /\ 0 \in 0 .. Len(Cleared)
  <2>1. cursor \in 0 .. Len(shown) /\ shown \in Text /\ Len(shown) \in Nat
    BY LenProperties, ShellAssumption DEF TypeOK, Text
  <2>2. PICK n \in 0 .. Len(shown) : Cleared = Cut(shown, n)
    <3>1. cursor = terminal.columns => cursor - 1 \in 0 .. Len(shown)
      BY <2>1, ShellAssumption DEF TypeOK
    <3>2. QED
      BY <2>1, <3>1 DEF Cleared
  <2>3. QED
    BY <2>1, <2>2, CutType
<1>2. <<>> \in Text /\ l \in Text /\ PROMPT \o l \in Text
  BY PromptType, ConcatProperties, EmptySeq DEF Line, Text
<1>3. Put(<<>>, Cleared, 0, PROMPT \o l) /\ astray' = Sticks(0, PROMPT \o l)
  BY DEF Refresh
<1>4. PICK row \in Text, text \in Text : row = Cleared /\ text = PROMPT \o l
  BY <1>1, <1>2
<1>5. /\ above' \in Text /\ shown' \in Text
      /\ cursor' \in 0 .. terminal.columns /\ cursor' <= Len(shown')
      /\ ~Sticks(0, text) => above' \o Cut(shown', cursor') = <<>> \o (Cut(row, 0) \o text)
  <2>1. Put(<<>>, row, 0, text) /\ 0 \in 0 .. Len(row) /\ <<>> \in Text
    BY <1>1, <1>2, <1>3, <1>4
  <2>2. QED
    BY <2>1, PutShows
<1>6. <<>> \o (Cut(row, 0) \o text) = text
  BY CutEmpty, ConcatEmptySeq DEF Text
<1>7. LineShown'
  BY <1>3, <1>4, <1>5, <1>6 DEF LineShown
<1>8. QED
  BY <1>3, <1>5, <1>7 DEF ScreenOK, Sticks

\* A prompt without a line.
LEMMA PromptShows ==
    ASSUME TypeOK, Prompt, input_buffer' = <<>>, terminal' = terminal
    PROVE  ScreenOK'
<1>1. /\ above' = <<>> /\ shown' = PROMPT /\ cursor' = Len(PROMPT) /\ astray' = FALSE
  BY DEF Prompt
<1>2. <<>> \in Text /\ <<>> \o Cut(PROMPT, Len(PROMPT)) = PROMPT \o <<>>
  BY PromptType, CutAll, ConcatEmptySeq, EmptySeq DEF Text
<1>3. Len(PROMPT) \in 0 .. terminal.columns
  BY PromptType, ShellAssumption DEF TypeOK
<1>4. above' \o Cut(shown', cursor') = PROMPT \o input_buffer'
  BY <1>1, <1>2
<1>5. LineShown'
  BY <1>4 DEF LineShown
<1>6. /\ above' \in Text /\ shown' \in Text /\ astray' \in BOOLEAN
      /\ cursor' \in 0 .. terminal'.columns /\ cursor' <= Len(shown')
  <2>1. above' \in Text /\ shown' \in Text /\ astray' \in BOOLEAN
    BY <1>1, <1>2, PromptType, Zenon
  <2>2. cursor' \in 0 .. terminal'.columns
    BY <1>1, <1>3
  <2>3. cursor' <= Len(shown')
    BY <1>1, PromptType
  <2>4. QED
    BY <2>1, <2>2, <2>3
<1>7. QED
  BY <1>5, <1>6 DEF ScreenOK

Inv == TypeOK /\ LineShown

LEMMA InvScreen == Inv <=> TypeOK /\ ScreenOK
BY DEF Inv, TypeOK, ScreenOK

LEMMA EmptyLine == <<>> \in Line /\ <<>> \in Text /\ Len(<<>>) = 0
<1>1. <<>> \in Text /\ Len(<<>>) = 0
  BY EmptySeq DEF Text
<1>2. QED
  BY <1>1, ShellAssumption DEF Line

LEMMA InitInv == Init => Inv
<1> SUFFICES ASSUME Init PROVE Inv
  OBVIOUS
<1>1. Len(PROMPT) \in 0 .. terminal.columns
  BY PromptType, ShellAssumption DEF Init
<1>2. TypeOK
  <2>1. /\ input_buffer \in Line /\ history \in [Slots -> Line]
        /\ history_count \in 0 .. MAX_HISTORY /\ history_index \in 0 .. history_count
        /\ history_pos \in Slots /\ escape_state \in 0 .. 2
    BY EmptyLine, ShellAssumption DEF Init, Slots
  <2>2. /\ terminal \in Terminals /\ above \in Text /\ shown \in Text
        /\ cursor \in 0 .. terminal.columns /\ cursor <= Len(shown)
        /\ astray \in BOOLEAN
    <3>1. /\ terminal \in Terminals /\ above = <<>> /\ shown = PROMPT
          /\ cursor = Len(PROMPT) /\ astray = FALSE
      BY DEF Init
    <3>2. above \in Text /\ shown \in Text
      BY <3>1, EmptyLine, PromptType, Zenon
    <3>3. cursor \in 0 .. terminal.columns
      BY <1>1, <3>1
    <3>4. cursor <= Len(shown)
      BY <3>1, PromptType
    <3>5. QED
      BY <3>1, <3>2, <3>3, <3>4
  <2>3. QED
    BY <2>1, <2>2 DEF TypeOK
<1>3. <<>> \o Cut(PROMPT, Len(PROMPT)) = PROMPT \o <<>>
  BY PromptType, CutAll, ConcatEmptySeq, EmptySeq DEF Text
<1>4. LineShown
  BY <1>3 DEF Init, LineShown
<1>5. QED
  BY <1>2, <1>4 DEF Inv

----------------------------------------------------------------------------
(* The keys.                                                               *)

\* Remembering a line: the ring stays one, and as a list gets the line.
LEMMA SaveKeeps ==
    ASSUME TypeOK, Save(input_buffer)
    PROVE  /\ history' \in [Slots -> Line] /\ history_pos' \in Slots
           /\ history_count' \in 0 .. MAX_HISTORY
           /\ Listing(history', history_pos', history_count') =
                IF Lines # <<>> /\ Lines[Len(Lines)] = input_buffer THEN Lines
                ELSE IF Len(Lines) < MAX_HISTORY THEN Append(Lines, input_buffer)
                ELSE Append(Tail(Lines), input_buffer)
<1>1. /\ history \in [Slots -> Line] /\ history_pos \in Slots
      /\ history_count \in 0 .. MAX_HISTORY /\ input_buffer \in Line
  BY DEF TypeOK
<1>2. Lines \in Seq(Line) /\ Len(Lines) = history_count
  BY <1>1, ListingType DEF Lines
<1>3. history_count > 0 <=> Lines # <<>>
  <2>1. Lines # <<>> => Len(Lines) \in Nat \ {0}
    BY <1>2, EmptySeq
  <2>2. Lines = <<>> => Len(Lines) = 0
    BY EmptySeq
  <2>3. QED
    BY <2>1, <2>2, <1>1, <1>2, ShellAssumption
<1>4. history_count > 0 => Latest = Lines[Len(Lines)]
  BY <1>2, Reading
<1>5. CASE history_count > 0 /\ input_buffer = Latest
  BY <1>1, <1>3, <1>4, <1>5 DEF Save, Lines
<1>6. CASE ~(history_count > 0 /\ input_buffer = Latest)
  <2> DEFINE next == (history_pos + 1) % MAX_HISTORY
             more == IF history_count < MAX_HISTORY THEN history_count + 1 ELSE history_count
             after == [history EXCEPT ![history_pos] = input_buffer]
  <2>1. history' = after /\ history_pos' = next /\ history_count' = more
    BY <1>6 DEF Save
  <2>2. /\ next \in Slots /\ more \in 1 .. MAX_HISTORY
        /\ Listing(after, next, more) =
             IF history_count < MAX_HISTORY THEN Append(Lines, input_buffer)
             ELSE Append(Tail(Lines), input_buffer)
    BY <1>1, Writing DEF Lines
  <2>3. after \in [Slots -> Line] /\ more \in 0 .. MAX_HISTORY
    BY <1>1, <2>2
  <2> HIDE DEF next, more, after
  <2>4. Listing(history', history_pos', history_count') = Listing(after, next, more)
    BY <2>1
  <2>5. ~(Lines # <<>> /\ Lines[Len(Lines)] = input_buffer)
    BY <1>3, <1>4, <1>6
  <2>6. QED
    BY <1>2, <2>1, <2>2, <2>3, <2>4, <2>5
<1>7. QED
  BY <1>5, <1>6

LEMMA EnterInv == Inv /\ Enter => Inv'
<1> SUFFICES ASSUME Inv, Enter PROVE Inv'
  OBVIOUS
<1>1. /\ history' \in [Slots -> Line] /\ history_pos' \in Slots
      /\ history_count' \in 0 .. MAX_HISTORY
  BY SaveKeeps DEF Inv, Enter
<1>2. /\ history_index' \in 0 .. history_count' /\ escape_state' \in 0 .. 2
      /\ input_buffer' = <<>> /\ terminal' = terminal /\ terminal \in Terminals
  BY <1>1, ShellAssumption DEF Inv, TypeOK, Enter
<1>3. ScreenOK'
  BY <1>2, PromptShows DEF Enter, Inv
<1>4. TypeOK'
  BY <1>1, <1>2, <1>3, EmptyLine DEF TypeOK, ScreenOK
<1>5. QED
  BY <1>3, <1>4 DEF Inv, ScreenOK

LEMMA TypeInv == \A c \in Printable : Inv /\ Type(c) => Inv'
<1> SUFFICES ASSUME NEW c \in Printable, Inv, Type(c) PROVE Inv'
  OBVIOUS
<1>1. PICK up \in Text, row \in Text, line \in Text :
        up = above /\ row = shown /\ line = input_buffer
  BY DEF Inv, TypeOK, Line
<1>2. PICK column \in 0 .. Len(row) : column = cursor
  BY <1>1, LenProperties, ShellAssumption DEF Inv, TypeOK, Text
<1>3. <<c>> \in Text /\ Cut(row, column) \in Text
  BY CutType DEF Text
<1>4. PICK text \in Text : text = <<c>>
  BY <1>3
<1>5. /\ Put(up, row, column, text) /\ terminal' = terminal
      /\ input_buffer' = Append(line, c) /\ Len(line) < MAX_CMD_LEN - 1
      /\ astray' = (astray \/ Sticks(column, text))
  BY <1>1, <1>2, <1>4 DEF Type
<1>6. /\ above' \in Text /\ shown' \in Text
      /\ cursor' \in 0 .. terminal.columns /\ cursor' <= Len(shown')
      /\ ~Sticks(column, text) =>
           above' \o Cut(shown', cursor') = up \o (Cut(row, column) \o text)
  <2>1. TypeOK /\ Put(up, row, column, text)
    BY <1>5 DEF Inv
  <2>2. QED
    BY <2>1, PutShows
<1>7. up \o (Cut(row, column) \o text) = (up \o Cut(row, column)) \o text
  BY <1>3, <1>4, ConcatThree, Zenon
<1>8. PROMPT \o Append(line, c) = (PROMPT \o line) \o text
  <2>1. Append(line, c) = line \o text
    BY <1>4, AppendIsConcat DEF Text
  <2>2. QED
    <3>1. PROMPT \in Text
      BY PromptType
    <3>2. PROMPT \o (line \o text) = (PROMPT \o line) \o text
      BY <3>1, ConcatThree, Zenon
    <3>3. QED
      BY <2>1, <3>2
<1>9. LineShown'
  BY <1>1, <1>2, <1>5, <1>6, <1>7, <1>8 DEF Inv, LineShown
<1>10. input_buffer' \in Line
  <2>1. /\ Len(line) \in Nat /\ Append(line, c) \in Text /\ Len(Append(line, c)) = Len(line) + 1
    BY LenProperties, AppendProperties DEF Text
  <2>2. QED
    BY <1>5, <2>1, ShellAssumption DEF Line
<1>11. astray' \in BOOLEAN
  BY <1>5 DEF Inv, TypeOK, Sticks
<1>12. TypeOK'
  BY <1>5, <1>6, <1>10, <1>11 DEF Type, ring, Inv, TypeOK
<1>13. QED
  BY <1>9, <1>12 DEF Inv

\* Two texts that are one with an end of one character are one without it.
LEMMA WithoutLast ==
    ASSUME NEW a \in Text, NEW b \in Text, Len(b) # 0
    PROVE  /\ Len(b) - 1 \in 0 .. Len(b) /\ b[Len(b)] \in Printable
           /\ a \o b = (a \o Cut(b, Len(b) - 1)) \o <<b[Len(b)]>>
<1>1. Len(b) \in Nat \ {0}
  BY LenProperties DEF Text
<1>2. Len(b) - 1 \in 0 .. Len(b) /\ Len(b) \in 1 .. Len(b)
  BY <1>1
<1>3. b[Len(b)] \in Printable
  BY <1>2, ElementOfSeq DEF Text
<1>4. PICK front \in Text, x \in Printable :
        /\ front = Cut(b, Len(b) - 1) /\ x = b[Len(b)] /\ Len(front) = Len(b) - 1
        /\ \A i \in 1 .. Len(b) - 1 : front[i] = b[i]
  BY <1>2, <1>3, CutType
<1>5. /\ Append(front, x) \in Text /\ Len(Append(front, x)) = Len(b)
      /\ \A i \in 1 .. Len(b) - 1 : Append(front, x)[i] = b[i]
      /\ Append(front, x)[Len(b)] = x
  BY <1>1, <1>4, AppendProperties DEF Text
<1>6. ASSUME NEW i \in 1 .. Len(b) PROVE Append(front, x)[i] = b[i]
  <2>1. i = Len(b) \/ i \in 1 .. Len(b) - 1
    BY <1>1
  <2>2. QED
    BY <1>4, <1>5, <2>1
<1>7. Append(front, x) = b
  BY <1>5, <1>6, SeqEqual DEF Text
<1>8. a \o Append(front, x) = (a \o front) \o <<x>>
  <2>1. <<x>> \in Text /\ Append(front, x) = front \o <<x>>
    BY AppendIsConcat DEF Text
  <2>2. PICK last \in Text : last = <<x>>
    BY <2>1
  <2>3. (a \o front) \o last = a \o (front \o last)
    BY ConcatThree, Zenon
  <2>4. QED
    BY <2>1, <2>2, <2>3
<1>9. QED
  BY <1>2, <1>3, <1>4, <1>7, <1>8

LEMMA SameWithoutLast ==
    ASSUME NEW a \in Text, NEW b \in Text, NEW x \in Printable, NEW y \in Printable,
           a \o <<x>> = b \o <<y>>
    PROVE  a = b
<1>1. Append(a, x) = Append(b, y)
  BY AppendIsConcat DEF Text
<1>2. /\ Len(a) \in Nat /\ Len(b) \in Nat
      /\ Len(Append(a, x)) = Len(a) + 1 /\ Len(Append(b, y)) = Len(b) + 1
      /\ \A i \in 1 .. Len(a) : Append(a, x)[i] = a[i]
      /\ \A i \in 1 .. Len(b) : Append(b, y)[i] = b[i]
  BY LenProperties, AppendProperties DEF Text
<1>3. Len(a) = Len(b)
  BY <1>1, <1>2
<1>4. \A i \in 1 .. Len(a) : a[i] = b[i]
  BY <1>1, <1>2, <1>3
<1>5. QED
  BY <1>3, <1>4, SeqEqual DEF Text

LEMMA Regrouped ==
    ASSUME NEW a \in Text, NEW b \in Text, NEW c \in Text, NEW bc \in Text, bc = b \o c
    PROVE  (a \o b) \o c = a \o bc
<1>1. (a \o b) \o c = a \o (b \o c)
  BY ConcatThree, Zenon
<1>2. QED
  BY <1>1

LEMMA EraseInv == Inv /\ Erase => Inv'
<1> SUFFICES ASSUME Inv, Erase PROVE Inv'
  OBVIOUS
<1>1. PICK up \in Text, row \in Text, line \in Text :
        up = above /\ row = shown /\ line = input_buffer
  BY DEF Inv, TypeOK, Line
<1>2. PICK column \in 0 .. Len(row) : column = cursor
  BY <1>1, LenProperties, ShellAssumption DEF Inv, TypeOK, Text
<1>0. PICK to : to = Left
  OBVIOUS
<1>3. /\ to \in 0 .. Len(row) /\ to \in 0 .. terminal.columns /\ to \in Nat
      /\ column \notin {0, terminal.columns} => column # 0 /\ to = column - 1
  BY <1>0, <1>1, <1>2, LenProperties, ShellAssumption DEF Inv, TypeOK, Left, Text
<1>4. /\ shown' = Append(Cut(row, to), Blank) \o Beyond(row, to + 1)
      /\ cursor' = to /\ above' = up /\ terminal' = terminal
      /\ astray' = (astray \/ column \in {0, terminal.columns})
      /\ input_buffer' = Cut(line, Len(line) - 1) /\ line # <<>>
  BY <1>0, <1>1, <1>2 DEF Erase
<1>5. /\ Cut(row, to) \in Text /\ Len(Cut(row, to)) = to
      /\ Beyond(row, to + 1) \in Text
  BY <1>3, CutType, BeyondType
<1>6. PICK front \in Text, rest \in Text :
        /\ front = Cut(row, to) /\ Len(front) = to
        /\ rest = <<Blank>> \o Beyond(row, to + 1)
  <2>1. <<Blank>> \in Text
    BY ShellAssumption DEF Text
  <2>2. QED
    BY <1>5, <2>1, ConcatProperties DEF Text
<1>7. shown' = front \o rest
  <2>1. <<Blank>> \in Text /\ Append(front, Blank) = front \o <<Blank>>
    BY ShellAssumption, AppendIsConcat DEF Text
  <2>2. PICK blank \in Text : blank = <<Blank>>
    BY <2>1
  <2>3. PICK tail \in Text : tail = Beyond(row, to + 1)
    BY <1>5
  <2>4. rest = blank \o tail
    BY <1>6, <2>2, <2>3
  <2>5. (front \o blank) \o tail = front \o rest
    BY <2>4, Regrouped
  <2>6. shown' = (front \o blank) \o tail
    BY <1>4, <1>6, <2>1, <2>2, <2>3
  <2>7. QED
    BY <2>5, <2>6
<1>8. shown' \in Text /\ to <= Len(shown') /\ Cut(shown', to) = front
  <2>1. front \o rest \in Text /\ Len(front \o rest) >= to /\ Cut(front \o rest, to) = front
    BY <1>6, CutConcat
  <2>2. QED
    BY <1>7, <2>1
<1>9. Len(line) # 0
  BY <1>4, EmptySeq DEF Text
<1>10. LineShown'
  <2> SUFFICES ASSUME ~astray' PROVE up \o front = PROMPT \o Cut(line, Len(line) - 1)
    BY <1>4, <1>8 DEF LineShown
  <2>1. column # 0 /\ to = column - 1 /\ up \o Cut(row, column) = PROMPT \o line
    BY <1>1, <1>2, <1>3, <1>4 DEF Inv, LineShown
  <2>2. PICK t \in Text : t = Cut(row, column) /\ Len(t) = column
    BY CutType
  <2>3. Cut(t, to) = front
    <3>1. /\ column \in 0 .. Len(row) /\ to \in 0 .. Len(t) /\ \A i \in 1 .. to : i \in 1 .. column
      BY <1>3, <2>1, <2>2
    <3>2. \A i \in 1 .. column : t[i] = row[i]
      BY <2>2, CutType
    <3>3. /\ Cut(t, to) \in Text /\ Len(Cut(t, to)) = to
          /\ \A i \in 1 .. to : Cut(t, to)[i] = t[i]
      BY <3>1, CutType
    <3>4. \A i \in 1 .. to : front[i] = row[i]
      BY <1>3, <1>6, CutType
    <3>5. \A i \in 1 .. to : Cut(t, to)[i] = front[i]
      BY <3>1, <3>2, <3>3, <3>4
    <3>6. QED
      BY <1>6, <3>3, <3>5, SeqEqual DEF Text
  <2>4. PICK x \in Printable : up \o t = (up \o front) \o <<x>>
    <3>1. Len(t) # 0 /\ Len(t) - 1 = to
      BY <2>1, <2>2
    <3>2. t[Len(t)] \in Printable /\ up \o t = (up \o Cut(t, Len(t) - 1)) \o <<t[Len(t)]>>
      BY <3>1, WithoutLast
    <3>3. QED
      BY <2>3, <3>1, <3>2
  <2>5. PICK y \in Printable : PROMPT \o line = (PROMPT \o Cut(line, Len(line) - 1)) \o <<y>>
    BY <1>9, PromptType, WithoutLast
  <2>6. up \o front \in Text /\ PROMPT \o Cut(line, Len(line) - 1) \in Text
    <3>1. Cut(line, Len(line) - 1) \in Text
      BY <1>9, WithoutLast, CutType
    <3>2. QED
      BY <3>1, PromptType, ConcatProperties DEF Text
  <2>7. (up \o front) \o <<x>> = (PROMPT \o Cut(line, Len(line) - 1)) \o <<y>>
    BY <2>1, <2>2, <2>4, <2>5
  <2>8. QED
    <3>1. PICK a \in Text, b \in Text :
            a = up \o front /\ b = PROMPT \o Cut(line, Len(line) - 1)
      BY <2>6
    <3>2. a \o <<x>> = b \o <<y>>
      BY <2>7, <3>1
    <3>3. a = b
      BY <3>2, SameWithoutLast
    <3>4. QED
      BY <3>1, <3>3
<1>11. input_buffer' \in Line
  <2>1. Len(line) \in Nat /\ Len(line) < MAX_CMD_LEN /\ Len(line) - 1 \in 0 .. Len(line)
    BY <1>1, <1>9, LenProperties, WithoutLast DEF Inv, TypeOK, Line, Text
  <2>2. Cut(line, Len(line) - 1) \in Text /\ Len(Cut(line, Len(line) - 1)) = Len(line) - 1
    BY <2>1, CutType
  <2>3. QED
    BY <1>4, <2>1, <2>2, ShellAssumption DEF Line
<1>12. TypeOK'
  BY <1>3, <1>4, <1>8, <1>11 DEF Erase, ring, Inv, TypeOK
<1>13. QED
  BY <1>10, <1>12 DEF Inv

\* The arrows: what they do to the line, the index and the screen.
LEMMA UpKeeps ==
    ASSUME Inv, Up, terminal' = terminal
    PROVE  /\ input_buffer' \in Line /\ history_index' \in 0 .. history_count
           /\ ScreenOK'
<1>1. CASE history_index > 0
  <2>1. history_index - 1 \in 0 .. history_count - 1 /\ history_index - 1 \in 0 .. history_count
    BY <1>1 DEF Inv, TypeOK
  <2>2. PICK l \in Line : l = Viewed(history_index - 1)
    BY <2>1, Reading DEF Inv
  <2>3. input_buffer' = l /\ Refresh(l) /\ history_index' = history_index - 1
    BY <1>1, <2>2 DEF Up
  <2>4. QED
    BY <2>1, <2>3, RefreshShows DEF Inv
<1>2. CASE ~(history_index > 0)
  BY <1>2 DEF Up, Inv, TypeOK, LineShown, ScreenOK, display
<1>3. QED
  BY <1>1, <1>2

LEMMA DownKeeps ==
    ASSUME Inv, Down, terminal' = terminal
    PROVE  /\ input_buffer' \in Line /\ history_index' \in 0 .. history_count
           /\ ScreenOK'
<1>1. CASE history_index < history_count
  <2>1. history_index + 1 \in 0 .. history_count
    BY <1>1 DEF Inv, TypeOK
  <2>2. input_buffer' \in Line
    <3>1. CASE history_index + 1 = history_count
      BY <1>1, <3>1 DEF Down, Inv, TypeOK
    <3>2. CASE history_index + 1 # history_count
      <4>1. history_index + 1 \in 0 .. history_count - 1
        BY <2>1, <3>2 DEF Inv, TypeOK
      <4>2. QED
        BY <1>1, <3>2, <4>1, Reading DEF Down, Inv
    <3>3. QED
      BY <3>1, <3>2
  <2>3. PICK l \in Line : l = input_buffer'
    BY <2>2
  <2>4. Refresh(l) /\ history_index' = history_index + 1
    BY <1>1, <2>3 DEF Down
  <2>5. QED
    BY <2>1, <2>3, <2>4, RefreshShows DEF Inv
<1>2. CASE ~(history_index < history_count)
  BY <1>2 DEF Down, Inv, TypeOK, LineShown, ScreenOK, display
<1>3. QED
  BY <1>1, <1>2

LEMMA ArrowInv == \A c \in Keys : Inv /\ Arrow(c) => Inv'
<1> SUFFICES ASSUME NEW c \in Keys, Inv, Arrow(c) PROVE Inv'
  OBVIOUS
<1>0. terminal' = terminal
  BY DEF Arrow
<1>1. input_buffer' \in Line /\ history_index' \in 0 .. history_count /\ ScreenOK'
  <2>1. CASE Up
    BY <1>0, <2>1, UpKeeps
  <2>2. CASE Down
    BY <1>0, <2>2, DownKeeps
  <2>3. CASE UNCHANGED <<history_index, input_buffer, display>>
    BY <1>0, <2>3 DEF Inv, TypeOK, LineShown, ScreenOK, display
  <2>4. QED
    BY <2>1, <2>2, <2>3 DEF Arrow
<1>2. TypeOK'
  BY <1>0, <1>1 DEF Arrow, ring, Inv, TypeOK, ScreenOK
<1>3. QED
  BY <1>1, <1>2 DEF Inv, ScreenOK

LEMMA NextInv == Inv /\ [Next]_vars => Inv'
<1> SUFFICES ASSUME Inv, [Next]_vars PROVE Inv'
  OBVIOUS
<1>1. ASSUME NEW c \in Keys, \/ Escaped(c) \/ Escape \/ Ignore(c) PROVE Inv'
  <2>1. UNCHANGED <<input_buffer, history, history_count, history_index, history_pos>>
    BY <1>1 DEF Escaped, Escape, Ignore, ring, state
  <2>2. UNCHANGED <<terminal, above, shown, cursor, astray>>
    BY <1>1 DEF Escaped, Escape, Ignore, screen, display
  <2>3. escape_state' \in 0 .. 2
    BY <1>1 DEF Escaped, Escape, Ignore, state, Inv, TypeOK
  <2>4. QED
    BY <2>1, <2>2, <2>3 DEF Inv, TypeOK, LineShown
<1>2. CASE EnterNothing
  <2>1. input_buffer' = <<>> /\ terminal' = terminal /\ Prompt /\ UNCHANGED state /\ TypeOK
    BY <1>2 DEF EnterNothing, state, Inv
  <2>2. ScreenOK'
    BY <2>1, PromptShows
  <2>3. TypeOK'
    BY <2>1, <2>2 DEF state, ScreenOK, TypeOK
  <2>4. QED
    BY <2>2, <2>3 DEF Inv, ScreenOK
<1>3. CASE UNCHANGED vars
  BY <1>3 DEF vars, state, screen, display, Inv, TypeOK, LineShown
<1>4. ASSUME NEW c \in Keys, Type(c) PROVE Inv'
  BY <1>4, TypeInv DEF Type
<1>5. QED
  BY <1>1, <1>2, <1>3, <1>4, EnterInv, EraseInv, ArrowInv DEF Next, shell_process_char

\* Whatever keys arrive, the buffer holds a line that fits, the index is one of
\* the history and the escape state one of its three values.
THEOREM TypeCorrect == Spec => []TypeOK
<1>1. Inv => TypeOK
  BY DEF Inv
<1>2. QED
  BY InitInv, NextInv, <1>1, PTL DEF Spec

\* For rows of every width and lines of every length: from each prompt and each
\* recall on, prompt and line are what the screen shows up to the cursor, until
\* a terminal that does not wrap sticks at the margin or a character is erased
\* that is not left of the cursor in its row.
THEOREM ScreenAgrees == Spec => []LineShown
<1>1. Inv => LineShown
  BY DEF Inv
<1>2. QED
  BY InitInv, NextInv, <1>1, PTL DEF Spec
----------------------------------------------------------------------------
(* The shell implements LineHistory.                                       *)

\* The list as the abstract specification sees it.
LEMMA LinesType ==
    ASSUME TypeOK
    PROVE  Lines \in Seq(Line) /\ Len(Lines) = history_count /\ history_count \in Nat
BY ListingType, ShellAssumption DEF TypeOK, Lines

LEMMA InitRefines == Init => List!Init
<1> SUFFICES ASSUME Init PROVE List!Init
  OBVIOUS
<1>1. TypeOK
  BY InitInv DEF Inv
<1>2. Lines \in Seq(Line) /\ Len(Lines) = 0
  BY <1>1, LinesType DEF Init
<1>3. Lines = <<>>
  BY <1>2, EmptySeq
<1>4. QED
  BY <1>3 DEF Init, List!Init

\* A key that does not touch the ring.
LEMMA RingAlone == UNCHANGED ring => Lines' = Lines
BY DEF ring, Lines

LEMMA EnterRefines == Inv /\ Enter => List!Enter
<1> SUFFICES ASSUME Inv, Enter PROVE List!Enter
  OBVIOUS
<1>1. Lines' = Listing(history', history_pos', history_count')
  BY DEF Lines
<1>2. Lines' = List!Remembered
  BY <1>1, SaveKeeps DEF Enter, Inv, List!Remembered
<1>3. history_count' - history_index' = 0
  BY SaveKeeps, ShellAssumption DEF Enter, Inv
<1>4. QED
  BY <1>1, <1>2, <1>3 DEF Enter, List!Enter

LEMMA UpRefines ==
    Inv /\ Up /\ UNCHANGED ring /\ output' = <<>> => List!Older \/ List!Ignore
<1> SUFFICES ASSUME Inv, Up, UNCHANGED ring, output' = <<>>
             PROVE  List!Older \/ List!Ignore
  OBVIOUS
<1>0. /\ Lines' = Lines /\ history_count' = history_count /\ Len(Lines) = history_count
      /\ history_index \in 0 .. history_count /\ history_count \in Nat
  BY RingAlone, LinesType DEF Inv, TypeOK, ring
<1>1. CASE history_index > 0
  <2>1. history_index - 1 \in 0 .. history_count - 1
    BY <1>0, <1>1
  <2>2. /\ Viewed(history_index - 1) = Lines[(history_index - 1) + 1]
    BY <2>1, Reading DEF Inv
  <2>3. /\ (history_index - 1) + 1 = Len(Lines) - (history_count - history_index)
        /\ history_count - history_index < Len(Lines)
        /\ history_count - (history_index - 1) = (history_count - history_index) + 1
    BY <1>0, <1>1
  <2>4. input_buffer' = Viewed(history_index - 1) /\ history_index' = history_index - 1
    BY <1>1 DEF Up
  <2>5. List!Older
    BY <1>0, <2>2, <2>3, <2>4 DEF List!Older
  <2>6. QED
    BY <2>5
<1>2. CASE ~(history_index > 0)
  BY <1>0, <1>2 DEF Up, List!Ignore
<1>3. QED
  BY <1>1, <1>2

LEMMA DownRefines ==
    Inv /\ Down /\ UNCHANGED ring /\ output' = <<>> => List!Newer \/ List!Ignore
<1> SUFFICES ASSUME Inv, Down, UNCHANGED ring, output' = <<>>
             PROVE  List!Newer \/ List!Ignore
  OBVIOUS
<1>0. /\ Lines' = Lines /\ history_count' = history_count /\ Len(Lines) = history_count
      /\ history_index \in 0 .. history_count /\ history_count \in Nat
  BY RingAlone, LinesType DEF Inv, TypeOK, ring
<1>1. CASE history_index < history_count
  <2>1. /\ history_index' = history_index + 1
        /\ input_buffer' = IF history_index + 1 = history_count THEN input_buffer
                           ELSE Viewed(history_index + 1)
    BY <1>1 DEF Down
  <2>2. /\ history_count - history_index > 0
        /\ history_count - (history_index + 1) = (history_count - history_index) - 1
        /\ history_index + 1 = history_count <=> history_count - history_index = 1
        /\ (history_index + 1) + 1 = Len(Lines) - (history_count - history_index) + 2
    BY <1>0, <1>1
  <2>3. history_index + 1 # history_count
          => Viewed(history_index + 1) = Lines[(history_index + 1) + 1]
    <3>1. history_index + 1 # history_count => history_index + 1 \in 0 .. history_count - 1
      BY <1>0, <1>1
    <3>2. QED
      BY <3>1, Reading DEF Inv
  <2>4. List!Newer
    BY <1>0, <2>1, <2>2, <2>3 DEF List!Newer
  <2>5. QED
    BY <2>4
<1>2. CASE ~(history_index < history_count)
  BY <1>0, <1>2 DEF Down, List!Ignore
<1>3. QED
  BY <1>1, <1>2

LEMMA NextRefines == Inv /\ [Next]_vars => [List!Next]_<<input_buffer, Lines, history_count - history_index, output>>
<1> SUFFICES ASSUME Inv, [Next]_vars
             PROVE  \/ List!Next
                    \/ UNCHANGED <<input_buffer, Lines, history_count - history_index, output>>
  OBVIOUS
<1>1. CASE UNCHANGED vars
  <2>1. UNCHANGED <<input_buffer, history, history_count, history_index, history_pos, output>>
    BY <1>1 DEF vars, state
  <2>2. QED
    BY <2>1 DEF Lines
<1>2. ASSUME NEW c \in Keys, \/ Escaped(c) \/ Escape \/ EnterNothing \/ Ignore(c)
      PROVE  List!Ignore
  <2>1. /\ UNCHANGED <<input_buffer, history, history_count, history_index, history_pos>>
        /\ output' = <<>>
    BY <1>2 DEF Escaped, Escape, EnterNothing, Ignore, ring, state
  <2>2. QED
    BY <2>1 DEF List!Ignore, Lines
<1>3. ASSUME NEW c \in Keys, Arrow(c) PROVE List!Older \/ List!Newer \/ List!Ignore
  <2>1. UNCHANGED ring /\ output' = <<>>
    BY <1>3 DEF Arrow
  <2>2. CASE Up
    BY <2>1, <2>2, UpRefines
  <2>3. CASE Down
    BY <2>1, <2>3, DownRefines
  <2>4. CASE UNCHANGED <<history_index, input_buffer, display>>
    BY <2>1, <2>4, RingAlone DEF ring, List!Ignore
  <2>5. QED
    BY <1>3, <2>2, <2>3, <2>4 DEF Arrow
<1>4. ASSUME NEW c \in Keys, Type(c) PROVE c \in Printable /\ List!Type(c)
  <2>1. UNCHANGED <<Lines, history_count, history_index>>
    BY <1>4, RingAlone DEF Type, ring
  <2>2. QED
    BY <1>4, <2>1 DEF Type, List!Type
<1>5. ASSUME Erase PROVE List!Erase
  <2>1. UNCHANGED <<Lines, history_count, history_index>>
    BY <1>5, RingAlone DEF Erase, ring
  <2>2. QED
    BY <1>5, <2>1 DEF Erase, List!Erase, Cut
<1>6. QED
  BY <1>1, <1>2, <1>3, <1>4, <1>5, EnterRefines DEF Next, shell_process_char, List!Next

\* The ring of the shell, its counters and its index are a list of the lines
\* entered and a place in it, whatever is typed: the eleventh line pushes the
\* first out, and neither the arrows nor the command history ever show another.
THEOREM ImplementsList == Spec => IsLineHistory
<1>1. Spec => []Inv
  BY InitInv, NextInv, PTL DEF Spec
<1>2. QED
  BY <1>1, InitRefines, NextRefines, PTL DEF Spec, IsLineHistory, List!Spec
=============================================================================
