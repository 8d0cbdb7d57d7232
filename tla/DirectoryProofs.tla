-------------------------- MODULE DirectoryProofs --------------------------
(* What Directory keeps for volumes of every geometry, every set of paths   *)
(* and files, with failed transfers and crashes, checked by TLAPS: it is a  *)
(* map from names to files, a listing is complete, a move loses nothing.    *)
EXTENDS Directory, SequenceTheorems, WellFoundedInduction, TLAPS

----------------------------------------------------------------------------
(* Numbers, names and slots.                                               *)

\* A set of numbers has a least one.
LEMMA Smallest ==
    ASSUME NEW S, S \subseteq Nat, S # {}
    PROVE  \E m \in S : \A k \in S : m <= k
<1> DEFINE R == OpToRel(<, Nat)
<1>1. IsWellFoundedOn(R, Nat)
  BY NatLessThanWellFounded
<1>2. \A j, k \in Nat : j < k => <<j, k>> \in R
  BY DEF OpToRel
<1> HIDE DEF R
<1>3. PICK m \in S : \A k \in S : ~(<<k, m>> \in R)
  BY <1>1, WFMin
<1>4. ASSUME NEW k \in S PROVE m <= k
  <2>1. m \in Nat /\ k \in Nat
    OBVIOUS
  <2>2. ~(k < m)
    BY <1>2, <1>3, <2>1
  <2>3. QED
    BY <2>1, <2>2
<1>5. QED
  BY <1>4

LEMMA LowestIs ==
    ASSUME NEW S, S \subseteq Nat
    PROVE  IF S = {} THEN Lowest(S) = None
           ELSE Lowest(S) \in S /\ Lowest(S) # None /\ \A j \in S : Lowest(S) <= j
<1>1. CASE S = {}
  BY <1>1 DEF Lowest
<1>2. CASE S # {}
  <2>1. \E i \in S : \A j \in S : i <= j
    BY <1>2, Smallest
  <2>2. Lowest(S) \in S /\ \A j \in S : Lowest(S) <= j
    BY <1>2, <2>1 DEF Lowest
  <2>3. Lowest(S) \in Nat
    BY <2>2
  <2>4. \A k \in Nat : k # -1
    OBVIOUS
  <2>5. QED
    BY <1>2, <2>2, <2>3, <2>4 DEF None
<1>3. QED
  BY <1>1, <1>2

LEMMA ProductIsNat == \A m, n \in Nat \ {0} : m * n \in Nat \ {0}
OBVIOUS

LEMMA Geometry ==
    /\ Stem \in Nat \ {0} /\ Extension \in Nat \ {0}
    /\ PerSector \in Nat \ {0} /\ PerCluster \in Nat \ {0}
    /\ RootClusters \in Nat \ {0} /\ SectorSize \in Nat \ {0}
    /\ Files \subseteq Nat \ {0}
BY DirectoryAssumption

LEMMA SlotsAre == \E k \in Nat : Slots = 0 .. k - 1
<1>1. RootClusters * PerCluster \in Nat \ {0}
  BY Geometry, ProductIsNat
<1>2. RootClusters * PerCluster * PerSector \in Nat \ {0}
  BY <1>1, Geometry, ProductIsNat
<1>3. QED
  BY <1>2 DEF Slots

LEMMA SlotsAreNumbers ==
    /\ Slots \subseteq Nat /\ None \notin Slots
    /\ \A i \in Slots : \A j \in 0 .. i : j \in Slots
BY SlotsAre DEF None

LEMMA MapIsSeq ==
    ASSUME NEW n \in Nat, NEW T, NEW f \in [1 .. n -> T]
    PROVE  f \in Seq(T) /\ Len(f) = n
<1>1. f \in Seq(T)
  BY SeqDef
<1>2. QED
  BY <1>1, LenProperties

\* No character of a name says "unused".
LEMMA NameChars ==
    ASSUME NEW n \in Names
    PROVE  n[1] # UNUSED /\ \E p \in Paths : n = name_to_83(p)
<1>1. PICK p \in Paths : n = name_to_83(p)
  BY DEF Names
<1>2. p \in Seq(1 .. 255)
  BY DirectoryAssumption
<1>3. PICK s \in Seq(1 .. 255) : s = StemOf(p)
  <2>1. CASE FirstDot(p) = None
    <3>1. StemOf(p) = p
      BY <2>1 DEF StemOf
    <3>2. QED
      BY <1>2, <3>1
  <2>2. CASE FirstDot(p) # None
    <3> DEFINE D == {i \in 1 .. Len(p) : p[i] = Dot}
    <3>1. D \subseteq Nat /\ D \subseteq 1 .. Len(p)
      BY <1>2
    <3> HIDE DEF D
    <3>2. FirstDot(p) \in 1 .. Len(p)
      BY <2>2, <3>1, LowestIs DEF FirstDot, D
    <3>3. PICK k \in 1 .. Len(p) : k = FirstDot(p)
      BY <3>2
    <3>4. StemOf(p) = SubSeq(p, 1, k - 1)
      BY <2>2, <3>3 DEF StemOf
    <3>5. SubSeq(p, 1, k - 1) \in Seq(1 .. 255)
      <4>1. ASSUME NEW i \in 1 .. k - 1 PROVE p[i] \in 1 .. 255
        <5>1. Len(p) \in Nat
          BY <1>2, LenProperties
        <5>2. i \in 1 .. Len(p)
          BY <3>3, <5>1
        <5>3. QED
          BY <1>2, <5>2, ElementOfSeq
      <4>2. 1 \in Int /\ k - 1 \in Int
        BY <1>2, <3>3
      <4>3. QED
        BY <4>1, <4>2, SubSeqProperties
    <3>6. QED
      BY <3>4, <3>5
  <2>3. QED
    BY <2>1, <2>2
<1>4. Field(s, Stem)[1] # UNUSED
  <2>1. Field(s, Stem)[1] = IF 1 <= Len(s) THEN toupper(s[1]) ELSE Blank
    BY Geometry DEF Field
  <2>2. CASE 1 <= Len(s)
    <3>0. 1 \in 1 .. Len(s)
      BY <2>2
    <3>1. PICK c \in 1 .. 255 : c = s[1]
      BY <3>0, ElementOfSeq
    <3>2. toupper(c) # 0
      BY DEF toupper
    <3>3. QED
      BY <2>1, <2>2, <3>1, <3>2 DEF UNUSED
  <2>3. CASE ~(1 <= Len(s))
    BY <2>1, <2>3 DEF Blank, UNUSED
  <2>4. QED
    BY <2>2, <2>3
<1>5. n[1] = Field(s, Stem)[1]
  <2>1. PICK a, b : a = Field(s, Stem) /\ b = Field(ExtensionOf(p), Extension)
    OBVIOUS
  <2> DEFINE T == {a[i] : i \in 1 .. Stem} \cup {b[i] : i \in 1 .. Extension}
  <2>2. a \in [1 .. Stem -> T] /\ b \in [1 .. Extension -> T]
    BY <2>1 DEF Field
  <2> HIDE DEF T
  <2>3. a \in Seq(T) /\ Len(a) = Stem /\ b \in Seq(T) /\ Len(b) = Extension
    BY <2>2, Geometry, MapIsSeq
  <2>4. (a \o b)[1] = a[1]
    <3>1. 1 \in 1 .. Len(a) + Len(b) /\ 1 <= Len(a)
      BY <2>3, Geometry
    <3>2. QED
      BY <2>3, <3>1, ConcatProperties
  <2>5. QED
    BY <1>1, <1>3, <2>1, <2>4 DEF name_to_83
<1>6. QED
  BY <1>1, <1>4, <1>5

AllNames == Names \cup {Nothing.name, Gone.name}
Entries == [name : AllNames, attr : Attributes, file : Nat, size : Nat]

LEMMA Blanks ==
    /\ Nothing \in Entries /\ Nothing.name[1] = UNUSED
    /\ Gone \in Entries /\ Gone.name[1] = DELETED /\ UNUSED # DELETED
    /\ Gone.attr = {}
<1>1. Nothing = [name |-> [i \in 1 .. Stem + Extension |-> UNUSED], attr |-> {}, file |-> 0, size |-> 0]
  BY DEF Nothing, Entry
<1>2. 1 \in 1 .. Stem + Extension /\ {} \in Attributes
  BY Geometry DEF Attributes
<1>3. PICK z : z = [i \in 1 .. Stem + Extension |-> UNUSED]
  OBVIOUS
<1>4. Nothing = [name |-> z, attr |-> {}, file |-> 0, size |-> 0]
  BY <1>1, <1>3
<1>5. Gone = [name |-> [z EXCEPT ![1] = DELETED], attr |-> {}, file |-> 0, size |-> 0]
  BY <1>4 DEF Gone
<1>6. z[1] = UNUSED /\ [z EXCEPT ![1] = DELETED][1] = DELETED
  BY <1>2, <1>3
<1>7. QED
  BY <1>2, <1>4, <1>5, <1>6 DEF Entries, AllNames, UNUSED, DELETED

LEMMA EntryFields ==
    ASSUME NEW n \in Names, NEW a \in Attributes, NEW f \in Nat, NEW z \in Nat
    PROVE  /\ Entry(n, a, f, z) \in Entries
           /\ Entry(n, a, f, z).name = n /\ Entry(n, a, f, z).attr = a
           /\ Entry(n, a, f, z).file = f /\ Entry(n, a, f, z).size = z
BY DEF Entry, Entries, AllNames

\* What is written to a slot.
Kept(e) == IF e.name[1] = DELETED THEN Gone ELSE e

LEMMA KeptFields ==
    ASSUME NEW e \in Entries, e.name[1] # UNUSED
    PROVE  /\ Kept(e) \in Entries /\ Kept(e).name[1] # UNUSED
           /\ Vacant(Kept(e)) <=> e.name[1] = DELETED
           /\ ~Vacant(Kept(e)) => Kept(e) = e
           /\ Visible(Kept(e)) <=> Visible(e)
BY Blanks DEF Kept, Vacant, Visible

----------------------------------------------------------------------------
(* The map that slots s and cells d are.                                   *)

Shows(s, i, n) == Visible(s[i]) /\ s[i].name = n
FoundIn(s, n) ==
    Lowest({i \in Slots : /\ Visible(s[i]) /\ s[i].name = n
                          /\ \A j \in 0 .. i : s[j].name[1] # UNUSED})
Cut(q, n) == SubSeq(q, 1, n)
FileIn(s, d, i) == [attr |-> s[i].attr, cells |-> Cut(d[s[i].file], s[i].size)]

MapOf(s, d) ==
    LET at == [n \in Names |-> FoundIn(s, n)]
        e(n) == s[at[n]]
    IN  [n \in {m \in Names : at[m] # None} |->
            [attr |-> e(n).attr, cells |-> SubSeq(d[e(n).file], 1, e(n).size)]]

LEMMA TheMap ==
    /\ FileMap = MapOf(slots, data) /\ FileMap' = MapOf(slots', data')
    /\ \A n : Find(n) = FoundIn(slots, n) /\ Find(n)' = FoundIn(slots', n)
BY DEF FileMap, MapOf, Find, FoundIn, Matches

\* No entry behind an unused one, and no two of one name.
NoGaps(s) ==
    \A i, j \in Slots : i < j /\ s[i].name[1] = UNUSED => s[j].name[1] = UNUSED
NamesApart(s) ==
    \A i, j \in Slots : Visible(s[i]) /\ Visible(s[j]) /\ s[i].name = s[j].name => i = j

Tidy(s) == s \in [Slots -> Entries] /\ NoGaps(s) /\ NamesApart(s)

\* A search finds what there is.
LEMMA SearchFinds ==
    ASSUME NEW s, Tidy(s), NEW n
    PROVE  /\ \A i \in Slots : Shows(s, i, n) => FoundIn(s, n) = i
           /\ FoundIn(s, n) # None => FoundIn(s, n) \in Slots /\ Shows(s, FoundIn(s, n), n)
<1> DEFINE M == {i \in Slots : /\ Visible(s[i]) /\ s[i].name = n
                               /\ \A j \in 0 .. i : s[j].name[1] # UNUSED}
<1>1. M \subseteq Nat /\ M \subseteq Slots /\ \A i \in M : Shows(s, i, n)
  BY SlotsAreNumbers DEF Shows
<1>2. ASSUME NEW i \in Slots, Shows(s, i, n) PROVE i \in M
  <2>1. s[i].name[1] # UNUSED
    BY <1>2 DEF Shows, Visible, Vacant
  <2>2. ASSUME NEW j \in 0 .. i, s[j].name[1] = UNUSED PROVE FALSE
    <3>1. j \in Slots /\ i \in Nat /\ j \in Nat /\ j <= i
      BY SlotsAreNumbers
    <3>2. j < i \/ j = i
      BY <3>1
    <3>3. QED
      BY <2>1, <2>2, <3>1, <3>2 DEF Tidy, NoGaps
  <2>3. QED
    BY <1>2, <2>2 DEF Shows
<1>3. FoundIn(s, n) = Lowest(M)
  BY DEF FoundIn
<1> HIDE DEF M
<1>4. FoundIn(s, n) # None => FoundIn(s, n) \in M
  BY <1>1, <1>3, LowestIs
<1>5. ASSUME NEW i \in Slots, Shows(s, i, n) PROVE FoundIn(s, n) = i
  <2>1. FoundIn(s, n) \in M
    BY <1>1, <1>2, <1>3, <1>5, LowestIs
  <2>2. FoundIn(s, n) \in Slots /\ Shows(s, FoundIn(s, n), n)
    BY <1>1, <2>1
  <2>3. QED
    BY <1>5, <2>2 DEF Tidy, NamesApart, Shows
<1>6. QED
  BY <1>1, <1>4, <1>5

LEMMA MapIs ==
    ASSUME NEW s, Tidy(s), NEW d
    PROVE  /\ DOMAIN MapOf(s, d) = {n \in Names : \E i \in Slots : Shows(s, i, n)}
           /\ \A n \in Names : \A i \in Slots :
                 Shows(s, i, n) => MapOf(s, d)[n] = FileIn(s, d, i)
           /\ MapOf(s, d) = [n \in DOMAIN MapOf(s, d) |-> MapOf(s, d)[n]]
<1>1. \A n \in Names : FoundIn(s, n) # None <=> \E i \in Slots : Shows(s, i, n)
  BY SearchFinds, SlotsAreNumbers
<1>2. DOMAIN MapOf(s, d) = {n \in Names : FoundIn(s, n) # None}
  BY DEF MapOf
<1>3. ASSUME NEW n \in Names, NEW i \in Slots, Shows(s, i, n)
      PROVE  MapOf(s, d)[n] = FileIn(s, d, i)
  <2>1. FoundIn(s, n) = i
    BY <1>3, SearchFinds
  <2>2. n \in {m \in Names : FoundIn(s, m) # None}
    BY <1>1, <1>3
  <2>3. QED
    BY <2>1, <2>2 DEF MapOf, FileIn, Cut
<1>4. MapOf(s, d) = [n \in DOMAIN MapOf(s, d) |-> MapOf(s, d)[n]]
  BY DEF MapOf
<1>5. QED
  BY <1>1, <1>2, <1>3, <1>4

LEMMA MapShows ==
    ASSUME NEW s, Tidy(s), NEW d, NEW n \in Names, NEW i \in Slots, Shows(s, i, n)
    PROVE  MapOf(s, d)[n] = FileIn(s, d, i)
BY MapIs

NameAt(e) == IF Visible(e) THEN {e.name} ELSE {}

WrittenMap(s, d, i, t, c) ==
    [m \in (DOMAIN MapOf(s, d) \ NameAt(s[i])) \cup NameAt(t[i]) |->
        IF m \in NameAt(t[i]) THEN FileIn(t, c, i) ELSE MapOf(s, d)[m]]

\* What a write to one slot does to the map.
LEMMA WriteMap ==
    ASSUME NEW s, NEW d, Tidy(s), NEW i \in Slots, NEW t, NEW c,
           Tidy(t), \A j \in Slots \ {i} : t[j] = s[j], Visible(t[i]) => t[i].name \in Names,
           \A j \in Slots \ {i} : Visible(s[j]) => FileIn(t, c, j) = FileIn(s, d, j)
    PROVE  MapOf(t, c) = WrittenMap(s, d, i, t, c)
<1>1. PICK e : t[i] = e /\ \A j \in Slots \ {i} : t[j] = s[j]
  OBVIOUS
<1> DEFINE D == (DOMAIN MapOf(s, d) \ NameAt(s[i])) \cup NameAt(e)
<1>2. \A m \in NameAt(e) : Shows(t, i, m) /\ m \in Names
  BY <1>1 DEF NameAt, Shows
<1>3. \A j \in Slots \ {i} : \A m : Shows(t, j, m) <=> Shows(s, j, m)
  BY <1>1 DEF Shows
<1>4. ASSUME NEW m \in Names, \E j \in Slots : Shows(t, j, m) PROVE m \in D
  <2>1. PICK j \in Slots : Shows(t, j, m)
    BY <1>4
  <2>2. CASE j = i
    BY <1>1, <2>1, <2>2 DEF Shows, NameAt
  <2>3. CASE j # i
    <3>1. Shows(s, j, m)
      BY <1>3, <2>1, <2>3
    <3>2. m \notin NameAt(s[i])
      BY <2>3, <3>1 DEF NameAt, Shows, Tidy, NamesApart
    <3>3. QED
      BY <3>1, <3>2, MapIs
  <2>4. QED
    BY <2>2, <2>3
<1>5. ASSUME NEW m \in D, m \notin NameAt(e)
      PROVE  \E j \in Slots \ {i} : Shows(s, j, m) /\ Shows(t, j, m) /\ m \in Names
  <2>0. m \in DOMAIN MapOf(s, d) /\ m \notin NameAt(s[i])
    BY <1>5
  <2>1. m \in Names /\ m \notin NameAt(s[i]) /\ \E j \in Slots : Shows(s, j, m)
    <3> HIDE DEF D
    <3>1. DOMAIN MapOf(s, d) = {n \in Names : \E j \in Slots : Shows(s, j, n)}
      BY MapIs
    <3>2. QED
      BY <2>0, <3>1
  <2>2. PICK j \in Slots : Shows(s, j, m)
    BY <2>1
  <2>3. j # i
    BY <2>1, <2>2 DEF NameAt, Shows
  <2>4. QED
    BY <1>3, <2>1, <2>2, <2>3
<1>6. DOMAIN MapOf(t, c) = D
  <2>1. DOMAIN MapOf(t, c) = {m \in Names : \E j \in Slots : Shows(t, j, m)}
    BY MapIs
  <2>2. \A m \in D : m \in Names /\ \E j \in Slots : Shows(t, j, m)
    BY <1>2, <1>5
  <2> HIDE DEF D
  <2>3. QED
    BY <1>4, <2>1, <2>2
<1>7. ASSUME NEW m \in D
      PROVE  MapOf(t, c)[m] = IF m \in NameAt(e) THEN FileIn(t, c, i) ELSE MapOf(s, d)[m]
  <2>1. CASE m \in NameAt(e)
    BY <1>2, <2>1, MapIs
  <2>2. CASE m \notin NameAt(e)
    <3>1. PICK j \in Slots \ {i} : Shows(s, j, m) /\ Shows(t, j, m) /\ m \in Names
      BY <1>5, <2>2
    <3>2. MapOf(t, c)[m] = FileIn(t, c, j)
      BY <3>1, MapShows
    <3>3. MapOf(s, d)[m] = FileIn(s, d, j)
      BY <3>1, MapShows
    <3>4. QED
      BY <1>1, <2>2, <3>1, <3>2, <3>3 DEF Shows
  <2>3. QED
    BY <2>1, <2>2
<1>8. MapOf(t, c) = [m \in DOMAIN MapOf(t, c) |-> MapOf(t, c)[m]]
  BY MapIs
<1> HIDE DEF D
<1>9. QED
  BY <1>1, <1>6, <1>7, <1>8 DEF D, WrittenMap

\* Cells no entry covers do not show.
LEMMA SameMap ==
    ASSUME NEW s, Tidy(s), NEW d, NEW c,
           \A i \in Slots : Visible(s[i]) => FileIn(s, c, i) = FileIn(s, d, i)
    PROVE  MapOf(s, c) = MapOf(s, d)
<1>1. DOMAIN MapOf(s, c) = DOMAIN MapOf(s, d)
  BY MapIs
<1>2. ASSUME NEW m \in DOMAIN MapOf(s, d) PROVE MapOf(s, c)[m] = MapOf(s, d)[m]
  <2>1. PICK i \in Slots : Shows(s, i, m) /\ m \in Names
    BY MapIs
  <2>2. MapOf(s, c)[m] = FileIn(s, c, i) /\ MapOf(s, d)[m] = FileIn(s, d, i)
    BY <2>1, MapIs
  <2>3. QED
    BY <2>1, <2>2 DEF Shows
<1>3. /\ MapOf(s, c) = [m \in DOMAIN MapOf(s, c) |-> MapOf(s, c)[m]]
      /\ MapOf(s, d) = [m \in DOMAIN MapOf(s, d) |-> MapOf(s, d)[m]]
  BY MapIs
<1>4. QED
  BY <1>1, <1>2, <1>3

----------------------------------------------------------------------------
(* Which entries and cells are in order.                                   *)

Cells == Stamps \cup {Stale}

\* No two entries have one file.
FilesApart(s, u) ==
    /\ \A i \in Slots : ~Vacant(s[i]) => s[i].file \in u /\ s[i].name \in Names
    /\ \A i, j \in Slots :
          ~Vacant(s[i]) /\ ~Vacant(s[j]) /\ s[i].file = s[j].file => i = j

SizesFit(s, d) == \A i \in Slots : ~Vacant(s[i]) => s[i].size <= Len(d[s[i].file])

Good(s, u, d) == Tidy(s) /\ FilesApart(s, u) /\ SizesFit(s, d)

LEMMA GoodSize ==
    ASSUME NEW s, NEW u, NEW d, Good(s, u, d), u \subseteq Files, d \in [Files -> Seq(Cells)],
           NEW i \in Slots, ~Vacant(s[i])
    PROVE  /\ s[i] \in Entries /\ s[i].file \in u /\ s[i].file \in Files /\ s[i].name \in Names
           /\ d[s[i].file] \in Seq(Cells) /\ Len(d[s[i].file]) \in Nat
           /\ s[i].size \in Nat /\ s[i].size <= Len(d[s[i].file])
<1>1. s[i] \in Entries /\ s[i].file \in u /\ s[i].name \in Names /\ s[i].size <= Len(d[s[i].file])
  BY DEF Good, Tidy, FilesApart, SizesFit
<1>2. s[i].file \in Files /\ s[i].size \in Nat
  BY <1>1 DEF Entries
<1>3. QED
  BY <1>1, <1>2

\* A write to one slot keeps them so.
LEMMA WriteGood ==
    ASSUME NEW s, NEW u, NEW d, Good(s, u, d), NEW i \in Slots, NEW t \in [Slots -> Entries],
           \A j \in Slots \ {i} : t[j] = s[j], NEW v, NEW c,
           t[i].name[1] # UNUSED,
           s[i].name[1] = UNUSED => \A j \in Slots : j < i => s[j].name[1] # UNUSED,
           Visible(t[i]) => \A j \in Slots \ {i} : ~Shows(s, j, t[i].name),
           ~Vacant(t[i]) => /\ t[i].file \in v /\ t[i].name \in Names
                            /\ t[i].size <= Len(c[t[i].file]),
           ~Vacant(t[i]) => \A j \in Slots \ {i} : ~Vacant(s[j]) => s[j].file # t[i].file,
           \A j \in Slots \ {i} :
              ~Vacant(s[j]) => s[j].file \in v /\ s[j].size <= Len(c[s[j].file])
    PROVE  Good(t, v, c)
<1>1. s \in [Slots -> Entries] /\ NoGaps(s) /\ NamesApart(s)
  BY DEF Good, Tidy
<1>2. PICK e : t \in [Slots -> Entries] /\ t[i] = e /\ \A j \in Slots \ {i} : t[j] = s[j]
  OBVIOUS
<1>3. NoGaps(t)
  <2>1. SUFFICES ASSUME NEW j \in Slots, NEW k \in Slots, j < k, t[j].name[1] = UNUSED
                 PROVE  t[k].name[1] = UNUSED
    BY DEF NoGaps
  <2>2. j # i /\ s[j].name[1] = UNUSED
    BY <1>2, <2>1
  <2>3. s[k].name[1] = UNUSED
    BY <1>1, <2>1, <2>2 DEF NoGaps
  <2>4. k # i
    BY <2>1, <2>2, <2>3
  <2>5. QED
    BY <1>2, <2>3, <2>4
<1>4. NamesApart(t)
  BY <1>1, <1>2 DEF NamesApart, Shows
<1>5. FilesApart(t, v)
  <2>1. FilesApart(s, u)
    BY DEF Good
  <2>2. ASSUME NEW j \in Slots, ~Vacant(t[j]) PROVE t[j].file \in v /\ t[j].name \in Names
    BY <1>2, <2>1, <2>2 DEF FilesApart
  <2>3. ASSUME NEW j \in Slots, NEW k \in Slots,
               ~Vacant(t[j]), ~Vacant(t[k]), t[j].file = t[k].file
        PROVE  j = k
    BY <1>2, <2>1, <2>3 DEF FilesApart
  <2>4. QED
    BY <2>2, <2>3 DEF FilesApart
<1>6. SizesFit(t, c)
  BY <1>2 DEF SizesFit
<1>7. QED
  BY <1>2, <1>3, <1>4, <1>5, <1>6 DEF Good, Tidy

----------------------------------------------------------------------------
(* What is what.                                                           *)

Kinds == {"none", "list", "copy", "move", "remove"}
Handles == [open : BOOLEAN, dir : BOOLEAN, slot : Slots \cup {None}, file : Nat, size : Nat]
Jobs == [kind : Kinds, from : Names \cup {<<>>}, to : Names \cup {<<>>},
         source : Handles, target : Handles, failed : BOOLEAN]

TypeInv ==
    /\ mounted \in BOOLEAN /\ sound \in BOOLEAN
    /\ slots \in [Slots -> Entries] /\ used \subseteq Files
    /\ handle \in Handles /\ (handle.open => handle.slot \in Slots)
    /\ lister \in [open : BOOLEAN, cluster : Nat, position : Nat]
    /\ job \in Jobs

LEMMA FindIs ==
    ASSUME TypeInv, NEW n
    PROVE  Find(n) # None => Find(n) \in Slots /\ Shows(slots, Find(n), n) /\ ~Vacant(slots[Find(n)])
<1>1. Matches(n) \subseteq Nat /\ Matches(n) \subseteq Slots
  BY SlotsAreNumbers DEF Matches
<1>2. Find(n) # None => Find(n) \in Matches(n)
  BY <1>1, LowestIs DEF Find
<1>3. QED
  BY <1>1, <1>2 DEF Matches, Shows, Visible

LEMMA PlaceIs ==
    ASSUME TypeInv
    PROVE  /\ Place # None => /\ Place \in Slots /\ Vacant(slots[Place])
                              /\ \A j \in Slots : j < Place => ~Vacant(slots[j])
           /\ NewFile # None => NewFile \in Files \ used
<1> DEFINE V == {i \in Slots : Vacant(slots[i])}
<1>1. V \subseteq Nat /\ Files \ used \subseteq Nat
  BY SlotsAreNumbers, Geometry
<1>2. NewFile # None => NewFile \in Files \ used
  BY <1>1, LowestIs DEF NewFile
<1>3. Place = Lowest(V)
  BY DEF Place
<1> HIDE DEF V
<1>4. Place # None => Place \in V /\ \A j \in V : Place <= j
  BY <1>1, <1>3, LowestIs
<1>5. ASSUME Place # None, NEW j \in Slots, j < Place PROVE ~Vacant(slots[j])
  <2>0. Place \in Nat /\ j \in Nat /\ (j \in V => Place <= j)
    BY <1>1, <1>4, <1>5, SlotsAreNumbers
  <2>1. j \notin V
    BY <1>5, <2>0
  <2>2. QED
    BY <2>1 DEF V
<1>6. QED
  BY <1>2, <1>4, <1>5 DEF V

LEMMA PutType ==
    ASSUME slots \in [Slots -> Entries], NEW i, NEW e \in Entries, Put(i, e)
    PROVE  slots' = [slots EXCEPT ![i] = Kept(e)] /\ slots' \in [Slots -> Entries]
<1>1. Kept(e) \in Entries
  BY Blanks DEF Kept
<1>2. QED
  BY <1>1 DEF Put, Kept

LEMMA HandleTypes ==
    ASSUME TypeInv
    PROVE  /\ NoHandle \in Handles /\ ~NoHandle.open
           /\ NewHandle \in Handles \/ Place = None \/ NewFile = None
           /\ \A i \in Slots : HandleOn(i) \in Handles /\ HandleOn(i).slot = i
                               /\ HandleOn(i).file = slots[i].file /\ HandleOn(i).size = slots[i].size
                               /\ HandleOn(i).dir = ("directory" \in slots[i].attr)
<1>1. NoHandle \in Handles /\ ~NoHandle.open
  BY DEF NoHandle, Handles
<1>2. ASSUME Place # None, NewFile # None PROVE NewHandle \in Handles
  <2>1. Place \in Slots /\ NewFile \in Nat
    BY <1>2, PlaceIs, Geometry
  <2>2. QED
    BY <1>1, <2>1 DEF NewHandle, Handles
<1>3. ASSUME NEW i \in Slots
      PROVE  HandleOn(i) \in Handles /\ HandleOn(i).slot = i
             /\ HandleOn(i).file = slots[i].file /\ HandleOn(i).size = slots[i].size
             /\ HandleOn(i).dir = ("directory" \in slots[i].attr)
  <2>1. slots[i] \in Entries
    BY DEF TypeInv
  <2>2. QED
    BY <2>1 DEF HandleOn, Handles, Entries
<1>4. QED
  BY <1>1, <1>2, <1>3

LEMMA JobTypes == NoJob \in Jobs /\ NoJob.kind = "none" /\ [NoJob EXCEPT !.kind = "list"] \in Jobs
BY DEF NoJob, Jobs, Kinds, NoHandle, Handles

LEMMA PathNames == \A p \in Paths : name_to_83(p) \in Names
BY DEF Names

\* Of a new entry.
\* An entry that is put astray, but in the root, is put in a vacant slot.
LEMMA AstrayEntry ==
    ASSUME TypeInv, CreateAstray
    PROVE  \/ UNCHANGED slots
           \/ \E i \in Slots, e \in Entries :
                 Put(i, e) /\ Vacant(slots[i]) /\ e.name[1] # UNUSED
<1> SUFFICES ASSUME NEW p \in Paths, NEW a \in {{}, {"directory"}}, NEW c \in 1 .. RootClusters - 1,
                    PlaceBehind(c) # None, Put(PlaceBehind(c), Entry(name_to_83(p), a, NewFile, 0))
             PROVE  \E i \in Slots, e \in Entries :
                       Put(i, e) /\ Vacant(slots[i]) /\ e.name[1] # UNUSED
  BY DEF CreateAstray
<1> DEFINE V == {i \in Slots : Vacant(slots[i]) /\ i >= c * PerCluster * PerSector}
<1>1. V \subseteq Nat /\ PlaceBehind(c) = Lowest(V)
  BY SlotsAreNumbers DEF PlaceBehind
<1>2. \A i \in V : i \in Slots /\ Vacant(slots[i])
  OBVIOUS
<1> HIDE DEF V
<1>3. PICK i \in Slots : i = PlaceBehind(c) /\ Vacant(slots[i])
  BY <1>1, <1>2, LowestIs
<1>4. NewFile \in Nat /\ a \in Attributes
  BY PlaceIs, Geometry DEF CreateAstray, Attributes
<1>5. PICK n \in Names : n = name_to_83(p)
  BY PathNames
<1>6. PICK e \in Entries : e = Entry(n, a, NewFile, 0) /\ e.name = n
  BY <1>4, EntryFields
<1>7. Put(i, e) /\ e.name[1] # UNUSED
  BY <1>3, <1>5, <1>6, NameChars
<1>8. QED
  BY <1>3, <1>7

LEMMA MakeType ==
    ASSUME TypeInv, NEW n \in Names, NEW a \in Attributes, MakeEntry(n, a)
    PROVE  /\ slots' \in [Slots -> Entries] /\ used' \subseteq Files /\ sound' \in BOOLEAN
           /\ slots' = [slots EXCEPT ![Place] = Kept(Entry(n, a, NewFile, 0))]
           /\ Entry(n, a, NewFile, 0) \in Entries
<1>1. Place \in Slots /\ NewFile \in Files /\ NewFile \in Nat
  BY PlaceIs, Geometry DEF MakeEntry
<1>2. Entry(n, a, NewFile, 0) \in Entries
  BY <1>1, EntryFields
<1>3. PICK e \in Entries : e = Entry(n, a, NewFile, 0) /\ Put(Place, e)
  BY <1>2 DEF MakeEntry
<1>4. slots' = [slots EXCEPT ![Place] = Kept(e)] /\ slots' \in [Slots -> Entries]
  BY <1>3, PutType DEF TypeInv
<1>5. used' \subseteq Files /\ sound' \in BOOLEAN
  BY <1>1 DEF MakeEntry, TypeInv
<1>6. QED
  BY <1>2, <1>3, <1>4, <1>5

\* Of an entry that is changed where it is.
LEMMA ChangeType ==
    ASSUME TypeInv, NEW i \in Slots
    PROVE  /\ \A n \in Names : [slots[i] EXCEPT !.name = n] \in Entries
           /\ \A a \in Attributes : [slots[i] EXCEPT !.attr = a] \in Entries
           /\ \A z \in Nat : [slots[i] EXCEPT !.size = z] \in Entries
           /\ \A n \in Names : /\ [slots[i] EXCEPT !.name = n].name = n
                               /\ [slots[i] EXCEPT !.name = n].attr = slots[i].attr
                               /\ [slots[i] EXCEPT !.name = n].file = slots[i].file
                               /\ [slots[i] EXCEPT !.name = n].size = slots[i].size
           /\ \A a \in Attributes : /\ [slots[i] EXCEPT !.attr = a].name = slots[i].name
                                    /\ [slots[i] EXCEPT !.attr = a].attr = a
                                    /\ [slots[i] EXCEPT !.attr = a].file = slots[i].file
                                    /\ [slots[i] EXCEPT !.attr = a].size = slots[i].size
           /\ \A z \in Nat : /\ [slots[i] EXCEPT !.size = z].name = slots[i].name
                             /\ [slots[i] EXCEPT !.size = z].attr = slots[i].attr
                             /\ [slots[i] EXCEPT !.size = z].file = slots[i].file
                             /\ [slots[i] EXCEPT !.size = z].size = z
<1>1. slots[i] \in Entries
  BY DEF TypeInv
<1>2. QED
  BY <1>1 DEF Entries, AllNames

\* What Erase does to the slots.
LEMMA EraseType ==
    ASSUME TypeInv, NEW n \in Names, NEW dir, Erase(Find(n), dir)
    PROVE  /\ slots' \in [Slots -> Entries] /\ used' \subseteq Files /\ sound' \in BOOLEAN
           /\ Find(n) \in Slots /\ Find(n) # None
           /\ slots' = slots \/ slots' = [slots EXCEPT ![Find(n)] = Gone]
<1>1. Find(n) \in Slots /\ Find(n) # None
  BY FindIs DEF Erase
<1>2. Kept(Gone) = Gone
  BY DEF Kept
<1>3. slots' = slots \/ Put(Find(n), Gone)
  BY DEF Erase
<1>4. slots' = slots \/ (slots' = [slots EXCEPT ![Find(n)] = Gone] /\ slots' \in [Slots -> Entries])
  BY <1>2, <1>3, Blanks, PutType DEF TypeInv
<1>5. used' \subseteq Files /\ sound' \in BOOLEAN
  BY DEF Erase, TypeInv
<1>6. QED
  BY <1>1, <1>4, <1>5 DEF TypeInv

\* What closing the target of a copy does to them.
LEMMA CloseTargetType ==
    ASSUME TypeInv, CloseTarget
    PROVE  /\ slots' \in [Slots -> Entries] /\ used' = used
           /\ \A i \in Slots : /\ slots'[i].name = slots[i].name /\ slots'[i].attr = slots[i].attr
                               /\ slots'[i].file = slots[i].file
<1>1. job.target.size \in Nat
  BY DEF TypeInv, Jobs, Handles
<1>2. PICK k : \E z \in Nat : k = job.target.slot /\ z = job.target.size
  BY <1>1
<1>20. PICK z \in Nat : k = job.target.slot /\ z = job.target.size
  BY <1>2
<1>3. slots' = slots \/ slots' = [slots EXCEPT ![k].size = z]
  BY <1>20 DEF CloseTarget
<1>4. slots \in [Slots -> Entries] /\ used' = used
  BY DEF TypeInv, CloseTarget
<1>5. CASE slots' = [slots EXCEPT ![k].size = z]
  <2>1. slots' = [slots EXCEPT ![k] = [slots[k] EXCEPT !.size = z]]
    BY <1>5
  <2>2. \A i \in Slots : slots'[i] = IF i = k THEN [slots[i] EXCEPT !.size = z] ELSE slots[i]
    BY <1>4, <2>1
  <2>3. ASSUME NEW i \in Slots
        PROVE  /\ slots'[i].name = slots[i].name /\ slots'[i].attr = slots[i].attr
               /\ slots'[i].file = slots[i].file /\ slots'[i] \in Entries
    <3>1. slots[i] \in Entries
      BY <1>4
    <3>2. CASE i = k
      <4>1. PICK e : e = [slots[i] EXCEPT !.size = z]
        OBVIOUS
      <4>2. /\ e \in Entries /\ e.name = slots[i].name /\ e.attr = slots[i].attr
            /\ e.file = slots[i].file
        BY <3>1, <4>1 DEF Entries
      <4>3. QED
        BY <2>2, <3>2, <4>1, <4>2
    <3>3. CASE i # k
      BY <2>2, <3>1, <3>3
    <3>4. QED
      BY <3>2, <3>3
  <2>4. QED
    BY <1>4, <2>1, <2>3
<1>6. QED
  BY <1>3, <1>4, <1>5

----------------------------------------------------------------------------
(* The steps that change the directory little, or not at all.              *)

Quiet == Mount \/ Umount \/ Refuse \/ \E p \in Paths : Tell(p)
ListStep ==
    OpenRoot \/ CloseRoot \/ ReadDirEnds \/ ReadDirFails \/ ReadDirReturns \/ ReadDirGoesOn
    \/ ReadDirAstray

LEMMA QuietSteps ==
    ASSUME TypeInv, Quiet
    PROVE  /\ UNCHANGED <<disk, handle, lister, job, sound, seen, kept>>
           /\ mounted' \in BOOLEAN
           /\ mounted' = mounted \/ mounted' = TRUE \/ (mounted' = FALSE /\ job = NoJob)
<1>1. CASE Mount
  BY <1>1 DEF Mount
<1>2. CASE Umount
  BY <1>2 DEF Umount, Idle
<1>3. CASE Refuse
  BY <1>3 DEF Refuse, TypeInv
<1>4. CASE \E p \in Paths : Tell(p)
  <2>1. PICK p \in Paths : Tell(p)
    BY <1>4
  <2>2. UNCHANGED <<mounted, disk, handle, lister, job, sound, seen, kept>>
    BY <2>1 DEF Tell
  <2>3. QED
    BY <2>2 DEF TypeInv
<1>5. QED
  BY <1>1, <1>2, <1>3, <1>4 DEF Quiet

Listers == [open : BOOLEAN, cluster : Nat, position : Nat]

LEMMA StopIs ==
    ASSUME lister \in Listers
    PROVE  /\ Position \in Nat /\ Cluster \in Nat
           /\ Position \div PerSector \in Nat /\ Position % PerSector \in 0 .. PerSector - 1
           /\ Position = PerSector * (Position \div PerSector) + (Position % PerSector)
           /\ Stop # None => /\ Stop \in Position % PerSector .. PerSector - 1
                             /\ slots[SlotAt(Stop)].name[1] = UNUSED \/ Visible(slots[SlotAt(Stop)])
           /\ \A o \in Position % PerSector .. PerSector - 1 :
                 Stop = None \/ o < Stop =>
                   slots[SlotAt(o)].name[1] # UNUSED /\ ~Visible(slots[SlotAt(o)])
<1>1. Position \in Nat /\ Cluster \in Nat
  BY DEF Position, Cluster, Listers
<1>2. \A n \in Nat : \A m \in Nat \ {0} :
         n \div m \in Nat /\ n % m \in 0 .. m - 1 /\ n = m * (n \div m) + (n % m)
  OBVIOUS
<1>3. /\ Position \div PerSector \in Nat /\ Position % PerSector \in 0 .. PerSector - 1
      /\ Position = PerSector * (Position \div PerSector) + (Position % PerSector)
  BY <1>1, <1>2, Geometry
<1>4. PICK r \in 0 .. PerSector - 1 : r = Position % PerSector
  BY <1>3
<1> DEFINE E(o) == slots[SlotAt(o)].name[1] = UNUSED \/ Visible(slots[SlotAt(o)])
           S == {o \in r .. PerSector - 1 : E(o)}
<1>5. S \subseteq Nat /\ Stop = Lowest(S)
  BY <1>4, Geometry DEF Stop
<1>50. r .. PerSector - 1 \subseteq Nat
  BY Geometry
<1>6. \A o \in S : o \in r .. PerSector - 1 /\ E(o)
  OBVIOUS
<1>7. \A o \in r .. PerSector - 1 : o \notin S => ~E(o)
  OBVIOUS
<1> HIDE DEF S, E
<1>8. /\ Stop # None => Stop \in S /\ \A j \in S : Stop <= j
      /\ Stop = None => S = {}
  BY <1>5, LowestIs
<1>9. ASSUME NEW o \in r .. PerSector - 1, Stop = None \/ o < Stop PROVE ~E(o)
  <2>1. CASE Stop = None
    BY <1>7, <1>8, <2>1
  <2>2. CASE Stop # None
    <3>1. o < Stop /\ Stop \in Nat /\ o \in Nat
      BY <1>9, <2>2, <1>50, <1>8, <1>5
    <3>2. ~(Stop <= o)
      BY <3>1
    <3>3. QED
      BY <1>7, <1>8, <2>2, <3>2
  <2>3. QED
    BY <2>1, <2>2
<1>10. /\ Stop # None => Stop \in r .. PerSector - 1 /\ E(Stop)
       /\ \A o \in r .. PerSector - 1 : Stop = None \/ o < Stop => ~E(o)
  BY <1>6, <1>8, <1>9
<1>11. QED
  BY <1>1, <1>3, <1>4, <1>10 DEF E

LEMMA ListSteps ==
    ASSUME TypeInv, ListStep
    PROVE  /\ UNCHANGED <<mounted, disk, handle, sound>> /\ answer' = No
           /\ lister' \in Listers
           /\ job.kind \in {"none", "list"}
           /\ job' = job \/ job' = NoJob \/ job' = [NoJob EXCEPT !.kind = "list"]
<1>0. lister \in Listers /\ NoLister \in Listers /\ NoLister.open = FALSE
  BY DEF TypeInv, Listers, NoLister
<1>1. CASE OpenRoot
  BY <1>0, <1>1, JobTypes DEF OpenRoot, Idle, Listers
<1>2. CASE CloseRoot
  BY <1>0, <1>2, JobTypes DEF CloseRoot
<1>3. CASE ReadDirEnds
  <2>1. LastOne \in Nat
    BY Geometry DEF LastOne
  <2>2. Position \in Nat /\ Cluster \in Nat
    BY <1>0, StopIs
  <2>3. lister' \in Listers
    BY <1>0, <1>3, <2>1, <2>2 DEF ReadDirEnds, Listers
  <2>4. QED
    BY <1>3, <2>3 DEF ReadDirEnds, Listing
<1>4. CASE ReadDirFails
  <2>2. Position \in Nat /\ Cluster \in Nat
    BY <1>0, StopIs
  <2>3. lister' \in Listers
    BY <1>0, <1>4, <2>2 DEF ReadDirFails, Listers
  <2>4. QED
    BY <1>4, <2>3 DEF ReadDirFails, Listing
<1>5. CASE ReadDirReturns
  <2>1. Stop \in Nat /\ Cluster \in Nat /\ Position \div PerSector \in Nat
    BY <1>0, <1>5, StopIs, Geometry DEF ReadDirReturns
  <2>2. (Position \div PerSector) * PerSector + Stop + 1 \in Nat
    BY <2>1, Geometry
  <2>3. lister' \in Listers
    BY <1>0, <1>5, <2>1, <2>2 DEF ReadDirReturns, Listers
  <2>4. QED
    BY <1>5, <2>3 DEF ReadDirReturns, Listing
<1>6. CASE ReadDirGoesOn
  <2>1. Cluster \in Nat /\ Position \div PerSector \in Nat
    BY <1>0, StopIs
  <2>2. (Position \div PerSector + 1) * PerSector \in Nat
    BY <2>1, Geometry
  <2>3. lister' \in Listers
    BY <1>0, <1>6, <2>1, <2>2 DEF ReadDirGoesOn, Listers
  <2>4. QED
    BY <1>6, <2>3 DEF ReadDirGoesOn, Listing
<1>7. CASE ReadDirAstray
  <2>1. BAD \in Nat
    BY Geometry DEF BAD, LastOne
  <2>2. lister' \in Listers
    BY <1>0, <1>7, <2>1 DEF ReadDirAstray, Listers
  <2>3. QED
    BY <1>7, <2>2 DEF ReadDirAstray, Listing
<1>8. QED
  BY <1>1, <1>2, <1>3, <1>4, <1>5, <1>6, <1>7 DEF ListStep

----------------------------------------------------------------------------
(* Every step keeps the types.                                             *)

LEMMA NewHandleIs ==
    /\ NewHandle.open = TRUE /\ NewHandle.dir = FALSE /\ NewHandle.slot = Place
    /\ NewHandle.file = NewFile /\ NewHandle.size = 0
BY DEF NewHandle, NoHandle

LEMMA InitType == Init => TypeInv
<1> SUFFICES ASSUME Init PROVE TypeInv
  OBVIOUS
<1>1. PICK f \in Formatted :
        /\ slots = [i \in Slots |->
              IF i < Len(f) THEN Entry(name_to_83(f[i + 1].path), f[i + 1].attr, f[i + 1].file,
                                       Len(f[i + 1].cells))
              ELSE Nothing]
        /\ used = {f[i].file : i \in DOMAIN f}
  BY DEF Init
<1>2. f \in Seq([path : Paths, attr : Attributes, file : Files, cells : Seq(Stamps)])
  BY FormattedAssumption
<1>3. ASSUME NEW i \in DOMAIN f
      PROVE  /\ f[i].path \in Paths /\ f[i].attr \in Attributes /\ f[i].file \in Files
             /\ f[i].cells \in Seq(Stamps)
  <2> DEFINE T == [path : Paths, attr : Attributes, file : Files, cells : Seq(Stamps)]
  <2>1. \A g \in T : g.path \in Paths /\ g.attr \in Attributes /\ g.file \in Files /\ g.cells \in Seq(Stamps)
    OBVIOUS
  <2>2. f \in Seq(T)
    BY <1>2
  <2> HIDE DEF T
  <2>3. f[i] \in T
    BY <2>2, LenProperties, ElementOfSeq
  <2>4. QED
    BY <2>1, <2>3
<1>4. used \subseteq Files
  BY <1>1, <1>3
<1>5. ASSUME NEW i \in Slots PROVE slots[i] \in Entries
  <2>1. CASE i < Len(f)
    <3>1. i + 1 \in DOMAIN f
      <4>1. i \in Nat /\ Len(f) \in Nat /\ DOMAIN f = 1 .. Len(f)
        BY <1>2, SlotsAreNumbers
      <4>2. QED
        BY <2>1, <4>1
    <3>2. PICK k \in DOMAIN f : k = i + 1
      BY <3>1
    <3>3. slots[i] = Entry(name_to_83(f[k].path), f[k].attr, f[k].file, Len(f[k].cells))
      BY <1>1, <2>1, <3>2
    <3>4. /\ name_to_83(f[k].path) \in Names /\ f[k].attr \in Attributes
          /\ f[k].file \in Nat /\ Len(f[k].cells) \in Nat
      <4>1. \A c \in Seq(Stamps) : Len(c) \in Nat
        BY LenProperties
      <4>2. QED
        BY <1>3, <4>1, PathNames, Geometry
    <3>5. QED
      BY <3>3, <3>4, EntryFields
  <2>2. CASE ~(i < Len(f))
    BY <1>1, <2>2, Blanks
  <2>3. QED
    BY <2>1, <2>2
<1>6. slots \in [Slots -> Entries]
  BY <1>1, <1>5
<1>7. handle \in Handles /\ handle.open = FALSE /\ job \in Jobs
  BY JobTypes DEF Init, NoHandle, Handles
<1>8. QED
  BY <1>4, <1>6, <1>7 DEF Init, TypeInv, NoLister

LEMMA TypeStep ==
    ASSUME TypeInv, [Next]_vars
    PROVE  TypeInv'
<1> USE DEF Listers
<1>1. CASE UNCHANGED vars
  BY <1>1 DEF TypeInv, vars, disk
<1>2. CASE Quiet
  BY <1>2, QuietSteps DEF TypeInv, disk
<1>3. CASE ListStep
  BY <1>3, ListSteps, JobTypes DEF TypeInv, disk
<1>4. CASE Close
  <2>0. PICK z \in Nat : z = handle.size
    BY DEF TypeInv, Handles
  <2>1. slots' \in [Slots -> Entries]
    <3>1. CASE UNCHANGED slots
      BY <3>1 DEF TypeInv
    <3>2. CASE Put(handle.slot, [slots[handle.slot] EXCEPT !.size = z])
      <4>1. PICK i \in Slots : i = handle.slot
        BY <1>4 DEF Close, TypeInv
      <4>2. [slots[i] EXCEPT !.size = z] \in Entries
        BY ChangeType
      <4>3. QED
        BY <3>2, <4>1, <4>2, PutType DEF TypeInv
    <3>3. QED
      BY <1>4, <2>0, <3>1, <3>2 DEF Close
  <2>2. QED
    BY <1>4, <2>1, HandleTypes DEF Close, TypeInv
<1>5. CASE Crash
  BY <1>5, HandleTypes, JobTypes DEF Crash, TypeInv, disk, NoLister
<1>6. CASE CreateAstray
  <2>1. used' \subseteq Files
    BY <1>6, PlaceIs DEF CreateAstray, TypeInv
  <2>2. slots' \in [Slots -> Entries]
    BY <1>6, AstrayEntry, PutType DEF TypeInv
  <2>3. QED
    BY <1>6, <2>1, <2>2 DEF CreateAstray, TypeInv
<1>7. CASE \E v \in Stamps : Append1(v)
  <2>1. handle.size + 1 \in Nat
    BY DEF TypeInv, Handles
  <2>2. handle' = [handle EXCEPT !.size = handle.size + 1] /\ UNCHANGED <<mounted, slots, used, lister, job, sound>>
    BY <1>7 DEF Append1
  <2>3. handle' \in Handles /\ (handle'.open => handle'.slot \in Slots)
    BY <2>1, <2>2 DEF TypeInv, Handles
  <2>4. QED
    BY <2>2, <2>3 DEF TypeInv
<1>8. ASSUME NEW p \in Paths, OpenNew(p) PROVE TypeInv'
  <2>1. {} \in Attributes
    BY DEF Attributes
  <2>2. PICK n \in Names : n = name_to_83(p)
    BY PathNames
  <2>3. MakeEntry(n, {}) /\ handle' = NewHandle /\ UNCHANGED <<mounted, lister, job>>
    BY <1>8, <2>2 DEF OpenNew
  <2>4. slots' \in [Slots -> Entries] /\ used' \subseteq Files /\ sound' \in BOOLEAN
    BY <2>1, <2>3, MakeType
  <2>5. Place # None /\ NewFile # None
    BY <2>3 DEF MakeEntry
  <2>6. handle' \in Handles /\ handle'.slot \in Slots
    BY <2>3, <2>5, HandleTypes, PlaceIs, NewHandleIs
  <2>7. QED
    BY <2>3, <2>4, <2>6 DEF TypeInv
<1>9. ASSUME NEW p \in Paths, NEW read \in BOOLEAN, Open(p, read) PROVE TypeInv'
  <2>1. PICK i \in Slots : i = Find(name_to_83(p))
    BY <1>9, FindIs DEF Open
  <2>2. handle' = HandleOn(i) /\ UNCHANGED <<mounted, disk, lister, job, sound>>
    BY <1>9, <2>1 DEF Open
  <2>3. handle' \in Handles /\ handle'.slot \in Slots
    BY <2>2, HandleTypes
  <2>4. QED
    BY <2>2, <2>3 DEF TypeInv, disk
<1>10. ASSUME NEW p \in Paths, NEW a \in {{}, {"directory"}}, Create(p, a) PROVE TypeInv'
  <2>1. a \in Attributes /\ name_to_83(p) \in Names
    BY PathNames DEF Attributes
  <2>2. MakeEntry(name_to_83(p), a) /\ UNCHANGED <<mounted, handle, lister, job>>
    BY <1>10 DEF Create
  <2>3. slots' \in [Slots -> Entries] /\ used' \subseteq Files /\ sound' \in BOOLEAN
    BY <2>1, <2>2, MakeType
  <2>4. QED
    BY <2>2, <2>3 DEF TypeInv
<1>11. ASSUME NEW p \in Paths, NEW dir \in BOOLEAN, Delete(p, dir) PROVE TypeInv'
  <2>1. PICK n \in Names : n = name_to_83(p)
    BY PathNames
  <2>2. Erase(Find(n), dir) /\ UNCHANGED <<mounted, handle, lister, job>>
    BY <1>11, <2>1 DEF Delete
  <2>3. slots' \in [Slots -> Entries] /\ used' \subseteq Files /\ sound' \in BOOLEAN
    BY <2>2, EraseType
  <2>4. QED
    BY <2>2, <2>3 DEF TypeInv
<1>12. ASSUME NEW p \in Paths, NEW a \in Attributes, SetAttributes(p, a) PROVE TypeInv'
  <2>1. PICK i \in Slots : i = Find(name_to_83(p))
    BY <1>12, FindIs DEF SetAttributes
  <2>2. /\ Put(i, [slots[i] EXCEPT !.attr = a])
        /\ UNCHANGED <<mounted, used, handle, lister, job, sound>>
    BY <1>12, <2>1 DEF SetAttributes
  <2>3. [slots[i] EXCEPT !.attr = a] \in Entries
    BY ChangeType
  <2>4. slots' \in [Slots -> Entries]
    BY <2>2, <2>3, PutType DEF TypeInv
  <2>5. QED
    BY <2>2, <2>4 DEF TypeInv
<1>13. ASSUME NEW p \in Paths, NEW q \in Paths, Rename(p, q) PROVE TypeInv'
  <2>1. PICK i \in Slots : i = Find(name_to_83(p))
    BY <1>13, FindIs DEF Rename
  <2>2. PICK n \in Names : n = name_to_83(q)
    BY PathNames
  <2>3. /\ Put(i, [slots[i] EXCEPT !.name = n]) /\ sound' = (sound /\ Find(n) = None)
        /\ UNCHANGED <<mounted, used, handle, lister, job>>
    BY <1>13, <2>1, <2>2 DEF Rename
  <2>4. [slots[i] EXCEPT !.name = n] \in Entries
    BY ChangeType
  <2>5. slots' \in [Slots -> Entries]
    BY <2>3, <2>4, PutType DEF TypeInv
  <2>6. sound' \in BOOLEAN
    BY <2>3
  <2>7. QED
    BY <2>3, <2>5, <2>6 DEF TypeInv
<1>14. ASSUME NEW p \in Paths, NEW q \in Paths, NEW kind \in {"copy", "move"}, StartCopy(p, q, kind)
       PROVE  TypeInv'
  <2>1. PICK i \in Slots : i = Find(name_to_83(p))
    BY <1>14, FindIs DEF StartCopy
  <2>2. PICK o \in Names, n \in Names : o = name_to_83(p) /\ n = name_to_83(q)
    BY PathNames
  <2> DEFINE Begin(h) == [kind |-> kind, from |-> o, to |-> n,
                          source |-> HandleOn(i), target |-> h, failed |-> FALSE]
  <2>3. UNCHANGED <<mounted, handle, lister>>
    BY <1>14 DEF StartCopy
  <2>4. ASSUME NEW h \in Handles PROVE Begin(h) \in Jobs
    <3>1. HandleOn(i) \in Handles
      BY HandleTypes
    <3>2. QED
      BY <3>1 DEF Jobs, Kinds
  <2>5. CASE MakeEntry(n, {}) /\ job' = Begin(NewHandle)
    <3>1. {} \in Attributes
      BY DEF Attributes
    <3>2. slots' \in [Slots -> Entries] /\ used' \subseteq Files /\ sound' \in BOOLEAN
      BY <2>5, <3>1, MakeType
    <3>3. NewHandle \in Handles
      BY <2>5, HandleTypes DEF MakeEntry
    <3>4. QED
      BY <2>3, <2>4, <2>5, <3>2, <3>3 DEF TypeInv
  <2>6. CASE Find(n) # None /\ sound' = FALSE /\ job' = Begin(HandleOn(Find(n))) /\ UNCHANGED disk
    <3>1. HandleOn(Find(n)) \in Handles
      BY <2>6, FindIs, HandleTypes
    <3>2. QED
      BY <2>3, <2>4, <2>6, <3>1 DEF TypeInv, disk
  <2>7. QED
    BY <1>14, <2>1, <2>2, <2>5, <2>6 DEF StartCopy
<1>15. CASE CopySector
  <2>1. job' = [job EXCEPT !.target.size = job.target.size + SectorSize]
        /\ UNCHANGED <<mounted, slots, used, handle, lister, sound>>
    BY <1>15 DEF CopySector
  <2>2. job.target \in Handles /\ job.target.size + SectorSize \in Nat
    BY Geometry DEF TypeInv, Jobs, Handles
  <2>3. [job.target EXCEPT !.size = job.target.size + SectorSize] \in Handles
    BY <2>2 DEF Handles
  <2>4. job' = [job EXCEPT !.target = [job.target EXCEPT !.size = job.target.size + SectorSize]]
    BY <2>1 DEF TypeInv, Jobs
  <2>5. job' \in Jobs
    BY <2>3, <2>4 DEF TypeInv, Jobs
  <2>6. QED
    BY <2>1, <2>5 DEF TypeInv
<1>16. CASE TransferFails
  <2>1. job' \in Jobs
    BY <1>16 DEF TransferFails, TypeInv, Jobs
  <2>2. QED
    BY <1>16, <2>1 DEF TransferFails, TypeInv, disk
<1>17. CASE CopyEnds \/ CopyStops
  <2>1. CloseTarget /\ UNCHANGED <<mounted, handle, lister, sound>>
    BY <1>17 DEF CopyEnds, CopyStops
  <2>2. job' = NoJob \/ job' = [job EXCEPT !.kind = "remove"]
    BY <1>17 DEF CopyEnds, CopyStops
  <2>3. [job EXCEPT !.kind = "remove"] \in Jobs
    BY DEF TypeInv, Jobs, Kinds
  <2>4. QED
    BY <2>1, <2>2, <2>3, CloseTargetType, JobTypes DEF TypeInv
<1>18. CASE MoveEnds
  <2>1. slots' \in [Slots -> Entries] /\ used' \subseteq Files /\ sound' \in BOOLEAN
    <3>1. CASE UNCHANGED <<disk, sound>>
      BY <3>1 DEF TypeInv, disk
    <3>2. CASE Erase(Find(job.from), FALSE)
      <4>1. Find(job.from) \in Slots
        BY <3>2, FindIs DEF Erase
      <4>2. Kept(Gone) = Gone
        BY DEF Kept
      <4>3. slots' = slots \/ Put(Find(job.from), Gone)
        BY <3>2 DEF Erase
      <4>4. slots' \in [Slots -> Entries]
        BY <4>3, Blanks, PutType DEF TypeInv
      <4>5. QED
        BY <3>2, <4>4 DEF Erase, TypeInv
    <3>3. QED
      BY <1>18, <3>1, <3>2 DEF MoveEnds
  <2>2. QED
    BY <1>18, <2>1, JobTypes DEF MoveEnds, TypeInv
<1>19. QED
  <2>1. SUFFICES ASSUME Next PROVE TypeInv'
    BY <1>1
  <2>2. \A dir \in BOOLEAN : (IF dir THEN {"directory"} ELSE {}) \in {{}, {"directory"}}
    OBVIOUS
  <2>3. QED
    BY <1>2, <1>3, <1>4, <1>5, <1>6, <1>7, <1>8, <1>9, <1>10, <1>11, <1>12, <1>13, <1>14,
       <1>15, <1>16, <1>17, <1>18, <2>1, <2>2 DEF Next, Quiet, ListStep

----------------------------------------------------------------------------
(* Listing.                                                                *)

ListInv ==
    /\ kept \subseteq FirstSlots /\ seen \in Seq(Nat)
    /\ \A i \in kept : Visible(slots[i]) /\ \A j \in 0 .. i : slots[j].name[1] # UNUSED
    /\ lister.open /\ lister.cluster = 0 =>
          /\ \A i, j \in DOMAIN seen : i < j => seen[i] < seen[j]
          /\ \A i \in DOMAIN seen : seen[i] < lister.position
          /\ \A k \in kept : k < lister.position => \E i \in DOMAIN seen : seen[i] = k

LEMMA FirstSlotsAre ==
    FirstSlots \subseteq Slots /\ PerCluster * PerSector \in Nat
<1>1. PICK n \in Nat \ {0} : n = PerCluster * PerSector
  BY Geometry, ProductIsNat
<1>2. \A m \in Nat \ {0} : m * n \in Nat /\ n <= m * n
  BY <1>1
<1>3. RootClusters * PerCluster * PerSector = RootClusters * n
  BY <1>1, Geometry
<1>4. PICK k \in Nat : k = RootClusters * n /\ n <= k
  BY <1>2, Geometry
<1>5. Slots = 0 .. k - 1 /\ FirstSlots = 0 .. n - 1
  BY <1>1, <1>3, <1>4 DEF Slots, FirstSlots
<1>6. QED
  BY <1>1, <1>4, <1>5

\* Slots that stay in use, and the ones a write to slot i leaves alone.
Stay(i) ==
    /\ \A j \in Slots : slots[j].name[1] # UNUSED => slots'[j].name[1] # UNUSED
    /\ \A j \in Slots : slots'[j] = slots[j] \/ j = i

LEMMA WriteStays ==
    ASSUME TypeInv, NEW i, NEW e \in Entries, Put(i, e),
           e.name[1] # UNUSED \/ slots[i].name[1] = UNUSED
    PROVE  Stay(i)
<1>1. slots' = [slots EXCEPT ![i] = Kept(e)]
  BY PutType DEF TypeInv
<1>2. e.name[1] # UNUSED => Kept(e).name[1] # UNUSED
  BY KeptFields
<1>3. \A j \in Slots : slots'[j] = IF j = i THEN Kept(e) ELSE slots[j]
  BY <1>1 DEF TypeInv
<1>4. QED
  BY <1>2, <1>3 DEF Stay

LEMMA MakeStays ==
    ASSUME TypeInv, NEW p \in Paths, NEW a \in Attributes, MakeEntry(name_to_83(p), a)
    PROVE  Stay(Place) /\ Vacant(slots[Place])
<1>1. Place \in Slots /\ NewFile \in Files /\ NewFile \in Nat /\ Vacant(slots[Place])
  BY PlaceIs, Geometry DEF MakeEntry
<1>2. PICK n \in Names : n = name_to_83(p)
  BY PathNames
<1>3. PICK e \in Entries : e = Entry(n, a, NewFile, 0) /\ e.name = n
  BY <1>1, EntryFields
<1>4. Put(Place, e) /\ e.name[1] # UNUSED
  BY <1>2, <1>3, NameChars DEF MakeEntry
<1>5. QED
  BY <1>1, <1>4, WriteStays

\* Of what a step does to the slots a listing is watched for.
Keeps ==
    /\ \A j \in Slots : slots[j].name[1] # UNUSED => slots'[j].name[1] # UNUSED
    /\ kept' \subseteq kept /\ \A i \in kept' : Visible(slots'[i])
    /\ UNCHANGED <<lister, seen>> \/ (lister' = NoLister /\ kept' = {} /\ seen' = <<>>)

LEMMA FollowKeeps ==
    ASSUME NEW i, Stay(i), Follow, UNCHANGED <<lister, seen>>
    PROVE  Keeps
BY DEF Stay, Follow, Keeps

LEMMA OthersKeep ==
    ASSUME NEW i, Stay(i), Vacant(slots[i]), ListInv, UNCHANGED <<lister, seen, kept>>
    PROVE  Keeps
<1>1. \A j \in kept : Visible(slots[j]) /\ j \in Slots
  BY FirstSlotsAre DEF ListInv
<1>2. \A j \in kept : slots'[j] = slots[j]
  BY <1>1 DEF Stay, Visible
<1>3. QED
  BY <1>1, <1>2 DEF Stay, Keeps, Visible

LEMMA SizesKeep ==
    ASSUME ListInv, UNCHANGED <<lister, seen, kept>>,
           \A j \in Slots : slots'[j] = slots[j]
                            \/ (slots'[j].name = slots[j].name /\ slots'[j].attr = slots[j].attr)
                            \/ (slots[j].name[1] = DELETED /\ slots'[j] = Gone)
    PROVE  Keeps
<1>1. \A j \in kept : Visible(slots[j]) /\ j \in Slots
  BY FirstSlotsAre DEF ListInv
<1>2. \A j \in Slots : slots[j].name[1] # UNUSED => slots'[j].name[1] # UNUSED
  BY Blanks
<1>3. \A j \in kept : Visible(slots'[j])
  BY <1>1 DEF Visible, Vacant
<1>4. QED
  BY <1>2, <1>3 DEF Keeps

LEMMA EraseKeeps ==
    ASSUME TypeInv, NEW n, NEW dir, Erase(Find(n), dir), UNCHANGED <<lister, seen>>
    PROVE  Keeps
<1>0. PICK i \in Slots : i = Find(n)
  BY FindIs DEF Erase
<1>1. UNCHANGED slots \/ Put(i, Gone)
  BY <1>0 DEF Erase
<1>2. Put(i, Gone) => Stay(i)
  BY Blanks, WriteStays
<1>3. UNCHANGED slots => Stay(i)
  BY DEF Stay
<1>4. Follow
  BY DEF Erase
<1>5. QED
  BY <1>1, <1>2, <1>3, <1>4, FollowKeeps

LEMMA StepsKeep ==
    ASSUME TypeInv, ListInv, [Next]_vars, ~ListStep
    PROVE  Keeps
<1>1. ASSUME UNCHANGED <<slots, kept>>, UNCHANGED <<lister, seen>> \/ (lister' = NoLister /\ kept' = {} /\ seen' = <<>>)
      PROVE  Keeps
  BY <1>1 DEF ListInv, Keeps
<1>2. CASE UNCHANGED vars
  BY <1>1, <1>2 DEF vars, disk
<1>3. CASE Quiet
  BY <1>1, <1>3, QuietSteps DEF disk
<1>4. CASE Close
  <2>0. PICK z \in Nat, i \in Slots : z = handle.size /\ i = handle.slot
    BY <1>4 DEF Close, TypeInv, Handles
  <2>1. UNCHANGED <<lister, seen, kept>>
    BY <1>4 DEF Close
  <2>2. CASE UNCHANGED slots
    BY <1>1, <2>1, <2>2
  <2>3. CASE Put(i, [slots[i] EXCEPT !.size = z])
    <3>1. PICK e \in Entries : /\ e = [slots[i] EXCEPT !.size = z] /\ e.name = slots[i].name
                               /\ e.attr = slots[i].attr
      BY ChangeType
    <3>2. slots' = [slots EXCEPT ![i] = Kept(e)]
      BY <2>3, <3>1, PutType DEF TypeInv
    <3>3. \A j \in Slots : slots'[j] = IF j = i THEN Kept(e) ELSE slots[j]
      BY <3>2 DEF TypeInv
    <3>4. QED
      BY <2>1, <3>1, <3>3, SizesKeep DEF Kept
  <2>4. QED
    BY <1>4, <2>0, <2>2, <2>3 DEF Close
<1>5. CASE Crash
  BY <1>5 DEF Crash, disk, Keeps
<1>6. CASE CreateAstray
  <2>1. UNCHANGED <<lister, seen, kept>>
    BY <1>6 DEF CreateAstray
  <2>2. ASSUME NEW i \in Slots, NEW e \in Entries, Put(i, e), Vacant(slots[i]), e.name[1] # UNUSED
        PROVE  Keeps
    BY <2>1, <2>2, WriteStays, OthersKeep
  <2>3. QED
    BY <1>1, <1>6, <2>1, <2>2, AstrayEntry
<1>7. CASE \E v \in Stamps : Append1(v)
  BY <1>1, <1>7 DEF Append1
<1>8. ASSUME NEW p \in Paths, OpenNew(p) PROVE Keeps
  <2>1. {} \in Attributes
    BY DEF Attributes
  <2>2. MakeEntry(name_to_83(p), {}) /\ UNCHANGED <<lister, seen, kept>>
    BY <1>8 DEF OpenNew
  <2>3. QED
    BY <2>1, <2>2, MakeStays, OthersKeep
<1>9. ASSUME NEW p \in Paths, NEW read \in BOOLEAN, Open(p, read) PROVE Keeps
  BY <1>1, <1>9 DEF Open, disk
<1>10. ASSUME NEW p \in Paths, NEW a \in {{}, {"directory"}}, Create(p, a) PROVE Keeps
  <2>1. a \in Attributes
    BY DEF Attributes
  <2>2. MakeEntry(name_to_83(p), a) /\ UNCHANGED <<lister, seen, kept>>
    BY <1>10 DEF Create
  <2>3. QED
    BY <2>1, <2>2, MakeStays, OthersKeep
<1>11. ASSUME NEW p \in Paths, NEW dir \in BOOLEAN, Delete(p, dir) PROVE Keeps
  BY <1>11, EraseKeeps DEF Delete
<1>12. ASSUME NEW p \in Paths, NEW a \in Attributes, SetAttributes(p, a) PROVE Keeps
  <2>1. PICK i \in Slots : i = Find(name_to_83(p)) /\ ~Vacant(slots[i])
    BY <1>12, FindIs DEF SetAttributes
  <2>2. Put(i, [slots[i] EXCEPT !.attr = a]) /\ Follow /\ UNCHANGED <<lister, seen>>
    BY <1>12, <2>1 DEF SetAttributes
  <2>3. PICK e : e = [slots[i] EXCEPT !.attr = a]
    OBVIOUS
  <2>30. e \in Entries /\ e.name = slots[i].name
    BY <2>3, ChangeType
  <2>4. e.name[1] # UNUSED
    BY <2>1, <2>30 DEF Vacant
  <2>5. QED
    BY <2>2, <2>3, <2>30, <2>4, WriteStays, FollowKeeps
<1>13. ASSUME NEW p \in Paths, NEW q \in Paths, Rename(p, q) PROVE Keeps
  <2>1. PICK i \in Slots : i = Find(name_to_83(p))
    BY <1>13, FindIs DEF Rename
  <2>2. PICK n \in Names : n = name_to_83(q)
    BY PathNames
  <2>3. Put(i, [slots[i] EXCEPT !.name = n]) /\ Follow /\ UNCHANGED <<lister, seen>>
    BY <1>13, <2>1, <2>2 DEF Rename
  <2>4. PICK e : e = [slots[i] EXCEPT !.name = n]
    OBVIOUS
  <2>5. e \in Entries /\ e.name = n
    BY <2>4, ChangeType
  <2>6. e.name[1] # UNUSED
    BY <2>5, NameChars
  <2>7. QED
    BY <2>3, <2>4, <2>5, <2>6, WriteStays, FollowKeeps
<1>14. ASSUME NEW p \in Paths, NEW q \in Paths, NEW kind \in {"copy", "move"}, StartCopy(p, q, kind)
       PROVE  Keeps
  <2>1. UNCHANGED <<lister, seen, kept>>
    BY <1>14 DEF StartCopy
  <2>2. MakeEntry(name_to_83(q), {}) \/ UNCHANGED disk
    BY <1>14 DEF StartCopy
  <2>3. {} \in Attributes
    BY DEF Attributes
  <2>4. QED
    BY <1>1, <2>1, <2>2, <2>3, MakeStays, OthersKeep DEF disk
<1>15. CASE CopySector
  BY <1>1, <1>15 DEF CopySector
<1>16. CASE TransferFails
  BY <1>1, <1>16 DEF TransferFails, disk
<1>17. CASE CopyEnds \/ CopyStops
  <2>1. CloseTarget /\ UNCHANGED <<lister, seen, kept>>
    BY <1>17 DEF CopyEnds, CopyStops
  <2>2. QED
    BY <2>1, CloseTargetType, SizesKeep
<1>18. CASE MoveEnds
  <2>1. UNCHANGED <<lister, seen>>
    BY <1>18 DEF MoveEnds
  <2>2. CASE UNCHANGED <<disk, kept>>
    BY <1>1, <2>1, <2>2 DEF disk
  <2>3. CASE Erase(Find(job.from), FALSE)
    BY <2>1, <2>3, EraseKeeps
  <2>4. QED
    BY <1>18, <2>2, <2>3 DEF MoveEnds
<1>19. QED
  <2>1. SUFFICES ASSUME Next PROVE Keeps
    BY <1>2
  <2>2. \A dir \in BOOLEAN : (IF dir THEN {"directory"} ELSE {}) \in {{}, {"directory"}}
    OBVIOUS
  <2>3. QED
    BY <1>3, <1>4, <1>5, <1>6, <1>7, <1>8, <1>9, <1>10, <1>11, <1>12, <1>13, <1>14,
       <1>15, <1>16, <1>17, <1>18, <2>1, <2>2 DEF Next, Quiet, ListStep

\* A pass of a listing.
Pass == ReadDirEnds \/ ReadDirFails \/ ReadDirReturns \/ ReadDirGoesOn

\* One in the first cluster, and one behind it.
LEMMA Clusters ==
    ASSUME lister \in Listers, Pass
    PROVE  /\ Cluster = 0 => lister.cluster = 0 /\ ~Behind /\ Position = lister.position
                             /\ InRoot
           /\ Cluster # 0 => kept' = {} /\ seen' = <<>> /\ lister'.cluster # 0
           /\ lister.cluster = 0 /\ ~Behind => Cluster = 0
<1>1. LastOne \in Nat \ {0}
  BY Geometry DEF LastOne
<1>2. lister = [open |-> lister.open, cluster |-> lister.cluster, position |-> lister.position]
      /\ lister.cluster \in Nat
  BY DEF Listers
<1>3. Cluster = 0 => lister.cluster = 0 /\ ~Behind
  BY <1>2 DEF Cluster
<1>4. lister.cluster = 0 /\ ~Behind => Cluster = 0
  BY DEF Cluster
<1>5. ASSUME Cluster # 0 PROVE kept' = {} /\ seen' = <<>> /\ lister'.cluster # 0
  <2>1. kept' = {} /\ seen' = <<>>
    BY <1>5 DEF Pass, Watch, ReadDirEnds, ReadDirFails, ReadDirReturns, ReadDirGoesOn
  <2>2. lister'.cluster \in {LastOne, Cluster}
    BY <1>2 DEF Pass, ReadDirEnds, ReadDirFails, ReadDirReturns, ReadDirGoesOn
  <2>3. QED
    BY <1>1, <1>5, <2>1, <2>2
<1>6. Cluster = 0 => InRoot
  BY <1>1, <1>3 DEF InRoot
<1>7. QED
  BY <1>3, <1>4, <1>5, <1>6 DEF Position

\* Of the slots of a sector, from where a pass begins.
LEMMA Offsets ==
    ASSUME NEW p \in Nat, NEW m \in Nat, NEW z \in Nat \ {0}, NEW r \in 0 .. z - 1, p = m + r
    PROVE  /\ \A k \in Nat : p <= k /\ k < m + z => k - m \in r .. z - 1 /\ m + (k - m) = k
           /\ \A o \in r .. z - 1 : m + o \in Nat /\ p <= m + o /\ m + o < m + z
           /\ m + z \in Nat /\ p < m + z
OBVIOUS

LEMMA FirstPass ==
    ASSUME lister \in Listers, Cluster = 0, lister.cluster = 0, Position = lister.position
    PROVE  \E m \in Nat, r \in 0 .. PerSector - 1 :
              /\ lister.position = m + r /\ (Position \div PerSector) * PerSector = m
              /\ (Position \div PerSector + 1) * PerSector = m + PerSector
              /\ \A o : SlotAt(o) = m + o
              /\ Stop # None => /\ Stop \in r .. PerSector - 1
                                /\ slots[m + Stop].name[1] = UNUSED \/ Visible(slots[m + Stop])
              /\ \A o \in r .. PerSector - 1 :
                    Stop = None \/ o < Stop => ~Visible(slots[m + o])
<1>1. PICK q \in Nat, r \in 0 .. PerSector - 1 :
        q = Position \div PerSector /\ r = Position % PerSector /\ Position = PerSector * q + r
  BY StopIs
<1>2. \A a, b \in Nat : a * b \in Nat /\ a * b = b * a /\ (a + 1) * b = a * b + b
  OBVIOUS
<1>3. PICK m \in Nat : m = q * PerSector /\ PerSector * q = m /\ (q + 1) * PerSector = m + PerSector
  BY <1>2, Geometry
<1>4. PerCluster \in Nat /\ (\A a \in Nat : 0 * a = 0)
  BY Geometry
<1>5. \A o : SlotAt(o) = m + o
  <2>1. 0 * PerCluster + q = q
    BY <1>4
  <2>2. QED
    BY <1>1, <1>3, <2>1 DEF SlotAt
<1>6. /\ Stop # None => /\ Stop \in r .. PerSector - 1
                        /\ slots[SlotAt(Stop)].name[1] = UNUSED \/ Visible(slots[SlotAt(Stop)])
      /\ \A o \in r .. PerSector - 1 :
            Stop = None \/ o < Stop => ~Visible(slots[SlotAt(o)])
  BY <1>1, StopIs
<1>7. SlotAt(Stop) = m + Stop /\ \A o \in r .. PerSector - 1 : SlotAt(o) = m + o
  BY <1>5
<1>8. lister.position = m + r /\ (Position \div PerSector) * PerSector = m
      /\ (Position \div PerSector + 1) * PerSector = m + PerSector
  BY <1>1, <1>3
<1>9. /\ Stop # None => /\ Stop \in r .. PerSector - 1
                        /\ slots[m + Stop].name[1] = UNUSED \/ Visible(slots[m + Stop])
      /\ \A o \in r .. PerSector - 1 :
            Stop = None \/ o < Stop => ~Visible(slots[m + o])
  <2>1. Stop # None => /\ Stop \in r .. PerSector - 1
                       /\ slots[m + Stop].name[1] = UNUSED \/ Visible(slots[m + Stop])
    <3>1. PICK y : y = SlotAt(Stop)
      OBVIOUS
    <3>2. y = m + Stop
      BY <1>7, <3>1
    <3>3. Stop # None => /\ Stop \in r .. PerSector - 1
                         /\ slots[y].name[1] = UNUSED \/ Visible(slots[y])
      BY <1>6, <3>1
    <3>4. QED
      BY <3>2, <3>3
  <2>2. ASSUME NEW o \in r .. PerSector - 1, Stop = None \/ o < Stop
        PROVE  ~Visible(slots[m + o])
    BY <1>6, <1>7, <2>2, Zenon
  <2>3. QED
    BY <2>1, <2>2
<1>10. QED
  <2>1. m \in Nat /\ r \in 0 .. PerSector - 1
    OBVIOUS
  <2> WITNESS m \in Nat, r \in 0 .. PerSector - 1
  <2>2. QED
    BY <1>5, <1>8, <1>9

LEMMA PassKeepsList ==
    ASSUME TypeInv, ListInv, Pass
    PROVE  ListInv'
<1>0. lister \in Listers /\ UNCHANGED slots
  BY DEF TypeInv, Listers, Pass, ReadDirEnds, ReadDirFails, ReadDirReturns, ReadDirGoesOn, disk
<1>1. CASE Cluster # 0
  <2>1. kept' = {} /\ seen' = <<>> /\ lister'.cluster # 0
    BY <1>0, <1>1, Clusters
  <2>2. seen' \in Seq(Nat)
    BY <2>1
  <2>3. QED
    BY <2>1, <2>2 DEF ListInv
<1>2. CASE Cluster = 0
  <2>1. lister.cluster = 0 /\ Position = lister.position /\ InRoot
    BY <1>0, <1>2, Clusters
  <2>2. PICK m \in Nat, r \in 0 .. PerSector - 1 :
              /\ lister.position = m + r /\ (Position \div PerSector) * PerSector = m
              /\ (Position \div PerSector + 1) * PerSector = m + PerSector
              /\ \A o : SlotAt(o) = m + o
              /\ Stop # None => /\ Stop \in r .. PerSector - 1
                                /\ slots[m + Stop].name[1] = UNUSED \/ Visible(slots[m + Stop])
              /\ \A o \in r .. PerSector - 1 :
                    Stop = None \/ o < Stop => ~Visible(slots[m + o])
    BY <1>0, <1>2, <2>1, FirstPass
  <2>3. PICK p \in Nat : p = lister.position
    BY <1>0 DEF Listers
  <2>4. lister.open /\ UNCHANGED kept
    BY <1>2 DEF Pass, ReadDirEnds, ReadDirFails, ReadDirReturns, ReadDirGoesOn, Listing, Watch
  <2>5. /\ \A k \in Nat : p <= k /\ k < m + PerSector => k - m \in r .. PerSector - 1 /\ m + (k - m) = k
        /\ \A o \in r .. PerSector - 1 : m + o \in Nat /\ p <= m + o /\ m + o < m + PerSector
        /\ m + PerSector \in Nat /\ p < m + PerSector
    BY <2>2, <2>3, Geometry, Offsets
  <2>6. /\ \A i, j \in DOMAIN seen : i < j => seen[i] < seen[j]
        /\ \A i \in DOMAIN seen : seen[i] < p
        /\ \A k \in kept : k < p => \E i \in DOMAIN seen : seen[i] = k
        /\ kept \subseteq Nat /\ seen \in Seq(Nat) /\ \A k \in kept : Visible(slots[k])
    BY <2>1, <2>3, <2>4, FirstSlotsAre, SlotsAreNumbers DEF ListInv
  <2>7. CASE ReadDirEnds \/ ReadDirFails
    <3>1. UNCHANGED seen /\ lister'.position = p
      BY <1>0, <1>2, <2>1, <2>3, <2>7 DEF ReadDirEnds, ReadDirFails, Watch, Listers
    <3>2. QED
      BY <1>0, <2>3, <2>4, <2>6, <3>1 DEF ListInv
  <2>8. CASE ReadDirGoesOn
    <3>1. UNCHANGED seen /\ lister'.position = m + PerSector
      BY <1>0, <1>2, <2>2, <2>8 DEF ReadDirGoesOn, Watch, Listers
    <3>2. \A i \in DOMAIN seen : seen[i] < m + PerSector
      <4>1. \A i \in DOMAIN seen : seen[i] \in Nat
        BY <2>6
      <4>2. QED
        BY <2>5, <2>6, <4>1
    <3>3. ASSUME NEW k \in kept, k < m + PerSector PROVE k < p
      <4>1. k \in Nat /\ Visible(slots[k])
        BY <2>6
      <4>2. SUFFICES ASSUME p <= k PROVE FALSE
        BY <4>1
      <4>3. PICK o \in r .. PerSector - 1 : m + o = k
        BY <2>5, <3>3, <4>1, <4>2
      <4>4. ~Visible(slots[m + o])
        BY <2>2, <2>8 DEF ReadDirGoesOn
      <4>5. QED
        BY <4>1, <4>3, <4>4
    <3>4. QED
      BY <1>0, <2>4, <2>6, <3>1, <3>2, <3>3 DEF ListInv
  <2>9. CASE ReadDirReturns
    <3>1. PICK z \in r .. PerSector - 1 : z = Stop
      BY <2>2, <2>9 DEF ReadDirReturns
    <3>2. lister'.position = m + z + 1 /\ seen' = Append(seen, m + z)
      BY <1>0, <1>2, <2>2, <2>9, <3>1 DEF ReadDirReturns, Watch, Listers
    <3>3. PICK w \in Nat : w = m + z /\ p <= w /\ w < m + PerSector
      BY <2>5
    <3>4. PICK n \in Nat : n = Len(seen) /\ DOMAIN seen = 1 .. n
      BY <2>6, LenProperties
    <3>5. /\ seen' \in Seq(Nat) /\ DOMAIN seen' = 1 .. n + 1 /\ seen'[n + 1] = w
          /\ \A i \in 1 .. n : seen'[i] = seen[i] /\ seen[i] \in Nat
      <4>1. seen' = Append(seen, w)
        BY <3>2, <3>3
      <4>2. /\ seen' \in Seq(Nat) /\ Len(seen') = n + 1 /\ seen'[n + 1] = w
            /\ \A i \in 1 .. n : seen'[i] = seen[i]
        BY <2>6, <3>3, <3>4, <4>1, AppendProperties
      <4>3. DOMAIN seen' = 1 .. n + 1
        BY <4>2, LenProperties
      <4>4. QED
        BY <2>6, <3>4, <4>2, <4>3
    <3>6. \A i, j \in DOMAIN seen' : i < j => seen'[i] < seen'[j]
      <4>1. SUFFICES ASSUME NEW i \in 1 .. n + 1, NEW j \in 1 .. n + 1, i < j PROVE seen'[i] < seen'[j]
        BY <3>5
      <4>2. i \in 1 .. n
        BY <4>1
      <4>3. CASE j = n + 1
        <5>1. seen'[i] \in Nat /\ seen'[i] < p
          BY <2>6, <3>4, <3>5, <4>2
        <5>2. QED
          BY <3>3, <3>5, <4>3, <5>1
      <4>4. CASE j # n + 1
        <5>1. j \in 1 .. n
          BY <4>4
        <5>2. QED
          BY <2>6, <3>4, <3>5, <4>1, <4>2, <5>1
      <4>5. QED
        BY <4>3, <4>4
    <3>7. \A i \in DOMAIN seen' : seen'[i] < w + 1
      <4>1. SUFFICES ASSUME NEW i \in 1 .. n + 1 PROVE seen'[i] < w + 1
        BY <3>5
      <4>2. CASE i = n + 1
        BY <3>3, <3>5, <4>2
      <4>3. CASE i # n + 1
        <5>1. i \in 1 .. n
          BY <4>3
        <5>2. seen'[i] \in Nat /\ seen'[i] < p
          BY <2>6, <3>4, <3>5, <5>1
        <5>3. QED
          BY <3>3, <5>2
      <4>4. QED
        BY <4>2, <4>3
    <3>8. ASSUME NEW k \in kept, k < w + 1 PROVE \E i \in DOMAIN seen' : seen'[i] = k
      <4>1. k \in Nat /\ Visible(slots[k])
        BY <2>6
      <4>2. CASE k < p
        <5>1. PICK i \in DOMAIN seen : seen[i] = k
          BY <2>6, <4>2
        <5>2. i \in 1 .. n /\ i \in 1 .. n + 1
          BY <3>4
        <5>3. QED
          BY <3>5, <5>1, <5>2
      <4>3. CASE k = w
        <5>1. n + 1 \in 1 .. n + 1
          OBVIOUS
        <5>2. QED
          BY <3>5, <4>3, <5>1
      <4>4. CASE p <= k /\ k < w
        <5>1. k < m + PerSector
          BY <2>5, <3>3, <4>1, <4>4
        <5>2. PICK o \in r .. PerSector - 1 : m + o = k
          BY <2>5, <4>1, <4>4, <5>1
        <5>3. o < z
          BY <3>3, <4>4, <5>2, Geometry
        <5>4. ~Visible(slots[m + o])
          BY <2>2, <3>1, <5>3
        <5>5. QED
          BY <4>1, <5>2, <5>4
      <4>5. QED
        BY <3>3, <3>8, <4>1, <4>2, <4>3, <4>4
    <3>9. lister'.position = w + 1
      BY <3>2, <3>3
    <3>10. QED
      BY <1>0, <2>4, <3>5, <3>6, <3>7, <3>8, <3>9 DEF ListInv
  <2>10. QED
    BY <2>7, <2>8, <2>9 DEF Pass
<1>3. QED
  BY <1>1, <1>2

LEMMA ListStepInv ==
    ASSUME TypeInv, ListInv, [Next]_vars
    PROVE  ListInv'
<1>1. CASE Pass
  BY <1>1, PassKeepsList
<1>2. CASE OpenRoot
  <2>1. /\ UNCHANGED slots /\ seen' = <<>> /\ lister'.position = 0
        /\ kept' = {i \in FirstSlots : /\ Visible(slots[i])
                                       /\ \A j \in 0 .. i : slots[j].name[1] # UNUSED}
    BY <1>2 DEF OpenRoot, disk, NoLister
  <2>2. kept' \subseteq Nat /\ kept' \subseteq FirstSlots
    BY <2>1, FirstSlotsAre, SlotsAreNumbers
  <2>3. \A k \in kept' : ~(k < 0)
    BY <2>2
  <2>4. seen' \in Seq(Nat) /\ DOMAIN seen' = {}
    BY <2>1
  <2>5. \A i \in kept' : Visible(slots'[i]) /\ \A j \in 0 .. i : slots'[j].name[1] # UNUSED
    BY <2>1
  <2>6. QED
    BY <2>1, <2>2, <2>3, <2>4, <2>5 DEF ListInv
<1>3. CASE CloseRoot
  <2>1. kept' = {} /\ seen' = <<>> /\ lister'.open = FALSE
    BY <1>3 DEF CloseRoot, NoLister
  <2>2. QED
    BY <2>1 DEF ListInv
<1>4. CASE ReadDirAstray
  <2>1. kept' = {} /\ seen' = <<>>
    BY <1>4 DEF ReadDirAstray
  <2>2. lister' = [lister EXCEPT !.cluster = BAD, !.position = 0] /\ BAD # 0
    BY <1>4, Geometry DEF ReadDirAstray, BAD, LastOne
  <2>3. lister'.cluster # 0
    BY <2>2 DEF TypeInv
  <2>4. QED
    BY <2>1, <2>3 DEF ListInv
<1>5. CASE ~ListStep
  <2>1. Keeps
    BY <1>5, StepsKeep
  <2>2. ASSUME NEW i \in kept' PROVE Visible(slots'[i]) /\ \A j \in 0 .. i : slots'[j].name[1] # UNUSED
    <3>1. i \in kept /\ i \in Slots
      BY <2>1, FirstSlotsAre DEF Keeps, ListInv
    <3>2. \A j \in 0 .. i : j \in Slots /\ slots[j].name[1] # UNUSED
      BY <3>1, SlotsAreNumbers DEF ListInv
    <3>3. QED
      BY <2>1, <3>2 DEF Keeps
  <2>3. CASE UNCHANGED <<lister, seen>>
    <3>1. kept' \subseteq kept
      BY <2>1 DEF Keeps
    <3>2. QED
      BY <2>2, <2>3, <3>1 DEF ListInv
  <2>4. CASE lister' = NoLister /\ kept' = {} /\ seen' = <<>>
    <3>1. lister'.open = FALSE
      BY <2>4 DEF NoLister
    <3>2. QED
      BY <2>4, <3>1 DEF ListInv
  <2>5. QED
    BY <2>1, <2>3, <2>4 DEF Keeps
<1>6. QED
  BY <1>1, <1>2, <1>3, <1>4, <1>5 DEF Pass, ListStep

\* Throughout every sequence of calls the slots, handles and calls are what they
\* are for: an open handle is on a slot of the root.
THEOREM DirectoryTypes == Spec => []TypeInv
<1>1. Init => TypeInv
  BY InitType
<1>2. TypeInv /\ [Next]_vars => TypeInv'
  BY TypeStep
<1>3. QED
  BY <1>1, <1>2, PTL DEF Spec

\* A listing that comes to the end of the first cluster, or of the directory in
\* it, has returned every file that was there all along, and no slot twice,
\* whatever was made, deleted and renamed between its calls.
THEOREM ListingIsComplete == Spec => ListedOnce
<1> DEFINE Once ==
      (ReadDirEnds \/ Behind) /\ lister.open /\ lister.cluster = 0 /\ lister' # NoLister =>
          /\ kept \subseteq {seen[i] : i \in DOMAIN seen}
          /\ \A i, j \in DOMAIN seen : seen[i] = seen[j] => i = j
<1>1. Init => ListInv
  BY DEF Init, ListInv, NoLister
<1>2. TypeInv /\ ListInv /\ [Next]_vars => ListInv'
  BY ListStepInv
<1>3. ASSUME TypeInv, ListInv, [Next]_vars PROVE [Once]_vars
  <2>1. SUFFICES ASSUME ReadDirEnds \/ Behind, lister.open, lister.cluster = 0
                 PROVE  /\ kept \subseteq {seen[i] : i \in DOMAIN seen}
                        /\ \A i, j \in DOMAIN seen : seen[i] = seen[j] => i = j
    OBVIOUS
  <2>2. /\ seen \in Seq(Nat) /\ kept \subseteq FirstSlots /\ kept \subseteq Nat
        /\ \A i, j \in DOMAIN seen : i < j => seen[i] < seen[j]
        /\ \A i \in DOMAIN seen : seen[i] < lister.position
        /\ \A k \in kept : k < lister.position => \E i \in DOMAIN seen : seen[i] = k
    BY <1>3, <2>1, FirstSlotsAre, SlotsAreNumbers DEF ListInv
  <2>3. ASSUME NEW i \in DOMAIN seen, NEW j \in DOMAIN seen, seen[i] = seen[j] PROVE i = j
    <3>1. seen[i] \in Nat /\ seen[j] \in Nat /\ i \in Nat /\ j \in Nat
      BY <2>2
    <3>2. ~(i < j) /\ ~(j < i)
      BY <2>2, <2>3, <3>1
    <3>3. QED
      BY <3>1, <3>2
  <2>4. lister \in Listers
    BY <1>3 DEF TypeInv, Listers
  <2>5. ASSUME NEW k \in kept PROVE k < lister.position
    <3>0. k \in Nat /\ k \in FirstSlots /\ lister.position \in Nat
      BY <2>2, <2>4 DEF Listers
    <3>1. CASE Behind
      <4>1. \A n \in Nat : \A m, c \in Nat \ {0} : n \div m >= c => c * m <= n
        OBVIOUS
      <4>2. PerCluster * PerSector <= lister.position
        BY <3>0, <3>1, <4>1, Geometry DEF Behind
      <4>3. PICK b \in Nat : b = PerCluster * PerSector
        BY FirstSlotsAre
      <4>4. QED
        BY <3>0, <4>2, <4>3 DEF FirstSlots
    <3>2. CASE ~Behind /\ ReadDirEnds
      <4>1. Cluster = 0 /\ Position = lister.position /\ InRoot
        BY <2>1, <2>4, <3>2, Clusters DEF Pass
      <4>2. PICK m \in Nat, r \in 0 .. PerSector - 1 :
              /\ lister.position = m + r
              /\ \A o : SlotAt(o) = m + o
              /\ Stop # None => Stop \in r .. PerSector - 1
              /\ \A o \in r .. PerSector - 1 :
                    Stop = None \/ o < Stop => ~Visible(slots[m + o])
        BY <2>1, <2>4, <4>1, FirstPass
      <4>3. PICK z \in r .. PerSector - 1 : z = Stop /\ slots[m + z].name[1] = UNUSED
        <5>1. LastOne \notin {lister.cluster, Cluster}
          BY <2>1, <4>1, Geometry DEF InRoot, LastOne
        <5>2. QED
          BY <3>2, <4>2, <5>1 DEF ReadDirEnds
      <4>4. Visible(slots[k]) /\ \A j \in 0 .. k : slots[j].name[1] # UNUSED
        BY <1>3 DEF ListInv
      <4>5. m + z \in Nat /\ m + r \in Nat /\ m + z < m + PerSector
        BY Geometry
      <4>6. ~(m + z \in 0 .. k)
        BY <4>3, <4>4
      <4>7. k < m + z
        BY <3>0, <4>5, <4>6
      <4>8. SUFFICES ASSUME m + r <= k PROVE FALSE
        BY <3>0, <4>2, <4>5
      <4>9. PICK o \in r .. PerSector - 1 : m + o = k
        BY <3>0, <4>5, <4>7, <4>8, Geometry, Offsets
      <4>10. o < z
        BY <4>7, <4>9, Geometry
      <4>11. QED
        BY <4>2, <4>3, <4>4, <4>9, <4>10
    <3>3. QED
      BY <2>1, <3>1, <3>2
  <2>6. QED
    BY <2>2, <2>3, <2>5
<1>4. QED
  BY <1>1, <1>2, <1>3, DirectoryTypes, PTL DEF Spec, ListedOnce

----------------------------------------------------------------------------
(* Cells.                                                                  *)

LEMMA FirstCells ==
    ASSUME NEW T, NEW s \in Seq(T), NEW n \in Nat, n <= Len(s)
    PROVE  /\ Cut(s, n) \in Seq(T) /\ Len(Cut(s, n)) = n
           /\ \A k \in 1 .. n : Cut(s, n)[k] = s[k]
<1>1. \A k \in 1 .. n : s[k] \in T
  <2>1. SUFFICES ASSUME NEW k \in 1 .. n PROVE s[k] \in T
    OBVIOUS
  <2>2. Len(s) \in Nat
    BY LenProperties
  <2>3. k \in 1 .. Len(s)
    BY <2>2
  <2>4. QED
    BY <2>3, ElementOfSeq
<1>2. /\ SubSeq(s, 1, n) \in Seq(T) /\ Len(SubSeq(s, 1, n)) = IF 1 <= n THEN n - 1 + 1 ELSE 0
      /\ \A k \in 1 .. n - 1 + 1 : SubSeq(s, 1, n)[k] = s[1 + k - 1]
  BY <1>1, SubSeqProperties
<1>3. (IF 1 <= n THEN n - 1 + 1 ELSE 0) = n /\ n - 1 + 1 = n /\ \A k \in 1 .. n : 1 + k - 1 = k
  OBVIOUS
<1>4. /\ SubSeq(s, 1, n) \in Seq(T) /\ Len(SubSeq(s, 1, n)) = n
      /\ \A k \in 1 .. n : SubSeq(s, 1, n)[k] = s[k]
  BY <1>2, <1>3
<1>5. QED
  BY <1>4, Zenon DEF Cut

\* Two sequences that begin with the same cells.
LEMMA SameFront ==
    ASSUME NEW T, NEW s \in Seq(T), NEW t \in Seq(T), NEW n \in Nat, n <= Len(s), n <= Len(t),
           \A k \in 1 .. n : s[k] = t[k]
    PROVE  Cut(s, n) = Cut(t, n)
<1>1. PICK a, b : a = Cut(s, n) /\ b = Cut(t, n)
  OBVIOUS
<1>2. a \in Seq(T) /\ b \in Seq(T) /\ Len(a) = n /\ Len(b) = n /\ \A k \in 1 .. n : a[k] = b[k]
  BY <1>1, FirstCells
<1>3. a = b
  BY <1>2, SeqEqual
<1>4. QED
  BY <1>1, <1>3

LEMMA PrefixIs ==
    ASSUME NEW T, NEW s \in Seq(T), NEW t \in Seq(T), Len(s) <= Len(t),
           \A k \in 1 .. Len(s) : s[k] = t[k]
    PROVE  IsPrefix(s, t)
<1>1. PICK n \in Nat : n = Len(s)
  BY LenProperties
<1>2. n <= Len(s) /\ n <= Len(t)
  BY <1>1, LenProperties
<1>3. Cut(s, n) = Cut(t, n)
  BY <1>1, <1>2, SameFront
<1>4. QED
  BY <1>1, <1>2, <1>3, Zenon DEF IsPrefix, Cut

\* A cell more, behind the first n.
LEMMA OneMore ==
    ASSUME NEW T, NEW s \in Seq(T), NEW n \in Nat, n <= Len(s), NEW v \in T
    PROVE  /\ Append(Cut(s, n), v) \in Seq(T) /\ Len(Append(Cut(s, n), v)) = n + 1
           /\ \A m \in 0 .. n : Cut(Append(Cut(s, n), v), m) = Cut(s, m)
<1>1. PICK a : a = Cut(s, n)
  OBVIOUS
<1>2. a \in Seq(T) /\ Len(a) = n /\ \A k \in 1 .. n : a[k] = s[k]
  BY <1>1, FirstCells
<1>3. PICK b : b = Append(a, v)
  OBVIOUS
<1>4. b \in Seq(T) /\ Len(b) = n + 1 /\ \A k \in 1 .. n : b[k] = a[k]
  BY <1>2, <1>3, AppendProperties
<1>5. ASSUME NEW m \in 0 .. n PROVE Cut(b, m) = Cut(s, m)
  <2>1. m \in Nat /\ m <= Len(b) /\ m <= Len(s) /\ \A k \in 1 .. m : b[k] = s[k]
    <3>1. Len(s) \in Nat
      BY LenProperties
    <3>2. QED
      BY <1>2, <1>4, <3>1
  <2>2. QED
    BY <1>4, <2>1, SameFront
<1>6. QED
  BY <1>1, <1>3, <1>4, <1>5

Piece(c, m, n) == SubSeq(c, m + 1, m + n)
Alike(z, v) == [k \in 1 .. z |-> v]

Longer(T, s, c, m, n, z, t) ==
    /\ t \in Seq(T) /\ Len(t) = m + n + z
    /\ \A k \in 1 .. m : t[k] = s[k]
    /\ \A k \in m + 1 .. m + n : t[k] = c[k]

\* n cells of c behind the m of s, and z more of the same.
LEMMA SectorMore ==
    ASSUME NEW T, NEW s \in Seq(T), NEW c \in Seq(T), NEW m \in Nat, NEW n \in Nat, NEW z \in Nat,
           Len(s) = m, m + n <= Len(c), NEW v \in T,
           NEW t, t = Cut(s, m) \o Piece(c, m, n) \o Alike(z, v)
    PROVE  Longer(T, s, c, m, n, z, t)
<1>1. PICK a, b, d : /\ a = Cut(s, m) /\ b = SubSeq(c, m + 1, m + n) /\ d = [k \in 1 .. z |-> v]
                     /\ b = Piece(c, m, n) /\ d = Alike(z, v)
  BY DEF Piece, Alike
<1>2. a \in Seq(T) /\ Len(a) = m /\ \A k \in 1 .. m : a[k] = s[k]
  <2>1. m <= Len(s)
    OBVIOUS
  <2>2. QED
    BY <1>1, <2>1, FirstCells
<1>3. d \in Seq(T) /\ Len(d) = z
  BY <1>1, MapIsSeq
<1>4. b \in Seq(T) /\ Len(b) = n /\ \A k \in 1 .. n : b[k] = c[m + k]
  <2>1. m + 1 \in Int /\ m + n \in Int
    OBVIOUS
  <2>2. \A k \in m + 1 .. m + n : c[k] \in T
    <3>1. SUFFICES ASSUME NEW k \in m + 1 .. m + n PROVE c[k] \in T
      OBVIOUS
    <3>2. Len(c) \in Nat
      BY LenProperties
    <3>3. k \in 1 .. Len(c)
      BY <3>2
    <3>4. QED
      BY <3>3, ElementOfSeq
  <2>3. /\ b \in Seq(T) /\ Len(b) = IF m + 1 <= m + n THEN m + n - (m + 1) + 1 ELSE 0
        /\ \A k \in 1 .. m + n - (m + 1) + 1 : b[k] = c[m + 1 + k - 1]
    BY <1>1, <2>1, <2>2, SubSeqProperties
  <2>4. (IF m + 1 <= m + n THEN m + n - (m + 1) + 1 ELSE 0) = n /\ m + n - (m + 1) + 1 = n
        /\ \A k \in 1 .. n : m + 1 + k - 1 = m + k
    OBVIOUS
  <2>5. QED
    BY <2>3, <2>4
<1>5. PICK e : e = a \o b
  OBVIOUS
<1>6. e \in Seq(T) /\ Len(e) = m + n
      /\ \A k \in 1 .. m + n : e[k] = IF k <= m THEN a[k] ELSE b[k - m]
  <2>1. /\ e \in Seq(T) /\ Len(e) = Len(a) + Len(b)
        /\ \A k \in 1 .. Len(a) + Len(b) : e[k] = IF k <= Len(a) THEN a[k] ELSE b[k - Len(a)]
    BY <1>2, <1>4, <1>5, ConcatProperties, Zenon
  <2>2. QED
    BY <1>2, <1>4, <2>1
<1>7. t = e \o d
  BY <1>1, <1>5
<1>8. t \in Seq(T) /\ Len(t) = m + n + z
      /\ \A k \in 1 .. m + n + z : t[k] = IF k <= m + n THEN e[k] ELSE d[k - (m + n)]
  <2>1. /\ t \in Seq(T) /\ Len(t) = Len(e) + Len(d)
        /\ \A k \in 1 .. Len(e) + Len(d) : t[k] = IF k <= Len(e) THEN e[k] ELSE d[k - Len(e)]
    <3>1. e \in Seq(T) /\ d \in Seq(T)
      BY <1>3, <1>6
    <3>2. PICK u : u = e \o d
      OBVIOUS
    <3>3. /\ u \in Seq(T) /\ Len(u) = Len(e) + Len(d)
          /\ \A k \in 1 .. Len(e) + Len(d) : u[k] = IF k <= Len(e) THEN e[k] ELSE d[k - Len(e)]
      BY <3>1, <3>2, ConcatProperties, Zenon
    <3>4. t = u
      BY <1>7, <3>2
    <3>5. QED
      BY <3>3, <3>4
  <2>2. QED
    BY <1>3, <1>6, <2>1
<1>9. ASSUME NEW k \in 1 .. m PROVE t[k] = s[k]
  BY <1>2, <1>6, <1>8
<1>10. ASSUME NEW k \in m + 1 .. m + n PROVE t[k] = c[k]
  <2>1. k - m \in 1 .. n /\ m + (k - m) = k /\ ~(k <= m) /\ k \in 1 .. m + n
    OBVIOUS
  <2>2. t[k] = b[k - m]
    <3>1. k \in 1 .. m + n + z /\ k <= m + n
      OBVIOUS
    <3>2. t[k] = e[k]
      BY <1>8, <3>1
    <3>3. QED
      BY <1>6, <2>1, <3>2
  <2>3. b[k - m] = c[m + (k - m)]
    BY <1>4, <2>1
  <2>4. QED
    BY <2>1, <2>2, <2>3
<1>11. QED
  BY <1>8, <1>9, <1>10 DEF Longer

AsLong(T, m, t) == t \in Seq(T) /\ Len(t) = m

\* The last z of m cells become the same.
LEMMA SectorStale ==
    ASSUME NEW T, NEW s \in Seq(T), NEW m \in Nat, NEW z \in Nat, z <= m, Len(s) = m, NEW v \in T,
           NEW t, t = Cut(s, m - z) \o Alike(z, v)
    PROVE  AsLong(T, m, t)
<1>1. PICK a, d : a = Cut(s, m - z) /\ d = [k \in 1 .. z |-> v] /\ d = Alike(z, v)
  BY DEF Alike
<1>2. a \in Seq(T) /\ Len(a) = m - z
  <2>1. m - z \in Nat /\ m - z <= Len(s)
    OBVIOUS
  <2>2. QED
    BY <1>1, <2>1, FirstCells
<1>3. d \in Seq(T) /\ Len(d) = z
  BY <1>1, MapIsSeq
<1>4. t = a \o d
  BY <1>1
<1>5. t \in Seq(T) /\ Len(t) = m - z + z
  BY <1>2, <1>3, <1>4, ConcatProperties
<1>6. QED
  BY <1>5 DEF AsLong

----------------------------------------------------------------------------
(* What a call does to the directory as a whole: its entries, the map they *)
(* are, and the handle that is open.                                       *)

Fine(s, u, d) == Good(s, u, d) /\ u \subseteq Files /\ d \in [Files -> Seq(Cells)]

\* An open handle is on the one entry of its file, unless that was deleted.
HandleOk(h, s, u, d) ==
    h.open =>
        /\ h.slot \in Slots /\ s[h.slot].name[1] # UNUSED /\ h.size \in Nat /\ h.file \in Files
        /\ ~Vacant(s[h.slot]) => s[h.slot].file = h.file /\ s[h.slot].size <= h.size
        /\ h.file \in u => h.size <= Len(d[h.file])
        /\ \A i \in Slots : ~Vacant(s[i]) /\ s[i].file = h.file => i = h.slot

NameOf(h, s) ==
    IF h.open /\ Visible(s[h.slot]) /\ s[h.slot].file = h.file THEN {s[h.slot].name} ELSE {}

Empty(a) == [attr |-> a, cells |-> <<>>]

\* Nothing changed but slot i, and but the cells of file f.
Only(i, s, t) == t \in [Slots -> Entries] /\ \A j \in Slots \ {i} : t[j] = s[j]
OnlyOf(f, d, c) == c \in [Files -> Seq(Cells)] /\ \A g \in Files \ {f} : c[g] = d[g]

\* What has become of entries s, files u and cells d.
Made(s, u, d, i, n, a, f, e, t, v, c) ==
    /\ Fine(t, v, c)
    /\ n \notin DOMAIN MapOf(s, d)
    /\ n[1] = DELETED => MapOf(t, c) = MapOf(s, d)
    /\ n[1] # DELETED =>
          /\ MapOf(t, c) = [m \in DOMAIN MapOf(s, d) \cup {n} |->
                               IF m = n THEN Empty(a) ELSE MapOf(s, d)[m]]
          /\ Shows(t, i, n) /\ t[i] = e
    /\ \A h : HandleOk(h, s, u, d) /\ ~(h.open /\ (h.slot = i \/ h.file = f)) =>
                 HandleOk(h, t, v, c) /\ NameOf(h, t) = NameOf(h, s)
    /\ \A j \in Slots \ {i} : t[j] = s[j]

\* A new entry with a new file.
LEMMA MakeFine ==
    ASSUME NEW s, NEW u, NEW d, Fine(s, u, d), NEW i \in Slots, Vacant(s[i]),
           \A j \in Slots : j < i => ~Vacant(s[j]),
           NEW n \in Names, NEW a \in Attributes, "longname" \notin a, NEW f \in Files \ u,
           \A j \in Slots : ~Shows(s, j, n),
           NEW e, e = Entry(n, a, f, 0), NEW t, Only(i, s, t), t[i] = Kept(e),
           NEW v, v = u \cup {f}, NEW c, OnlyOf(f, d, c), c[f] = <<>>
    PROVE  Made(s, u, d, i, n, a, f, e, t, v, c)
<1>1. /\ e \in Entries /\ e.name = n /\ e.attr = a /\ e.file = f /\ e.size = 0
      /\ f \in Nat /\ f \in Files /\ f \notin u
  <2>1. f \in Nat /\ f \in Files /\ f \notin u
    BY Geometry
  <2>2. QED
    BY <2>1, EntryFields
<1>2. n[1] # UNUSED
  BY NameChars
<1>3. PICK k : k = Kept(e) /\ k \in Entries /\ k.name[1] # UNUSED
               /\ (Vacant(k) <=> n[1] = DELETED) /\ (~Vacant(k) => k = e) /\ (Visible(k) <=> Visible(e))
  BY <1>1, <1>2, KeptFields
<1>4. Visible(e) <=> n[1] # DELETED
  BY <1>1, <1>2 DEF Visible, Vacant
<1>5. Good(s, u, d) /\ u \subseteq Files /\ d \in [Files -> Seq(Cells)] /\ Tidy(s)
  BY DEF Fine, Good
<1>6. /\ c \in [Files -> Seq(Cells)] /\ c[f] = <<>> /\ \A g \in Files : g # f => c[g] = d[g]
      /\ v \subseteq Files
  BY <1>1, <1>5 DEF OnlyOf
<1>7. ASSUME NEW j \in Slots, ~Vacant(s[j])
      PROVE  s[j].file \in u /\ s[j].file \in v /\ s[j].file # f /\ c[s[j].file] = d[s[j].file]
             /\ s[j].size <= Len(c[s[j].file])
  BY <1>1, <1>5, <1>6, <1>7 DEF Good, FilesApart, SizesFit
<1>8. t[i] = k /\ \A j \in Slots \ {i} : t[j] = s[j]
  BY <1>3 DEF Only
<1>80. t \in [Slots -> Entries]
  BY DEF Only
<1>9. Good(t, v, c)
  <2>1. ~Vacant(t[i]) => t[i].file \in v /\ t[i].name \in Names /\ t[i].size <= Len(c[t[i].file])
    BY <1>1, <1>3, <1>6, <1>8
  <2>2. ~Vacant(t[i]) => \A j \in Slots \ {i} : ~Vacant(s[j]) => s[j].file # t[i].file
    BY <1>1, <1>3, <1>7, <1>8
  <2>3. Visible(t[i]) => \A j \in Slots \ {i} : ~Shows(s, j, t[i].name)
    BY <1>1, <1>3, <1>8 DEF Visible
  <2>4. s[i].name[1] = UNUSED => \A j \in Slots : j < i => s[j].name[1] # UNUSED
    BY DEF Vacant
  <2>5. \A j \in Slots \ {i} : ~Vacant(s[j]) => s[j].file \in v /\ s[j].size <= Len(c[s[j].file])
    BY <1>7
  <2>6. Good(s, u, d) /\ t[i].name[1] # UNUSED /\ \A j \in Slots \ {i} : t[j] = s[j]
    BY <1>3, <1>5, <1>8
  <2>7. QED
    BY <1>80, <2>1, <2>2, <2>3, <2>4, <2>5, <2>6, WriteGood, Zenon
<1>10. Fine(t, v, c)
  BY <1>6, <1>9 DEF Fine
<1>11. n \notin DOMAIN MapOf(s, d)
  <2>1. Tidy(s)
    BY <1>5
  <2>2. DOMAIN MapOf(s, d) = {m \in Names : \E j \in Slots : Shows(s, j, m)}
    BY <2>1, MapIs
  <2>3. QED
    BY <2>2
<1>12. NameAt(s[i]) = {} /\ NameAt(t[i]) = IF n[1] = DELETED THEN {} ELSE {n}
  BY <1>1, <1>3, <1>4, <1>8 DEF NameAt, Visible
<1>13. MapOf(t, c) = WrittenMap(s, d, i, t, c)
  <2>1. Tidy(t)
    BY <1>9 DEF Good
  <2>2. Visible(t[i]) => t[i].name \in Names
    BY <1>1, <1>3, <1>8 DEF Visible
  <2>3. \A j \in Slots \ {i} : Visible(s[j]) => FileIn(t, c, j) = FileIn(s, d, j)
    BY <1>7, <1>8 DEF FileIn, Visible
  <2>4. Tidy(s) /\ \A j \in Slots \ {i} : t[j] = s[j]
    BY <1>5, <1>8
  <2>5. QED
    BY <2>1, <2>2, <2>3, <2>4, WriteMap
<1>14. ASSUME n[1] = DELETED PROVE MapOf(t, c) = MapOf(s, d)
  <2>1. (DOMAIN MapOf(s, d) \ NameAt(s[i])) \cup NameAt(t[i]) = DOMAIN MapOf(s, d) /\ NameAt(t[i]) = {}
    BY <1>12, <1>14
  <2>2. MapOf(s, d) = [m \in DOMAIN MapOf(s, d) |-> MapOf(s, d)[m]]
    BY <1>5, MapIs
  <2>3. QED
    BY <1>13, <2>1, <2>2 DEF WrittenMap
<1>15. ASSUME n[1] # DELETED
       PROVE  /\ MapOf(t, c) = [m \in DOMAIN MapOf(s, d) \cup {n} |->
                                   IF m = n THEN Empty(a) ELSE MapOf(s, d)[m]]
              /\ Shows(t, i, n) /\ t[i] = e
  <2>1. (DOMAIN MapOf(s, d) \ NameAt(s[i])) \cup NameAt(t[i]) = DOMAIN MapOf(s, d) \cup {n} /\ NameAt(t[i]) = {n}
    BY <1>12, <1>15
  <2>2. t[i] = e /\ Visible(e)
    BY <1>3, <1>4, <1>8, <1>15
  <2>3. FileIn(t, c, i) = Empty(a)
    <3>1. Cut(<<>>, 0) = <<>>
      BY DEF Cut
    <3>2. QED
      BY <1>1, <1>6, <2>2, <3>1 DEF FileIn, Empty
  <2>4. MapOf(t, c) = [m \in DOMAIN MapOf(s, d) \cup {n} |-> IF m \in {n} THEN FileIn(t, c, i) ELSE MapOf(s, d)[m]]
    BY <1>13, <2>1 DEF WrittenMap
  <2>5. MapOf(t, c) = [m \in DOMAIN MapOf(s, d) \cup {n} |-> IF m = n THEN Empty(a) ELSE MapOf(s, d)[m]]
    BY <2>3, <2>4
  <2>6. QED
    BY <1>1, <2>2, <2>5 DEF Shows
<1>16. ASSUME NEW h, HandleOk(h, s, u, d), ~(h.open /\ (h.slot = i \/ h.file = f))
       PROVE  HandleOk(h, t, v, c) /\ NameOf(h, t) = NameOf(h, s)
  <2>1. CASE ~h.open
    BY <2>1 DEF HandleOk, NameOf
  <2>2. CASE h.open
    <3>1. /\ h.slot \in Slots /\ h.slot # i /\ h.file # f /\ h.file \in Files
          /\ t[h.slot] = s[h.slot] /\ c[h.file] = d[h.file] /\ (h.file \in v <=> h.file \in u)
      BY <1>6, <1>8, <1>16, <2>2 DEF HandleOk
    <3>2. \A j \in Slots : ~Vacant(t[j]) /\ t[j].file = h.file => j # i
      BY <1>1, <1>3, <1>8, <3>1
    <3>3. \A j \in Slots : ~Vacant(t[j]) /\ t[j].file = h.file => j = h.slot
      BY <1>8, <1>16, <2>2, <3>2 DEF HandleOk
    <3>4. QED
      BY <1>16, <2>2, <3>1, <3>3 DEF HandleOk, NameOf
  <2>3. QED
    BY <2>1, <2>2
<1>17. QED
  BY <1>8, <1>10, <1>11, <1>14, <1>15, <1>16 DEF Made

\* What has become of them when slot i keeps its file.
Changed(s, u, d, i, e, t) ==
    /\ Fine(t, u, d)
    /\ MapOf(t, d) = WrittenMap(s, d, i, t, d)
    /\ NameAt(t[i]) = NameAt(e) /\ (Visible(t[i]) <=> Visible(e)) /\ (~Vacant(t[i]) => t[i] = e)
    /\ \A h : HandleOk(h, s, u, d) /\ (h.open /\ h.slot = i => e.size <= h.size) =>
                 HandleOk(h, t, u, d)

\* An entry that keeps its file and gets another name, other attributes or
\* another size.
LEMMA ChangeFine ==
    ASSUME NEW s, NEW u, NEW d, Fine(s, u, d), NEW i \in Slots, ~Vacant(s[i]),
           NEW e \in Entries, e.name \in Names, e.file = s[i].file, e.size <= Len(d[e.file]),
           Visible(e) => \A j \in Slots \ {i} : ~Shows(s, j, e.name),
           NEW t, Only(i, s, t), t[i] = Kept(e)
    PROVE  Changed(s, u, d, i, e, t)
<1>1. e.name[1] # UNUSED
  BY NameChars
<1>2. PICK k : k = Kept(e) /\ k \in Entries /\ k.name[1] # UNUSED
               /\ (Vacant(k) <=> e.name[1] = DELETED) /\ (~Vacant(k) => k = e) /\ (Visible(k) <=> Visible(e))
  BY <1>1, KeptFields
<1>3. Good(s, u, d) /\ u \subseteq Files /\ d \in [Files -> Seq(Cells)] /\ Tidy(s)
  BY DEF Fine, Good
<1>4. t[i] = k /\ t \in [Slots -> Entries] /\ \A j \in Slots \ {i} : t[j] = s[j]
  BY <1>2 DEF Only
<1>5. ASSUME NEW j \in Slots, ~Vacant(s[j])
      PROVE  s[j].file \in u /\ s[j].size <= Len(d[s[j].file]) /\ (s[j].file = e.file => j = i)
  BY <1>3, <1>5 DEF Good, FilesApart, SizesFit
<1>6. Good(t, u, d)
  <2>1. ~Vacant(t[i]) => t[i].file \in u /\ t[i].name \in Names /\ t[i].size <= Len(d[t[i].file])
    BY <1>2, <1>4, <1>5
  <2>2. ~Vacant(t[i]) => \A j \in Slots \ {i} : ~Vacant(s[j]) => s[j].file # t[i].file
    BY <1>2, <1>4, <1>5
  <2>3. Visible(t[i]) => \A j \in Slots \ {i} : ~Shows(s, j, t[i].name)
    BY <1>2, <1>4 DEF Visible
  <2>4. s[i].name[1] # UNUSED /\ t[i].name[1] # UNUSED
    BY <1>2, <1>4 DEF Vacant
  <2>5. \A j \in Slots \ {i} : ~Vacant(s[j]) => s[j].file \in u /\ s[j].size <= Len(d[s[j].file])
    BY <1>5
  <2>6. Good(s, u, d)
    BY <1>3
  <2>7. QED
    BY <1>4, <2>1, <2>2, <2>3, <2>4, <2>5, <2>6, WriteGood
<1>7. Fine(t, u, d)
  BY <1>3, <1>6 DEF Fine
<1>8. MapOf(t, d) = WrittenMap(s, d, i, t, d)
  <2>1. Tidy(t) /\ Tidy(s)
    BY <1>3, <1>6 DEF Good
  <2>2. Visible(t[i]) => t[i].name \in Names
    BY <1>2, <1>4 DEF Visible
  <2>3. \A j \in Slots \ {i} : Visible(s[j]) => FileIn(t, d, j) = FileIn(s, d, j)
    BY <1>4 DEF FileIn
  <2>4. \A j \in Slots \ {i} : t[j] = s[j]
    BY <1>4
  <2>5. QED
    BY <2>1, <2>2, <2>3, <2>4, WriteMap
<1>9. NameAt(t[i]) = NameAt(e)
  BY <1>2, <1>4 DEF NameAt, Visible
<1>10. ASSUME NEW h, HandleOk(h, s, u, d), h.open /\ h.slot = i => e.size <= h.size
       PROVE  HandleOk(h, t, u, d)
  <2>1. CASE ~h.open
    BY <2>1 DEF HandleOk
  <2>2. CASE h.open
    <3>1. h.slot \in Slots /\ h.size \in Nat /\ h.file \in Files /\ (h.file \in u => h.size <= Len(d[h.file]))
      BY <1>10, <2>2 DEF HandleOk
    <3>2. t[h.slot].name[1] # UNUSED
      BY <1>2, <1>4, <1>10, <2>2 DEF HandleOk
    <3>3. ~Vacant(t[h.slot]) => t[h.slot].file = h.file /\ t[h.slot].size <= h.size
      BY <1>2, <1>4, <1>10, <2>2 DEF HandleOk
    <3>4. \A j \in Slots : ~Vacant(t[j]) /\ t[j].file = h.file => j = h.slot
      BY <1>2, <1>4, <1>10, <2>2 DEF HandleOk
    <3>5. QED
      BY <3>1, <3>2, <3>3, <3>4 DEF HandleOk
  <2>3. QED
    BY <2>1, <2>2
<1>11. QED
  BY <1>2, <1>4, <1>7, <1>8, <1>9, <1>10 DEF Changed

\* An entry that is deleted, with its file.
LEMMA EraseFine ==
    ASSUME NEW s, NEW u, NEW d, Fine(s, u, d), NEW i \in Slots, ~Vacant(s[i]),
           NEW t, Only(i, s, t), t[i] = Gone, NEW v, v = u \ {s[i].file},
           NEW c, OnlyOf(s[i].file, d, c)
    PROVE  /\ Fine(t, v, c)
           /\ MapOf(t, c) = WrittenMap(s, d, i, t, c)
           /\ \A h : HandleOk(h, s, u, d) => HandleOk(h, t, v, c)
<1>1. PICK f : f = s[i].file
  OBVIOUS
<1>2. Good(s, u, d) /\ u \subseteq Files /\ d \in [Files -> Seq(Cells)] /\ Tidy(s)
  BY DEF Fine, Good
<1>3. t[i] = Gone /\ t \in [Slots -> Entries] /\ \A j \in Slots \ {i} : t[j] = s[j]
  BY DEF Only
<1>4. Vacant(t[i]) /\ t[i].name[1] # UNUSED
  BY <1>3, Blanks DEF Vacant
<1>5. c \in [Files -> Seq(Cells)] /\ \A g \in Files \ {f} : c[g] = d[g]
  BY <1>1 DEF OnlyOf
<1>6. ASSUME NEW j \in Slots \ {i}, ~Vacant(s[j])
      PROVE  /\ s[j].file \in v /\ s[j].file \in Files /\ s[j].file # f
             /\ c[s[j].file] = d[s[j].file] /\ s[j].size <= Len(c[s[j].file])
  <2>1. s[j].file \in u /\ s[j].file # f /\ s[j].size <= Len(d[s[j].file])
    BY <1>1, <1>2, <1>6 DEF Good, FilesApart, SizesFit
  <2>2. QED
    BY <1>1, <1>2, <1>5, <2>1
<1>7. Good(t, v, c)
  <2>1. Visible(t[i]) => \A j \in Slots \ {i} : ~Shows(s, j, t[i].name)
    BY <1>4 DEF Visible
  <2>2. s[i].name[1] # UNUSED
    BY DEF Vacant
  <2>3. \A j \in Slots \ {i} : ~Vacant(s[j]) => s[j].file \in v /\ s[j].size <= Len(c[s[j].file])
    BY <1>6
  <2>4. Good(s, u, d)
    BY <1>2
  <2>5. QED
    BY <1>3, <1>4, <2>1, <2>2, <2>3, <2>4, WriteGood
<1>8. Fine(t, v, c)
  BY <1>2, <1>5, <1>7 DEF Fine
<1>9. MapOf(t, c) = WrittenMap(s, d, i, t, c)
  <2>1. Tidy(t) /\ Tidy(s)
    BY <1>2, <1>7 DEF Good
  <2>2. Visible(t[i]) => t[i].name \in Names
    BY <1>4 DEF Visible
  <2>3. \A j \in Slots \ {i} : Visible(s[j]) => FileIn(t, c, j) = FileIn(s, d, j)
    BY <1>3, <1>6 DEF FileIn, Visible
  <2>4. \A j \in Slots \ {i} : t[j] = s[j]
    BY <1>3
  <2>5. QED
    BY <2>1, <2>2, <2>3, <2>4, WriteMap
<1>10. ASSUME NEW h, HandleOk(h, s, u, d)
       PROVE  HandleOk(h, t, v, c)
  <2>1. CASE ~h.open
    BY <2>1 DEF HandleOk
  <2>2. CASE h.open
    <3>1. /\ h.slot \in Slots /\ h.size \in Nat /\ h.file \in Files
          /\ h.file \in v => h.file \in u /\ h.file # f
      BY <1>1, <1>10, <2>2 DEF HandleOk
    <3>2. h.file \in v => h.size <= Len(c[h.file])
      BY <1>5, <1>10, <2>2, <3>1 DEF HandleOk
    <3>3. t[h.slot].name[1] # UNUSED
      BY <1>3, <1>4, <1>10, <2>2 DEF HandleOk
    <3>4. ~Vacant(t[h.slot]) => t[h.slot].file = h.file /\ t[h.slot].size <= h.size
      BY <1>3, <1>4, <1>10, <2>2 DEF HandleOk
    <3>5. \A j \in Slots : ~Vacant(t[j]) /\ t[j].file = h.file => j = h.slot
      BY <1>3, <1>4, <1>10, <2>2 DEF HandleOk
    <3>6. QED
      BY <3>1, <3>2, <3>3, <3>4, <3>5 DEF HandleOk
  <2>3. QED
    BY <2>1, <2>2
<1>11. QED
  BY <1>8, <1>9, <1>10

\* Cells are written to file f, none that an entry covers.
LEMMA DataFine ==
    ASSUME NEW s, NEW u, NEW d, Fine(s, u, d), NEW f, NEW c, OnlyOf(f, d, c),
           \A i \in Slots : ~Vacant(s[i]) /\ s[i].file = f =>
               /\ s[i].size <= Len(c[f])
               /\ Cut(c[f], s[i].size) = Cut(d[f], s[i].size)
    PROVE  /\ Fine(s, u, c) /\ MapOf(s, c) = MapOf(s, d)
           /\ \A h : HandleOk(h, s, u, d) /\ (h.open /\ h.file = f /\ f \in u => h.size <= Len(c[f])) =>
                        HandleOk(h, s, u, c)
<1>1. Good(s, u, d) /\ u \subseteq Files /\ Tidy(s) /\ FilesApart(s, u) /\ SizesFit(s, d)
  BY DEF Fine, Good
<1>2. c \in [Files -> Seq(Cells)] /\ \A g \in Files \ {f} : c[g] = d[g]
  BY DEF OnlyOf
<1>3. ASSUME NEW i \in Slots, ~Vacant(s[i])
      PROVE  s[i].size <= Len(c[s[i].file]) /\ FileIn(s, c, i) = FileIn(s, d, i)
  <2>1. s[i].file \in Files /\ s[i].size <= Len(d[s[i].file])
    BY <1>1, <1>3 DEF FilesApart, SizesFit
  <2>2. CASE s[i].file = f
    BY <1>3, <2>2 DEF FileIn
  <2>3. CASE s[i].file # f
    BY <1>2, <2>1, <2>3 DEF FileIn
  <2>4. QED
    BY <2>2, <2>3
<1>4. Fine(s, u, c)
  BY <1>1, <1>2, <1>3 DEF Fine, Good, SizesFit
<1>5. MapOf(s, c) = MapOf(s, d)
  <2>1. \A i \in Slots : Visible(s[i]) => FileIn(s, c, i) = FileIn(s, d, i)
    BY <1>3 DEF Visible
  <2>2. QED
    BY <1>1, <2>1, SameMap
<1>6. ASSUME NEW h, HandleOk(h, s, u, d), h.open /\ h.file = f /\ f \in u => h.size <= Len(c[f])
      PROVE  HandleOk(h, s, u, c)
  <2>1. h.open /\ h.file \in u => h.size <= Len(c[h.file])
    BY <1>2, <1>6 DEF HandleOk
  <2>2. QED
    BY <1>6, <2>1 DEF HandleOk
<1>7. QED
  BY <1>4, <1>5, <1>6

----------------------------------------------------------------------------
(* The invariant.                                                          *)

Working(j) == j.kind \in {"copy", "move", "remove"}
Transfers(j) == j.kind \in {"copy", "move"}

\* The entries a copy is between, and what of the cells is copied.
JobOk(j, h, s, d) ==
    /\ Working(j) =>
          /\ j.from \in Names /\ j.to \in Names
          /\ j.source.slot \in Slots /\ j.target.slot \in Slots /\ j.source.slot # j.target.slot
          /\ Shows(s, j.source.slot, j.from) /\ Shows(s, j.target.slot, j.to)
          /\ j.source.dir = ("directory" \in s[j.source.slot].attr)
          /\ j.source.file = s[j.source.slot].file /\ j.source.size = s[j.source.slot].size
          /\ j.target.file = s[j.target.slot].file
          /\ h.open => h.slot # j.target.slot
    /\ Transfers(j) =>
          /\ s[j.target.slot].size = 0 /\ j.target.size = Len(d[j.target.file])
          /\ j.target.size = 0 \/ (SectorSize <= j.target.size
                                   /\ j.target.size < j.source.size + SectorSize)
          /\ \A k \in 1 .. j.target.size :
                k <= j.source.size => d[j.target.file][k] = d[j.source.file][k]
    /\ j.kind = "remove" /\ ~j.failed /\ ~j.source.dir =>
          /\ j.source.size <= s[j.target.slot].size
          /\ \A k \in 1 .. j.source.size : d[j.target.file][k] = d[j.source.file][k]

World ==
    /\ Fine(slots, used, data) /\ HandleOk(handle, slots, used, data)
    /\ JobOk(job, handle, slots, data)

DirInv == sound => World

LEMMA NoWork == ~Working(NoJob) /\ ~Transfers(NoJob) /\ \A h, s, d : JobOk(NoJob, h, s, d)
BY DEF Working, Transfers, JobOk, NoJob

LEMMA ListWork ==
    ASSUME NEW j, j.kind \in {"none", "list"}
    PROVE  ~Working(j) /\ ~Transfers(j) /\ \A h, s, d : JobOk(j, h, s, d)
BY DEF Working, Transfers, JobOk

LEMMA IdleWork == Idle => ~Working(job) /\ ~Transfers(job)
BY NoWork DEF Idle

LEMMA FindsAll ==
    ASSUME Fine(slots, used, data), NEW n \in Names
    PROVE  /\ Find(n) = None <=> n \notin DOMAIN FileMap
           /\ Find(n) = None => \A j \in Slots : ~Shows(slots, j, n)
           /\ Find(n) # None => /\ Find(n) \in Slots /\ Shows(slots, Find(n), n)
                                /\ FileMap[n] = FileIn(slots, data, Find(n))
                                /\ n[1] # DELETED /\ ~Vacant(slots[Find(n)])
<1>1. PICK s, d, i : s = slots /\ d = data /\ i = Find(n) /\ i = FoundIn(s, n)
  BY TheMap
<1>2. Tidy(s) /\ FileMap = MapOf(s, d)
  BY <1>1, TheMap DEF Fine, Good
<1>3. DOMAIN FileMap = {m \in Names : \E j \in Slots : Shows(s, j, m)}
  BY <1>2, MapIs
<1>4. (i # None => i \in Slots /\ Shows(s, i, n)) /\ \A j \in Slots : Shows(s, j, n) => i = j
  BY <1>1, <1>2, SearchFinds
<1>5. i = None => \A j \in Slots : ~Shows(s, j, n)
  BY <1>4, SlotsAreNumbers
<1>6. ASSUME i # None PROVE FileMap[n] = FileIn(s, d, i) /\ n[1] # DELETED /\ ~Vacant(s[i])
  <2>1. FileMap[n] = FileIn(s, d, i)
    BY <1>2, <1>4, <1>6, MapShows
  <2>2. QED
    BY <1>4, <1>6, <2>1 DEF Shows, Visible, Vacant
<1>7. QED
  BY <1>1, <1>3, <1>4, <1>5, <1>6

\* What MakeEntry does.
LEMMA MakeWorld ==
    ASSUME TypeInv, World, NEW n \in Names, NEW a \in Attributes, "longname" \notin a,
           MakeEntry(n, a), sound'
    PROVE  /\ sound
           /\ Place \in Slots /\ NewFile \in Files /\ data'[NewFile] = <<>>
           /\ Fine(slots', used', data') /\ HandleOk(handle, slots', used', data')
           /\ NameOf(handle, slots') = NameOf(handle, slots)
           /\ n \notin DOMAIN FileMap
           /\ n[1] = DELETED => FileMap' = FileMap
           /\ n[1] # DELETED =>
                 /\ FileMap' = [m \in DOMAIN FileMap \cup {n} |-> IF m = n THEN Empty(a) ELSE FileMap[m]]
                 /\ Shows(slots', Place, n) /\ slots'[Place] = Entry(n, a, NewFile, 0)
           /\ \A j \in Slots \ {Place} : slots'[j] = slots[j]
           /\ ~(handle.open /\ (handle.slot = Place \/ handle.file = NewFile))
           /\ Vacant(slots[Place])
           /\ \A g \in Files \ {NewFile} : data'[g] = data[g]
           /\ NewFile \notin used
<1>1. PICK s, u, d, t, v, c, i, f, h :
        /\ s = slots /\ u = used /\ d = data /\ t = slots' /\ v = used' /\ c = data'
        /\ i = Place /\ f = NewFile /\ h = handle
  OBVIOUS
<1>2. /\ i \in Slots /\ Vacant(s[i]) /\ \A j \in Slots : j < i => ~Vacant(s[j])
      /\ f \in Files \ u
  BY <1>1, PlaceIs DEF MakeEntry
<1>3. sound /\ Find(n) = None /\ ~(h.open /\ (h.slot = i \/ h.file = f))
      /\ v = u \cup {f} /\ c = [d EXCEPT ![f] = <<>>]
  BY <1>1 DEF MakeEntry
<1>4. Fine(s, u, d) /\ HandleOk(h, s, u, d)
  BY <1>1 DEF World
<1>5. \A j \in Slots : ~Shows(s, j, n)
  BY <1>1, <1>3, <1>4, FindsAll
<1>6. PICK e : e = Entry(n, a, f, 0)
  OBVIOUS
<1>7. t = [s EXCEPT ![i] = Kept(e)] /\ t \in [Slots -> Entries] /\ s \in [Slots -> Entries]
  BY <1>1, <1>6, MakeType DEF TypeInv
<1>8. Only(i, s, t) /\ t[i] = Kept(e)
  BY <1>2, <1>7 DEF Only
<1>9. OnlyOf(f, d, c) /\ c[f] = <<>>
  <2>1. d \in [Files -> Seq(Cells)] /\ <<>> \in Seq(Cells)
    BY <1>4 DEF Fine
  <2>2. QED
    BY <1>2, <1>3, <2>1 DEF OnlyOf
<1>10. /\ Fine(t, v, c)
       /\ n \notin DOMAIN MapOf(s, d)
       /\ n[1] = DELETED => MapOf(t, c) = MapOf(s, d)
       /\ n[1] # DELETED =>
             /\ MapOf(t, c) = [m \in DOMAIN MapOf(s, d) \cup {n} |->
                                  IF m = n THEN Empty(a) ELSE MapOf(s, d)[m]]
             /\ Shows(t, i, n) /\ t[i] = e
       /\ HandleOk(h, t, v, c) /\ NameOf(h, t) = NameOf(h, s)
       /\ \A j \in Slots \ {i} : t[j] = s[j]
  <2>1. v = u \cup {f}
    BY <1>3
  <2>2. Made(s, u, d, i, n, a, f, e, t, v, c)
    BY <1>2, <1>4, <1>5, <1>6, <1>8, <1>9, <2>1, MakeFine
  <2>3. QED
    BY <1>3, <1>4, <2>2 DEF Made
<1>11. FileMap = MapOf(s, d) /\ FileMap' = MapOf(t, c)
  BY <1>1, TheMap
<1>12. \A g \in Files \ {f} : c[g] = d[g]
  BY <1>9 DEF OnlyOf
<1>13. QED
  BY <1>1, <1>2, <1>3, <1>6, <1>9, <1>10, <1>11, <1>12

----------------------------------------------------------------------------
(* The steps of the map, of what it is mapped to while it is sound.        *)

Unseens == {n \in Names : n[1] = DELETED}
Hidings == {a \in Attributes : "longname" \in a}
Copies ==
    IF Copying THEN {[from |-> job.from, to |-> job.to, failed |-> job.failed]} ELSE {}
Sound == sound = TRUE /\ sound' = TRUE

\* FileMap with file f by the name of n.
Given(map, n, f) ==
    IF n \in Unseens \/ f.attr \in Hidings THEN map
    ELSE [m \in DOMAIN map \cup {n} |-> IF m = n THEN f ELSE map[m]]
Without(map, n) == [m \in DOMAIN map \ {n} |-> map[m]]

LEMMA MapBreak == ASSUME ~sound' PROVE Map!Next
BY DEF Map!Next, Map!Break

LEMMA MapCall ==
    ASSUME Sound, answer' = No, FileMap' = FileMap, OpenName' = OpenName, Copies' = Copies
    PROVE  Map!Next
BY DEF Sound, Copies, Map!Next, Map!Answers, Map!Call, Map!No, No

LEMMA MapTell ==
    ASSUME Sound, NEW n \in Names, n \in DOMAIN FileMap,
           answer' = [ok |-> TRUE, attr |-> FileMap[n].attr, size |-> Len(FileMap[n].cells)],
           FileMap' = FileMap, OpenName' = OpenName, Copies' = Copies
    PROVE  Map!Next
<1>1. Map!Tell(n)
  BY DEF Sound, Copies, Map!Tell, Map!Call, Map!Used
<1>2. QED
  BY <1>1 DEF Sound, Map!Next, Map!Answers

LEMMA MapOpen ==
    ASSUME Sound, NEW n \in Names, n \in DOMAIN FileMap, answer' = Yes,
           FileMap' = FileMap, OpenName' = {n}, Copies' = Copies
    PROVE  Map!Next
<1>1. Map!Open(n)
  BY DEF Sound, Copies, Map!Open, Map!Used, Map!Yes, Map!No, Yes, No
<1>2. QED
  BY <1>1 DEF Sound, Map!Next, Map!Answers

LEMMA MapFail ==
    ASSUME Sound, Copying, Copying', job'.from = job.from, job'.to = job.to, job'.failed = TRUE,
           answer' = No, FileMap' = FileMap, OpenName' = OpenName
    PROVE  Map!Next
<1>1. PICK c : c = [from |-> job.from, to |-> job.to, failed |-> job.failed]
  OBVIOUS
<1>2. [c EXCEPT !.failed = TRUE] = [from |-> job'.from, to |-> job'.to, failed |-> job'.failed]
  <2>1. PICK a, b, z, y : a = job.from /\ b = job.to /\ z = job.failed /\ y = TRUE
    OBVIOUS
  <2>2. [[from |-> a, to |-> b, failed |-> z] EXCEPT !.failed = y]
           = [from |-> a, to |-> b, failed |-> y]
    OBVIOUS
  <2>3. c = [from |-> a, to |-> b, failed |-> z]
    BY <1>1, <2>1
  <2>4. [from |-> job'.from, to |-> job'.to, failed |-> job'.failed] = [from |-> a, to |-> b, failed |-> y]
    BY <2>1
  <2>5. QED
    BY <2>2, <2>3, <2>4
<1>3. Map!FailCopy(c)
  BY <1>2 DEF Sound, Map!FailCopy, Map!No, No
<1>4. c \in IF sound /\ Copying THEN {[from |-> job.from, to |-> job.to, failed |-> job.failed]} ELSE {}
  BY <1>1 DEF Sound
<1>5. QED
  BY <1>3, <1>4 DEF Sound, Map!Next, Map!Answers

LEMMA MapCrash ==
    ASSUME Sound, answer' = No, FileMap' = FileMap, OpenName' = {}, Copies' = {}
    PROVE  Map!Next
BY DEF Sound, Copies, Map!Next, Map!Answers, Map!Crash, Map!No, No

LEMMA MapClose ==
    ASSUME Sound, answer' = No, OpenName' = {}, Copies = {}, Copies' = {},
           DOMAIN FileMap' = DOMAIN FileMap,
           \A n \in DOMAIN FileMap :
              /\ FileMap'[n].attr = FileMap[n].attr
              /\ IF n \in OpenName THEN IsPrefix(FileMap[n].cells, FileMap'[n].cells)
                                   ELSE FileMap'[n] = FileMap[n]
    PROVE  Map!Next
<1>1. Map!Close
  <2>1. PICK m, w, o : m = FileMap /\ w = FileMap' /\ o = OpenName
    OBVIOUS
  <2>2. /\ DOMAIN w = DOMAIN m
        /\ \A n \in DOMAIN m : /\ w[n].attr = m[n].attr
                               /\ IF n \in o THEN IsPrefix(m[n].cells, w[n].cells) ELSE w[n] = m[n]
    BY <2>1
  <2>3. /\ (IF sound THEN FileMap ELSE <<>>) = m /\ (IF sound THEN FileMap ELSE <<>>)' = w
        /\ (IF sound THEN OpenName ELSE {}) = o /\ (IF sound THEN OpenName ELSE {})' = {}
    BY <2>1 DEF Sound
  <2>4. QED
    BY <2>2, <2>3 DEF Sound, Copies, Map!Close, Map!Used, Map!IsPrefix, IsPrefix, Map!No, No
<1>2. QED
  BY <1>1 DEF Sound, Map!Next, Map!Changes

LEMMA MapDelete ==
    ASSUME Sound, NEW n \in Names, n \in DOMAIN FileMap, answer' = Yes, Copies = {}, Copies' = {},
           FileMap' = Without(FileMap, n), OpenName' = OpenName \ {n}
    PROVE  Map!Next
<1>1. Map!Delete(n)
  BY DEF Sound, Copies, Without, Map!Delete, Map!Without, Map!Used, Map!Yes, Map!No, Yes, No
<1>2. QED
  BY <1>1 DEF Sound, Map!Next, Map!Changes

LEMMA MapCreate ==
    ASSUME Sound, NEW n \in Names, n \notin DOMAIN FileMap, answer' \in {Yes, No},
           Copies = {}, Copies' = {}, NEW a \in Attributes,
           FileMap' = Given(FileMap, n, Empty(a)), OpenName' \in {OpenName, {n}}
    PROVE  Map!Next
<1>1. Map!Create(n)
  BY DEF Sound, Copies, Given, Empty, Unseens, Hidings, Map!Create, Map!With, Map!Empty, Map!Used,
         Map!Yes, Map!No, Yes, No
<1>2. QED
  BY <1>1 DEF Sound, Map!Next, Map!Changes

LEMMA MapSet ==
    ASSUME Sound, NEW n \in Names, n \in DOMAIN FileMap, answer' = Yes,
           Copies = {}, Copies' = {}, NEW a \in Attributes,
           FileMap' = Given(Without(FileMap, n), n, [FileMap[n] EXCEPT !.attr = a]),
           OpenName' = OpenName \cap DOMAIN FileMap'
    PROVE  Map!Next
<1>1. Map!SetAttributes(n)
  BY DEF Sound, Copies, Given, Without, Unseens, Hidings, Map!SetAttributes, Map!With, Map!Without,
         Map!Used, Map!Yes, Map!No, Yes, No
<1>2. QED
  BY <1>1 DEF Sound, Map!Next, Map!Changes

LEMMA MapRename ==
    ASSUME Sound, NEW o \in Names, NEW n \in Names, o \in DOMAIN FileMap, n \notin DOMAIN FileMap,
           answer' = Yes, Copies = {}, Copies' = {},
           FileMap' = Given(Without(FileMap, o), n, FileMap[o]),
           OpenName' = IF o \in OpenName THEN {n} \ Unseens ELSE OpenName
    PROVE  Map!Next
<1>1. Map!Rename(o, n)
  BY DEF Sound, Copies, Given, Without, Unseens, Hidings, Map!Rename, Map!With, Map!Without,
         Map!Used, Map!Yes, Map!No, Yes, No
<1>2. QED
  BY <1>1 DEF Sound, Map!Next, Map!Changes

LEMMA MapStart ==
    ASSUME Sound, NEW o \in Names, NEW n \in Names, o \in DOMAIN FileMap, n \notin DOMAIN FileMap,
           n \notin Unseens, answer' = No, ~Copying, Copying', job'.from = o, job'.to = n,
           job'.failed = FALSE, FileMap' = Given(FileMap, n, Empty({})), OpenName' = OpenName
    PROVE  Map!Next
<1>1. Map!StartCopy(o, n)
  BY DEF Sound, Given, Empty, Unseens, Hidings, Map!StartCopy, Map!With, Map!Empty, Map!Used,
         Map!No, No
<1>2. QED
  BY <1>1 DEF Sound, Map!Next, Map!Changes

LEMMA MapEnd ==
    ASSUME Sound, Copying, ~Copying', answer' \in {Yes, No}, OpenName' = OpenName,
           job.from \in DOMAIN FileMap, job.to \in DOMAIN FileMap, job.to \in DOMAIN FileMap',
           FileMap' = [FileMap EXCEPT ![job.to].cells = FileMap'[job.to].cells],
           \/ job.failed \/ "directory" \in FileMap[job.from].attr
           \/ /\ IsPrefix(FileMap[job.from].cells, FileMap'[job.to].cells)
              /\ Len(FileMap'[job.to].cells) < Len(FileMap[job.from].cells) + SectorSize
    PROVE  Map!Next
<1>1. PICK c : c = [from |-> job.from, to |-> job.to, failed |-> job.failed]
  OBVIOUS
<1>2. c.from = job.from /\ c.to = job.to /\ c.failed = job.failed
  BY <1>1
<1>3. Map!EndCopy(c)
  <2>1. PICK m, w, f : m = FileMap /\ w = FileMap' /\ f = w[c.to]
    OBVIOUS
  <2>2. /\ c.from \in DOMAIN m /\ c.to \in DOMAIN m /\ c.to \in DOMAIN w
        /\ w = [m EXCEPT ![c.to].cells = f.cells]
        /\ \/ c.failed \/ "directory" \in m[c.from].attr
           \/ /\ IsPrefix(m[c.from].cells, f.cells)
              /\ Len(f.cells) < Len(m[c.from].cells) + SectorSize
    BY <1>2, <2>1
  <2>3. /\ (IF sound THEN FileMap ELSE <<>>) = m /\ (IF sound THEN FileMap ELSE <<>>)' = w
    BY <2>1 DEF Sound
  <2>4. f \in {w[n] : n \in {c.to} \cap DOMAIN w}
    BY <2>1, <2>2
  <2>5. /\ c.to \in DOMAIN m
        /\ \E q \in {w[n] : n \in {c.to} \cap DOMAIN w} :
              /\ w = [m EXCEPT ![c.to].cells = q.cells]
              /\ \/ c.failed \/ "directory" \in m[c.from].attr
                 \/ Map!IsPrefix(m[c.from].cells, q.cells) /\ Len(q.cells) < Len(m[c.from].cells) + SectorSize
    BY <2>2, <2>4 DEF Map!IsPrefix, IsPrefix
  <2>6. /\ (IF sound /\ Copying THEN {[from |-> job.from, to |-> job.to, failed |-> job.failed]}
                                ELSE {})' = {}
        /\ (IF sound THEN answer ELSE No)' \in {Map!Yes, Map!No}
        /\ UNCHANGED (IF sound THEN OpenName ELSE {})
    BY DEF Sound, Map!Yes, Map!No, Yes, No
  <2>7. PICK q \in {w[n] : n \in {c.to} \cap DOMAIN w} :
              /\ w = [m EXCEPT ![c.to].cells = q.cells]
              /\ \/ c.failed \/ "directory" \in m[c.from].attr
                 \/ Map!IsPrefix(m[c.from].cells, q.cells) /\ Len(q.cells) < Len(m[c.from].cells) + SectorSize
    BY <2>5
  <2>8. (IF sound THEN FileMap ELSE <<>>)'
           = [(IF sound THEN FileMap ELSE <<>>) EXCEPT ![c.to].cells = q.cells]
    BY <2>3, <2>7, Zenon
  <2>9. c.to \in DOMAIN (IF sound THEN FileMap ELSE <<>>)
    BY <2>3, <2>5, Zenon
  <2>10. q \in {(IF sound THEN FileMap ELSE <<>>)'[n] :
                   n \in {c.to} \cap DOMAIN (IF sound THEN FileMap ELSE <<>>)'}
    BY <2>3, <2>7
  <2>11. \/ c.failed \/ "directory" \in (IF sound THEN FileMap ELSE <<>>)[c.from].attr
         \/ Map!Copied((IF sound THEN FileMap ELSE <<>>)[c.from].cells, q.cells)
    BY <2>3, <2>7 DEF Map!Copied
  <2>12. QED
    BY <2>6, <2>8, <2>9, <2>10, <2>11, Zenon DEF Map!EndCopy, Map!Used
<1>4. c \in IF sound /\ Copying THEN {[from |-> job.from, to |-> job.to, failed |-> job.failed]} ELSE {}
  BY <1>1 DEF Sound
<1>5. QED
  BY <1>3, <1>4 DEF Sound, Map!Next, Map!Changes

LEMMA MapStop ==
    ASSUME Sound, Copying, ~Copying', answer' = No, OpenName' = OpenName,
           \/ FileMap' = FileMap
           \/ /\ job.to \in DOMAIN FileMap'
              /\ FileMap' = [FileMap EXCEPT ![job.to].cells = FileMap'[job.to].cells]
    PROVE  Map!Next
<1>1. PICK c : c = [from |-> job.from, to |-> job.to, failed |-> job.failed]
  OBVIOUS
<1>2. c.to = job.to
  BY <1>1
<1>3. Map!StopCopy(c)
  BY <1>2 DEF Sound, Map!StopCopy, Map!No, No
<1>4. c \in IF sound /\ Copying THEN {[from |-> job.from, to |-> job.to, failed |-> job.failed]} ELSE {}
  BY <1>1 DEF Sound
<1>5. QED
  BY <1>3, <1>4 DEF Sound, Map!Next, Map!Changes

----------------------------------------------------------------------------
(* Every step keeps the invariant, and is one of the map.                  *)

LEMMA SoundIs == ASSUME TypeInv, TypeInv', sound, sound' PROVE Sound
BY DEF TypeInv, Sound

LEMMA OpenNameIs ==
    OpenName = NameOf(handle, slots) /\ OpenName' = NameOf(handle', slots')
BY DEF OpenName, NameOf

LEMMA CopiesAre ==
    /\ ~Transfers(job) => Copies = {} /\ ~Copying
    /\ Transfers(job) => Copying
    /\ ~Transfers(job') => Copies' = {} /\ ~Copying'
    /\ Transfers(job') => Copying'
BY DEF Copies, Copying, Transfers

LEMMA StillWorld ==
    ASSUME World, UNCHANGED <<disk, handle>>, JobOk(job', handle, slots, data)
    PROVE  World' /\ FileMap' = FileMap /\ OpenName' = OpenName
<1>1. UNCHANGED <<slots, used, data, handle>>
  BY DEF disk
<1>2. World'
  BY <1>1 DEF World
<1>3. FileMap' = FileMap
  BY <1>1, TheMap
<1>4. OpenName' = OpenName
  BY <1>1, OpenNameIs
<1>5. QED
  BY <1>2, <1>3, <1>4

LEMMA QuietStep ==
    ASSUME TypeInv, TypeInv', World, sound, sound', Quiet
    PROVE  World' /\ Map!Next
<1>1. UNCHANGED <<disk, handle, job>>
  BY QuietSteps
<1>2. JobOk(job', handle, slots, data)
  BY <1>1 DEF World
<1>3. World' /\ FileMap' = FileMap /\ OpenName' = OpenName
  BY <1>1, <1>2, StillWorld
<1>4. Copies' = Copies
  BY <1>1 DEF Copies, Copying
<1>5. CASE Mount \/ Umount \/ Refuse
  <2>1. answer' = No
    BY <1>5 DEF Mount, Umount, Refuse
  <2>2. QED
    BY <1>3, <1>4, <2>1, SoundIs, MapCall
<1>6. ASSUME NEW p \in Paths, Tell(p) PROVE Map!Next
  <2>1. PICK n \in Names : n = name_to_83(p)
    BY PathNames
  <2>2. PICK i \in Slots : i = Find(n) /\ FileMap[n] = FileIn(slots, data, i) /\ n \in DOMAIN FileMap
                           /\ ~Vacant(slots[i])
    BY <1>6, <2>1, FindsAll DEF Tell, World
  <2>3. answer' = [ok |-> TRUE, attr |-> slots[i].attr, size |-> slots[i].size]
    BY <1>6, <2>1, <2>2 DEF Tell
  <2>4. PICK d, z : d = data[slots[i].file] /\ z = slots[i].size
    OBVIOUS
  <2>5. d \in Seq(Cells) /\ z \in Nat /\ z <= Len(d)
    <3>1. Fine(slots, used, data)
      BY DEF World
    <3>2. QED
      BY <2>2, <2>4, <3>1, GoodSize DEF Fine
  <2>6. Len(Cut(d, z)) = z
    BY <2>5, FirstCells
  <2>7. FileMap[n].attr = slots[i].attr /\ Len(FileMap[n].cells) = slots[i].size
    <3>1. FileMap[n] = [attr |-> slots[i].attr, cells |-> Cut(d, z)]
      BY <2>2, <2>4 DEF FileIn
    <3>2. QED
      BY <2>4, <2>6, <3>1
  <2>8. QED
    BY <1>3, <1>4, <2>2, <2>3, <2>7, SoundIs, MapTell
<1>7. QED
  BY <1>3, <1>5, <1>6 DEF Quiet

LEMMA ListingStep ==
    ASSUME TypeInv, TypeInv', World, sound, sound', ListStep
    PROVE  World' /\ Map!Next
<1>1. /\ UNCHANGED <<disk, handle>> /\ answer' = No /\ job.kind \in {"none", "list"}
      /\ job' = job \/ job' = NoJob \/ job' = [NoJob EXCEPT !.kind = "list"]
  BY ListSteps
<1>2. job'.kind \in {"none", "list"}
  BY <1>1 DEF NoJob
<1>3. JobOk(job', handle, slots, data) /\ ~Transfers(job')
  BY <1>2, ListWork
<1>4. ~Transfers(job)
  BY <1>1, ListWork
<1>5. World' /\ FileMap' = FileMap /\ OpenName' = OpenName
  BY <1>1, <1>3, StillWorld
<1>6. Copies' = Copies
  BY <1>3, <1>4, CopiesAre
<1>7. QED
  BY <1>1, <1>5, <1>6, SoundIs, MapCall

LEMMA CrashStep ==
    ASSUME TypeInv, TypeInv', World, sound, sound', Crash
    PROVE  World' /\ Map!Next /\ FileMap' = FileMap
<1>1. UNCHANGED <<slots, used, data>> /\ handle' = NoHandle /\ job' = NoJob /\ answer' = No
  BY DEF Crash, disk
<1>2. handle'.open = FALSE
  BY <1>1 DEF NoHandle
<1>3. World'
  BY <1>1, <1>2, NoWork DEF World, HandleOk
<1>4. FileMap' = FileMap
  BY <1>1, TheMap
<1>5. OpenName' = {}
  BY <1>2, OpenNameIs DEF NameOf
<1>6. Copies' = {}
  BY <1>1, NoWork, CopiesAre
<1>7. QED
  BY <1>1, <1>3, <1>4, <1>5, <1>6, SoundIs, MapCrash

LEMMA OpenStep ==
    ASSUME TypeInv, TypeInv', World, sound, sound', NEW p \in Paths, NEW read \in BOOLEAN, Open(p, read)
    PROVE  World' /\ Map!Next
<1>1. PICK n \in Names : n = name_to_83(p)
  BY PathNames
<1>2. PICK i \in Slots : /\ i = Find(n) /\ n \in DOMAIN FileMap /\ ~Vacant(slots[i])
                         /\ Shows(slots, i, n)
  BY <1>1, FindsAll DEF Open, World
<1>3. /\ ~Working(job) /\ ~Transfers(job) /\ answer' = Yes /\ UNCHANGED <<slots, used, data, job>>
      /\ handle' = HandleOn(i)
  BY <1>1, <1>2, IdleWork DEF Open, disk
<1>4. PICK h : h = handle' /\ h.open /\ h.slot = i /\ h.file = slots[i].file /\ h.size = slots[i].size
  BY <1>3 DEF HandleOn
<1>5. PICK s, u, d : s = slots /\ u = used /\ d = data
  OBVIOUS
<1>6. Fine(s, u, d)
  BY <1>5 DEF World
<1>7. HandleOk(h, s, u, d)
  <2>1. /\ s[i].file \in Files /\ s[i].size \in Nat /\ s[i].size <= Len(d[s[i].file])
    BY <1>2, <1>5, <1>6, GoodSize DEF Fine
  <2>2. s[i].name[1] # UNUSED
    BY <1>2, <1>5 DEF Vacant
  <2>3. \A j \in Slots : ~Vacant(s[j]) /\ s[j].file = s[i].file => j = i
    BY <1>2, <1>5, <1>6 DEF Fine, Good, FilesApart
  <2>4. s[i].size <= s[i].size
    BY <2>1
  <2>5. QED
    BY <1>4, <1>5, <2>1, <2>2, <2>3, <2>4 DEF HandleOk
<1>8. World'
  <2>1. JobOk(job', handle', slots', data')
    BY <1>3 DEF JobOk, Working, Transfers
  <2>2. HandleOk(handle', slots', used', data') /\ Fine(slots', used', data')
    BY <1>3, <1>4, <1>5, <1>6, <1>7
  <2>3. QED
    BY <2>1, <2>2 DEF World
<1>9. FileMap' = FileMap
  BY <1>3, TheMap
<1>10. OpenName' = {n}
  BY <1>2, <1>3, <1>4, OpenNameIs DEF NameOf, Shows
<1>11. Copies' = Copies
  BY <1>3, CopiesAre
<1>12. QED
  BY <1>2, <1>3, <1>8, <1>9, <1>10, <1>11, SoundIs, MapOpen

LEMMA AppendStep ==
    ASSUME TypeInv, TypeInv', World, sound, sound', NEW x \in Stamps, Append1(x)
    PROVE  World' /\ Map!Next
<1>1. PICK s, u, d, c, h, g, f, z :
         /\ s = slots /\ u = used /\ d = data /\ c = data' /\ h = handle /\ g = handle'
         /\ f = handle.file /\ z = handle.size
  OBVIOUS
<1>2. /\ ~Working(job) /\ ~Transfers(job) /\ answer' = No /\ UNCHANGED <<slots, used, job>>
      /\ c = IF f \in u THEN [d EXCEPT ![f] = Append(Cut(d[f], z), x)] ELSE d
      /\ g = [h EXCEPT !.size = z + 1] /\ h.open
  BY <1>1, IdleWork DEF Append1, Cut
<1>3. Fine(s, u, d) /\ HandleOk(h, s, u, d) /\ d \in [Files -> Seq(Cells)]
  BY <1>1 DEF World, Fine
<1>4. h \in Handles /\ z = h.size /\ f = h.file
  BY <1>1 DEF TypeInv
<1>5. z \in Nat /\ f \in Files /\ (f \in u => z <= Len(d[f])) /\ h.slot \in Slots
  BY <1>2, <1>3, <1>4 DEF HandleOk
<1>6. /\ g.open /\ g.slot = h.slot /\ g.file = f /\ g.size = z + 1
  BY <1>2, <1>4 DEF Handles
<1>7. /\ f \in u => /\ c[f] \in Seq(Cells) /\ Len(c[f]) = z + 1
                    /\ \A m \in 0 .. z : Cut(c[f], m) = Cut(d[f], m)
      /\ f \notin u => c[f] = d[f]
      /\ OnlyOf(f, d, c)
  <2>1. CASE f \notin u
    BY <1>2, <1>3, <2>1 DEF OnlyOf
  <2>2. CASE f \in u
    <3>1. PICK q, y : q = d[f] /\ y = Append(Cut(q, z), x)
      OBVIOUS
    <3>2. q \in Seq(Cells) /\ z <= Len(q) /\ x \in Cells
      BY <1>3, <1>5, <2>2, <3>1 DEF Cells
    <3>3. /\ y \in Seq(Cells) /\ Len(y) = z + 1 /\ \A m \in 0 .. z : Cut(y, m) = Cut(q, m)
      BY <1>5, <3>1, <3>2, OneMore
    <3>4. c[f] = y /\ c \in [Files -> Seq(Cells)] /\ \A k \in Files \ {f} : c[k] = d[k]
      BY <1>2, <1>3, <1>5, <2>2, <3>1, <3>3
    <3>5. QED
      BY <2>2, <3>1, <3>3, <3>4 DEF OnlyOf
  <2>3. QED
    BY <2>1, <2>2
<1>8. ASSUME NEW i \in Slots, ~Vacant(s[i]), s[i].file = f
      PROVE  s[i].size <= Len(c[f]) /\ Cut(c[f], s[i].size) = Cut(d[f], s[i].size)
  <2>1. f \in u /\ s[i].size \in Nat
    BY <1>3, <1>8, GoodSize DEF Fine
  <2>2. s[i].size <= z
    BY <1>2, <1>3, <1>4, <1>8 DEF HandleOk
  <2>3. s[i].size \in 0 .. z
    BY <1>5, <2>1, <2>2
  <2>4. QED
    <3>1. PICK m \in 0 .. z : m = s[i].size
      BY <2>3
    <3>2. m <= Len(c[f]) /\ Cut(c[f], m) = Cut(d[f], m)
      BY <1>5, <1>7, <2>1
    <3>3. QED
      BY <3>1, <3>2
<1>9. Fine(s, u, c) /\ MapOf(s, c) = MapOf(s, d)
  <2>1. Fine(s, u, d) /\ OnlyOf(f, d, c)
    BY <1>3, <1>7
  <2>2. \A i \in Slots : ~Vacant(s[i]) /\ s[i].file = f =>
               /\ s[i].size <= Len(c[f])
               /\ Cut(c[f], s[i].size) = Cut(d[f], s[i].size)
    BY <1>8
  <2>3. QED
    BY <2>1, <2>2, DataFine
<1>10. HandleOk(g, s, u, c)
  <2>1. ~Vacant(s[h.slot]) => s[h.slot].file = f /\ s[h.slot].size <= z + 1
    <3>1. ~Vacant(s[h.slot]) => s[h.slot].file = f /\ s[h.slot].size <= z /\ s[h.slot].size \in Nat
      BY <1>2, <1>3, <1>4, <1>5, GoodSize DEF HandleOk, Fine
    <3>2. QED
      BY <1>5, <3>1
  <2>2. f \in u => z + 1 <= Len(c[f])
    BY <1>5, <1>7
  <2>3. QED
    BY <1>2, <1>3, <1>4, <1>5, <1>6, <2>1, <2>2 DEF HandleOk
<1>11. World'
  <2>1. JobOk(job', handle', slots', data')
    BY <1>2 DEF JobOk, Working, Transfers
  <2>2. QED
    BY <1>1, <1>2, <1>9, <1>10, <2>1 DEF World
<1>12. FileMap' = FileMap
  BY <1>1, <1>2, <1>9, TheMap
<1>13. OpenName' = OpenName
  BY <1>1, <1>2, <1>4, <1>6, OpenNameIs DEF NameOf
<1>14. Copies' = Copies
  BY <1>2, CopiesAre
<1>15. QED
  BY <1>2, <1>11, <1>12, <1>13, <1>14, SoundIs, MapCall

\* The map after a write.
LEMMA WrittenGone ==
    ASSUME NEW s, NEW d, NEW i, NEW t, NEW c, NEW n, NameAt(s[i]) = {n}, NameAt(t[i]) = {}
    PROVE  WrittenMap(s, d, i, t, c) = Without(MapOf(s, d), n)
<1>1. PICK m : m = MapOf(s, d)
  OBVIOUS
<1>2. (DOMAIN m \ NameAt(s[i])) \cup NameAt(t[i]) = DOMAIN m \ {n}
  OBVIOUS
<1>3. [k \in DOMAIN m \ {n} |-> IF k \in {} THEN FileIn(t, c, i) ELSE m[k]] = [k \in DOMAIN m \ {n} |-> m[k]]
  OBVIOUS
<1>4. QED
  BY <1>1, <1>2, <1>3 DEF WrittenMap, Without

LEMMA WrittenOver ==
    ASSUME NEW s, NEW d, NEW i, NEW t, NEW c, NEW o, NEW n, NameAt(s[i]) = {o}, NameAt(t[i]) = {n},
           n \notin Unseens, FileIn(t, c, i).attr \notin Hidings
    PROVE  WrittenMap(s, d, i, t, c) = Given(Without(MapOf(s, d), o), n, FileIn(t, c, i))
<1>1. PICK m, f, w : m = MapOf(s, d) /\ f = FileIn(t, c, i) /\ w = Without(m, o)
  OBVIOUS
<1>2. DOMAIN w = DOMAIN m \ {o} /\ \A k \in DOMAIN w : w[k] = m[k]
  BY <1>1 DEF Without
<1>3. Given(w, n, f) = [k \in DOMAIN w \cup {n} |-> IF k = n THEN f ELSE w[k]]
  BY <1>1 DEF Given
<1>4. WrittenMap(s, d, i, t, c)
        = [k \in (DOMAIN m \ {o}) \cup {n} |-> IF k \in {n} THEN f ELSE m[k]]
  BY <1>1 DEF WrittenMap
<1>5. [k \in (DOMAIN m \ {o}) \cup {n} |-> IF k \in {n} THEN f ELSE m[k]]
        = [k \in DOMAIN w \cup {n} |-> IF k = n THEN f ELSE w[k]]
  BY <1>2
<1>6. QED
  BY <1>1, <1>3, <1>4, <1>5

LEMMA WrittenSame ==
    ASSUME NEW s, Tidy(s), NEW d, NEW i, NEW t, NEW c, NameAt(s[i]) = {}, NameAt(t[i]) = {}
    PROVE  WrittenMap(s, d, i, t, c) = MapOf(s, d)
<1>1. PICK m : m = MapOf(s, d)
  OBVIOUS
<1>2. m = [k \in DOMAIN m |-> m[k]]
  BY <1>1, MapIs
<1>3. (DOMAIN m \ NameAt(s[i])) \cup NameAt(t[i]) = DOMAIN m
  OBVIOUS
<1>4. [k \in DOMAIN m |-> IF k \in {} THEN FileIn(t, c, i) ELSE m[k]] = [k \in DOMAIN m |-> m[k]]
  OBVIOUS
<1>5. QED
  BY <1>1, <1>2, <1>3, <1>4 DEF WrittenMap

LEMMA CreateStep ==
    ASSUME TypeInv, TypeInv', World, sound', NEW p \in Paths, NEW a \in {{}, {"directory"}}, Create(p, a)
    PROVE  sound /\ World' /\ Map!Next
<1>1. PICK n \in Names : n = name_to_83(p)
  BY PathNames
<1>2. a \in Attributes /\ "longname" \notin a
  BY DEF Attributes
<1>3. MakeEntry(n, a) /\ answer' \in {Yes, No} /\ UNCHANGED <<handle, job>> /\ ~Working(job) /\ ~Transfers(job)
  BY <1>1, IdleWork DEF Create
<1>4. /\ sound /\ Fine(slots', used', data') /\ HandleOk(handle, slots', used', data')
      /\ NameOf(handle, slots') = NameOf(handle, slots) /\ n \notin DOMAIN FileMap
      /\ n[1] = DELETED => FileMap' = FileMap
      /\ n[1] # DELETED =>
            FileMap' = [m \in DOMAIN FileMap \cup {n} |-> IF m = n THEN Empty(a) ELSE FileMap[m]]
  BY <1>2, <1>3, MakeWorld
<1>5. World'
  <2>1. JobOk(job', handle', slots', data')
    BY <1>3 DEF JobOk, Working, Transfers
  <2>2. QED
    BY <1>3, <1>4, <2>1 DEF World
<1>6. FileMap' = Given(FileMap, n, Empty(a))
  <2>1. Empty(a).attr = a
    BY DEF Empty
  <2>2. QED
    BY <1>2, <1>4, <2>1 DEF Given, Unseens, Hidings
<1>7. OpenName' = OpenName /\ Copies = {} /\ Copies' = {}
  BY <1>3, <1>4, OpenNameIs, CopiesAre
<1>8. QED
  BY <1>2, <1>3, <1>4, <1>5, <1>6, <1>7, SoundIs, MapCreate

LEMMA OpenNewStep ==
    ASSUME TypeInv, TypeInv', World, sound', NEW p \in Paths, OpenNew(p)
    PROVE  sound /\ World' /\ Map!Next
<1>1. PICK n \in Names : n = name_to_83(p)
  BY PathNames
<1>2. PICK a \in Attributes : a = {} /\ "longname" \notin a
  BY DEF Attributes
<1>3. /\ MakeEntry(n, a) /\ answer' = Yes /\ UNCHANGED job /\ handle' = NewHandle /\ n[1] # DELETED
      /\ ~Working(job) /\ ~Transfers(job)
  BY <1>1, <1>2, IdleWork DEF OpenNew
<1>4. /\ sound /\ Fine(slots', used', data') /\ Place \in Slots /\ NewFile \in Files
      /\ data'[NewFile] = <<>> /\ Shows(slots', Place, n) /\ slots'[Place] = Entry(n, a, NewFile, 0)
      /\ n \notin DOMAIN FileMap
      /\ FileMap' = [m \in DOMAIN FileMap \cup {n} |-> IF m = n THEN Empty(a) ELSE FileMap[m]]
  BY <1>2, <1>3, MakeWorld
<1>5. PICK h, i, f, t, v, c :
        /\ h = handle' /\ i = Place /\ f = NewFile /\ t = slots' /\ v = used' /\ c = data'
        /\ h.open /\ h.slot = i /\ h.file = f /\ h.size = 0
  BY <1>3, NewHandleIs
<1>6. t[i].file = f /\ t[i].size = 0 /\ ~Vacant(t[i]) /\ t[i].name[1] # UNUSED /\ Visible(t[i]) /\ t[i].name = n
  <2>1. f \in Nat
    BY <1>4, <1>5, Geometry
  <2>2. t[i] = Entry(n, a, f, 0) /\ Shows(t, i, n)
    BY <1>4, <1>5
  <2>3. t[i].file = f /\ t[i].size = 0
    BY <2>1, <2>2, EntryFields
  <2>4. QED
    BY <2>2, <2>3 DEF Shows, Visible, Vacant
<1>7. HandleOk(h, t, v, c)
  <2>1. \A j \in Slots : ~Vacant(t[j]) /\ t[j].file = f => j = i
    BY <1>4, <1>5, <1>6 DEF Fine, Good, FilesApart
  <2>2. Len(c[f]) = 0
    BY <1>4, <1>5
  <2>3. QED
    BY <1>4, <1>5, <1>6, <2>1, <2>2 DEF HandleOk
<1>8. World'
  <2>1. JobOk(job', handle', slots', data')
    BY <1>3 DEF JobOk, Working, Transfers
  <2>2. QED
    BY <1>4, <1>5, <1>7, <2>1 DEF World
<1>9. FileMap' = Given(FileMap, n, Empty(a))
  <2>1. Empty(a).attr = a
    BY DEF Empty
  <2>2. QED
    BY <1>2, <1>3, <1>4, <2>1 DEF Given, Unseens, Hidings
<1>10. OpenName' = {n} /\ Copies = {} /\ Copies' = {}
  BY <1>3, <1>5, <1>6, OpenNameIs, CopiesAre DEF NameOf
<1>11. answer' \in {Yes, No} /\ OpenName' \in {OpenName, {n}}
  BY <1>3, <1>10
<1>12. QED
  BY <1>4, <1>8, <1>9, <1>10, <1>11, SoundIs, MapCreate

\* What Erase does, unless it fails.
LEMMA EraseWorld ==
    ASSUME TypeInv, World, sound', NEW n \in Names, NEW dir, Erase(Find(n), dir)
    PROVE  /\ sound' = sound /\ answer' = Yes /\ n \in DOMAIN FileMap
           /\ Fine(slots', used', data') /\ HandleOk(handle, slots', used', data')
           /\ FileMap' = Without(FileMap, n)
           /\ NameOf(handle, slots') = NameOf(handle, slots) \ {n}
           /\ dir = ("directory" \in slots[Find(n)].attr)
           /\ \A i \in Slots \ {Find(n)} :
                 slots'[i] = slots[i] /\ (~Vacant(slots[i]) => data'[slots[i].file] = data[slots[i].file])
<1>1. PICK s, u, d, t, v, c, i, h :
        /\ s = slots /\ u = used /\ d = data /\ t = slots' /\ v = used' /\ c = data'
        /\ i = Find(n) /\ h = handle
  OBVIOUS
<1>2. Fine(s, u, d) /\ HandleOk(h, s, u, d)
  BY <1>1 DEF World
<1>3. i \in Slots /\ n \in DOMAIN FileMap /\ Shows(s, i, n) /\ ~Vacant(s[i])
  BY <1>1, <1>2, FindsAll DEF Erase
<1>4. /\ dir = ("directory" \in s[i].attr) /\ answer' = Yes /\ sound' = sound
      /\ Put(i, Gone) /\ v = u \ {s[i].file} /\ c = [d EXCEPT ![s[i].file] = <<>>]
  BY <1>1 DEF Erase
<1>5. Kept(Gone) = Gone
  BY DEF Kept
<1>6. s \in [Slots -> Entries] /\ t = [s EXCEPT ![i] = Gone]
  BY <1>1, <1>4, <1>5, Blanks, PutType DEF TypeInv
<1>7. Only(i, s, t) /\ t[i] = Gone
  BY <1>3, <1>6, Blanks DEF Only
<1>8. OnlyOf(s[i].file, d, c)
  <2>1. d \in [Files -> Seq(Cells)] /\ <<>> \in Seq(Cells)
    BY <1>2 DEF Fine
  <2>2. QED
    BY <1>4, <2>1 DEF OnlyOf
<1>9. /\ Fine(t, v, c) /\ HandleOk(h, t, v, c)
      /\ MapOf(t, c) = WrittenMap(s, d, i, t, c)
  <2>1. Fine(s, u, d) /\ ~Vacant(s[i]) /\ v = u \ {s[i].file}
    BY <1>2, <1>3, <1>4
  <2>2. Only(i, s, t) /\ t[i] = Gone
    BY <1>7
  <2>3. /\ Fine(t, v, c) /\ MapOf(t, c) = WrittenMap(s, d, i, t, c)
        /\ \A g : HandleOk(g, s, u, d) => HandleOk(g, t, v, c)
    BY <1>3, <1>8, <2>1, <2>2, EraseFine
  <2>4. QED
    BY <1>2, <2>3
<1>10. MapOf(t, c) = Without(MapOf(s, d), n)
  <2>1. NameAt(s[i]) = {n}
    BY <1>3 DEF NameAt, Shows
  <2>2. MapOf(t, c) = WrittenMap(s, d, i, t, c)
    BY <1>9
  <2>3. NameAt(t[i]) = {}
    BY <1>7, Blanks DEF NameAt, Visible, Vacant
  <2>4. QED
    BY <2>1, <2>2, <2>3, WrittenGone
<1>11. FileMap = MapOf(s, d) /\ FileMap' = MapOf(t, c)
  BY <1>1, TheMap
<1>12. NameOf(h, t) = NameOf(h, s) \ {n}
  <2>1. CASE h.open /\ h.slot = i
    <3>1. ~Visible(t[i]) /\ s[i].name = n
      BY <1>3, <1>7, Blanks DEF Visible, Vacant, Shows
    <3>2. QED
      BY <2>1, <3>1 DEF NameOf
  <2>2. CASE ~h.open
    BY <2>2 DEF NameOf
  <2>3. CASE h.open /\ h.slot # i
    <3>1. h.slot \in Slots /\ t[h.slot] = s[h.slot]
      BY <1>2, <1>7, <2>3 DEF HandleOk, Only
    <3>2. Visible(s[h.slot]) => s[h.slot].name # n
      BY <1>2, <1>3, <2>3, <3>1 DEF Fine, Good, Tidy, NamesApart, Shows
    <3>3. QED
      BY <3>1, <3>2 DEF NameOf
  <2>4. QED
    BY <2>1, <2>2, <2>3
<1>13. ASSUME NEW j \in Slots \ {i}
       PROVE  t[j] = s[j] /\ (~Vacant(s[j]) => c[s[j].file] = d[s[j].file])
  <2>1. t[j] = s[j]
    BY <1>7 DEF Only
  <2>2. ASSUME ~Vacant(s[j]) PROVE s[j].file # s[i].file /\ s[j].file \in Files
    BY <1>2, <1>3, <2>2 DEF Fine, Good, FilesApart
  <2>3. QED
    BY <1>8, <2>1, <2>2 DEF OnlyOf
<1>14. /\ \A j \in Slots \ {Find(n)} :
             slots'[j] = slots[j] /\ (~Vacant(slots[j]) => data'[slots[j].file] = data[slots[j].file])
  BY <1>1, <1>13
<1>15. /\ Fine(slots', used', data') /\ HandleOk(handle, slots', used', data')
       /\ NameOf(handle, slots') = NameOf(handle, slots) \ {n}
  BY <1>1, <1>9, <1>12
<1>16. FileMap' = Without(FileMap, n)
  BY <1>10, <1>11
<1>17. /\ sound' = sound /\ answer' = Yes /\ n \in DOMAIN FileMap
       /\ dir = ("directory" \in slots[Find(n)].attr)
  BY <1>1, <1>3, <1>4
<1>18. QED
  BY <1>14, <1>15, <1>16, <1>17

LEMMA DeleteStep ==
    ASSUME TypeInv, TypeInv', World, sound', NEW p \in Paths, NEW dir, Delete(p, dir)
    PROVE  sound /\ World' /\ Map!Next
<1>1. PICK n \in Names : n = name_to_83(p)
  BY PathNames
<1>2. Erase(Find(n), dir) /\ UNCHANGED <<handle, job>> /\ ~Working(job) /\ ~Transfers(job)
  BY <1>1, IdleWork DEF Delete
<1>3. /\ sound' = sound /\ answer' = Yes /\ n \in DOMAIN FileMap
      /\ Fine(slots', used', data') /\ HandleOk(handle, slots', used', data')
      /\ FileMap' = Without(FileMap, n)
      /\ NameOf(handle, slots') = NameOf(handle, slots) \ {n}
  BY <1>2, EraseWorld
<1>4. World'
  <2>1. JobOk(job', handle', slots', data')
    BY <1>2 DEF JobOk, Working, Transfers
  <2>2. QED
    BY <1>2, <1>3, <2>1 DEF World
<1>5. OpenName' = OpenName \ {n} /\ Copies = {} /\ Copies' = {}
  BY <1>2, <1>3, OpenNameIs, CopiesAre
<1>6. QED
  BY <1>3, <1>4, <1>5, SoundIs, MapDelete

LEMMA PrefixCut ==
    ASSUME NEW T, NEW s \in Seq(T), NEW m \in Nat, NEW n \in Nat, m <= n, n <= Len(s)
    PROVE  IsPrefix(Cut(s, m), Cut(s, n))
<1>1. PICK a, b : a = Cut(s, m) /\ b = Cut(s, n)
  OBVIOUS
<1>2. m <= Len(s)
  BY LenProperties
<1>3. a \in Seq(T) /\ Len(a) = m /\ \A k \in 1 .. m : a[k] = s[k]
  BY <1>1, <1>2, FirstCells
<1>4. b \in Seq(T) /\ Len(b) = n /\ \A k \in 1 .. n : b[k] = s[k]
  BY <1>1, FirstCells
<1>5. Len(a) <= Len(b) /\ \A k \in 1 .. Len(a) : a[k] = b[k]
  BY <1>3, <1>4
<1>6. IsPrefix(a, b)
  BY <1>3, <1>4, <1>5, PrefixIs
<1>7. QED
  BY <1>1, <1>6

\* What is in a deleted entry does not matter.
LEMMA BlankFine ==
    ASSUME NEW s, NEW u, NEW d, Fine(s, u, d), NEW i \in Slots, Vacant(s[i]), s[i].name[1] # UNUSED,
           NEW t, Only(i, s, t), t[i] = Gone
    PROVE  Fine(t, u, d) /\ MapOf(t, d) = MapOf(s, d)
<1>1. Good(s, u, d) /\ u \subseteq Files /\ d \in [Files -> Seq(Cells)] /\ Tidy(s)
  BY DEF Fine, Good
<1>2. t[i] = Gone /\ t \in [Slots -> Entries] /\ \A j \in Slots \ {i} : t[j] = s[j]
  BY DEF Only
<1>3. Vacant(t[i]) /\ t[i].name[1] # UNUSED /\ ~Visible(t[i]) /\ ~Visible(s[i])
  BY <1>2, Blanks DEF Vacant, Visible
<1>4. Good(t, u, d)
  <2>1. \A j \in Slots \ {i} : ~Vacant(s[j]) => s[j].file \in u /\ s[j].size <= Len(d[s[j].file])
    BY <1>1 DEF Good, FilesApart, SizesFit
  <2>2. QED
    BY <1>1, <1>2, <1>3, <2>1, WriteGood
<1>5. Fine(t, u, d)
  BY <1>1, <1>4 DEF Fine
<1>6. MapOf(t, d) = WrittenMap(s, d, i, t, d)
  <2>1. Tidy(t) /\ Tidy(s)
    BY <1>1, <1>4 DEF Good
  <2>2. \A j \in Slots \ {i} : Visible(s[j]) => FileIn(t, d, j) = FileIn(s, d, j)
    BY <1>2 DEF FileIn
  <2>3. QED
    BY <1>2, <1>3, <2>1, <2>2, WriteMap
<1>7. NameAt(s[i]) = {} /\ NameAt(t[i]) = {}
  BY <1>3 DEF NameAt
<1>8. QED
  BY <1>1, <1>5, <1>6, <1>7, WrittenSame

LEMMA CloseStep ==
    ASSUME TypeInv, TypeInv', World, sound, sound', Close
    PROVE  World' /\ Map!Next
<1>1. PICK s, u, d, t, h : s = slots /\ u = used /\ d = data /\ t = slots' /\ h = handle
  OBVIOUS
<1>2. /\ ~Working(job) /\ ~Transfers(job) /\ answer' = No /\ UNCHANGED <<used, data, job>>
      /\ h.open /\ handle' = NoHandle
  BY <1>1, NoWork DEF Close
<1>3. Fine(s, u, d) /\ HandleOk(h, s, u, d) /\ Tidy(s)
  BY <1>1 DEF World, Fine, Good
<1>4. PICK i \in Slots, f \in Files, z \in Nat :
        /\ i = h.slot /\ f = h.file /\ z = h.size /\ s[i].name[1] # UNUSED
        /\ ~Vacant(s[i]) => s[i].file = f /\ s[i].size <= z
        /\ f \in u => z <= Len(d[f])
  BY <1>2, <1>3 DEF HandleOk
<1>5. OpenName' = {} /\ Copies = {} /\ Copies' = {} /\ handle'.open = FALSE
  BY <1>2, OpenNameIs, CopiesAre, HandleTypes DEF NameOf, NoHandle
<1>6. ASSUME Fine(t, u, d) PROVE World'
  <2>1. JobOk(job', handle', slots', data')
    BY <1>2 DEF JobOk, Working, Transfers
  <2>2. QED
    BY <1>1, <1>2, <1>5, <1>6, <2>1 DEF World, HandleOk
<1>7. FileMap = MapOf(s, d) /\ FileMap' = MapOf(t, d)
  BY <1>1, <1>2, TheMap
<1>8. ASSUME MapOf(t, d) = MapOf(s, d) PROVE Map!Next
  BY <1>2, <1>5, <1>7, <1>8, SoundIs, MapCrash
<1>9. CASE UNCHANGED slots
  BY <1>1, <1>3, <1>6, <1>8, <1>9
<1>10. CASE Put(i, [s[i] EXCEPT !.size = z])
  <2>0. PICK e : e = [slots[i] EXCEPT !.size = z]
    OBVIOUS
  <2>1. /\ e \in Entries /\ e = [s[i] EXCEPT !.size = z] /\ e.name = s[i].name /\ e.attr = s[i].attr
        /\ e.file = s[i].file /\ e.size = z
    <3>1. /\ e \in Entries /\ e.name = slots[i].name /\ e.attr = slots[i].attr
          /\ e.file = slots[i].file /\ e.size = z
      BY <2>0, ChangeType
    <3>2. QED
      BY <1>1, <2>0, <3>1
  <2>2. t = [s EXCEPT ![i] = Kept(e)] /\ t \in [Slots -> Entries] /\ s \in [Slots -> Entries]
    BY <1>1, <1>10, <2>1, PutType DEF TypeInv
  <2>3. Only(i, s, t) /\ t[i] = Kept(e)
    BY <2>2 DEF Only
  <2>4. CASE Vacant(s[i])
    <3>1. t[i] = Gone
      BY <1>4, <2>1, <2>3, <2>4 DEF Vacant, Kept
    <3>2. Fine(t, u, d) /\ MapOf(t, d) = MapOf(s, d)
      BY <1>3, <1>4, <2>3, <2>4, <3>1, BlankFine
    <3>3. QED
      BY <1>6, <1>8, <3>2
  <2>5. CASE ~Vacant(s[i])
    <3>1. s[i].file = f /\ f \in u /\ s[i].name \in Names /\ s[i].size <= z /\ z <= Len(d[f])
          /\ s[i].size \in Nat /\ d[f] \in Seq(Cells)
      <4>1. s[i].file = f /\ s[i].size <= z
        BY <1>4, <2>5
      <4>2. f \in u /\ s[i].name \in Names /\ s[i].size \in Nat /\ d[f] \in Seq(Cells)
        BY <1>3, <2>5, <4>1, GoodSize DEF Fine
      <4>3. QED
        BY <1>4, <4>1, <4>2
    <3>2. Visible(e) <=> Visible(s[i])
      BY <2>1 DEF Visible, Vacant
    <3>3. Visible(e) => \A j \in Slots \ {i} : ~Shows(s, j, e.name)
      BY <1>3, <2>1, <3>2 DEF Tidy, NamesApart, Shows
    <3>4. e.name \in Names /\ e.file = s[i].file /\ e.size <= Len(d[e.file])
      BY <2>1, <3>1
    <3>5. /\ Fine(t, u, d) /\ MapOf(t, d) = WrittenMap(s, d, i, t, d)
          /\ NameAt(t[i]) = NameAt(e) /\ (~Vacant(t[i]) => t[i] = e) /\ (Visible(t[i]) <=> Visible(e))
      <4>1. Changed(s, u, d, i, e, t)
        BY <1>3, <2>1, <2>3, <2>5, <3>3, <3>4, ChangeFine
      <4>2. QED
        BY <4>1 DEF Changed
    <3>6. NameAt(e) = NameAt(s[i])
      BY <2>1, <3>2 DEF NameAt
    <3>7. CASE ~Visible(s[i])
      <4>1. NameAt(s[i]) = {} /\ NameAt(t[i]) = {}
        BY <3>5, <3>6, <3>7 DEF NameAt
      <4>2. MapOf(t, d) = MapOf(s, d)
        BY <1>3, <3>5, <4>1, WrittenSame
      <4>3. QED
        BY <1>6, <1>8, <3>5, <4>2
    <3>8. CASE Visible(s[i])
      <4>1. PICK n \in Names : n = s[i].name
        BY <3>1
      <4>2. NameAt(s[i]) = {n} /\ NameAt(t[i]) = {n} /\ t[i] = e /\ Shows(s, i, n)
        BY <3>2, <3>5, <3>6, <3>8, <4>1 DEF NameAt, Shows, Visible
      <4>3. PICK m, w : m = MapOf(s, d) /\ w = MapOf(t, d)
        OBVIOUS
      <4>4. n \in DOMAIN m /\ m[n] = FileIn(s, d, i)
        BY <1>3, <4>2, <4>3, MapIs
      <4>5. w = [k \in (DOMAIN m \ {n}) \cup {n} |-> IF k \in {n} THEN FileIn(t, d, i) ELSE m[k]]
        BY <3>5, <4>2, <4>3 DEF WrittenMap
      <4>6. DOMAIN w = DOMAIN m /\ w[n] = FileIn(t, d, i) /\ \A k \in DOMAIN m : k # n => w[k] = m[k]
        BY <4>4, <4>5
      <4>7. FileIn(s, d, i) = [attr |-> e.attr, cells |-> Cut(d[f], s[i].size)]
            /\ FileIn(t, d, i) = [attr |-> e.attr, cells |-> Cut(d[f], z)]
        BY <2>1, <3>1, <4>2 DEF FileIn
      <4>8. w[n].attr = m[n].attr /\ IsPrefix(m[n].cells, w[n].cells)
        <5>1. IsPrefix(Cut(d[f], s[i].size), Cut(d[f], z))
          BY <3>1, PrefixCut
        <5>2. QED
          BY <4>4, <4>6, <4>7, <5>1
      <4>9. OpenName = {n}
        BY <1>1, <1>2, <1>4, <3>1, <3>8, <4>1, OpenNameIs DEF NameOf
      <4>10. \A k \in DOMAIN m : /\ w[k].attr = m[k].attr
                                 /\ IF k \in OpenName THEN IsPrefix(m[k].cells, w[k].cells) ELSE w[k] = m[k]
        BY <4>6, <4>8, <4>9
      <4>11. /\ DOMAIN FileMap' = DOMAIN FileMap
             /\ \A k \in DOMAIN FileMap :
                   /\ FileMap'[k].attr = FileMap[k].attr
                   /\ IF k \in OpenName THEN IsPrefix(FileMap[k].cells, FileMap'[k].cells)
                                        ELSE FileMap'[k] = FileMap[k]
        BY <1>7, <4>3, <4>6, <4>10
      <4>12. Map!Next
        BY <1>2, <1>5, <4>11, SoundIs, MapClose
      <4>13. QED
        BY <1>6, <3>5, <4>12
    <3>9. QED
      BY <3>7, <3>8
  <2>6. QED
    BY <2>4, <2>5
<1>11. QED
  BY <1>1, <1>4, <1>9, <1>10 DEF Close

LEMMA SetAttributesStep ==
    ASSUME TypeInv, TypeInv', World, sound, sound', NEW p \in Paths, NEW a \in Attributes, SetAttributes(p, a)
    PROVE  World' /\ Map!Next
<1>1. PICK n \in Names : n = name_to_83(p)
  BY PathNames
<1>2. PICK s, u, d, t, h : s = slots /\ u = used /\ d = data /\ t = slots' /\ h = handle
  OBVIOUS
<1>3. Fine(s, u, d) /\ HandleOk(h, s, u, d) /\ Tidy(s)
  BY <1>2 DEF World, Fine, Good
<1>4. PICK i \in Slots : /\ i = Find(n) /\ n \in DOMAIN FileMap /\ ~Vacant(s[i]) /\ Shows(s, i, n)
                         /\ FileMap[n] = FileIn(s, d, i) /\ n[1] # DELETED
  BY <1>1, <1>2, <1>3, FindsAll DEF SetAttributes
<1>5. /\ ~Working(job) /\ ~Transfers(job) /\ answer' = Yes /\ UNCHANGED <<used, data, job, handle>>
      /\ Put(i, [s[i] EXCEPT !.attr = a])
  BY <1>1, <1>2, <1>4, IdleWork DEF SetAttributes
<1>60. PICK e : e = [slots[i] EXCEPT !.attr = a]
  OBVIOUS
<1>6. /\ e \in Entries /\ e = [s[i] EXCEPT !.attr = a] /\ e.name = n /\ e.attr = a
      /\ e.file = s[i].file /\ e.size = s[i].size
  <2>1. s[i].name = n
    BY <1>4 DEF Shows
  <2>2. /\ e \in Entries /\ e.name = slots[i].name /\ e.attr = a
        /\ e.file = slots[i].file /\ e.size = slots[i].size
    BY <1>60, ChangeType
  <2>3. QED
    BY <1>2, <1>60, <2>1, <2>2
<1>7. t = [s EXCEPT ![i] = Kept(e)] /\ t \in [Slots -> Entries] /\ s \in [Slots -> Entries]
  BY <1>2, <1>5, <1>6, PutType DEF TypeInv
<1>8. Kept(e) = e /\ Only(i, s, t) /\ t[i] = Kept(e)
  BY <1>4, <1>6, <1>7 DEF Only, Kept
<1>9. /\ Fine(t, u, d) /\ MapOf(t, d) = WrittenMap(s, d, i, t, d) /\ HandleOk(h, t, u, d)
  <2>1. e.size <= Len(d[e.file]) /\ e.size \in Nat
    BY <1>3, <1>4, <1>6, GoodSize DEF Fine
  <2>2. Visible(e) => \A j \in Slots \ {i} : ~Shows(s, j, e.name)
    BY <1>3, <1>4, <1>6 DEF Tidy, NamesApart, Shows
  <2>3. h.open /\ h.slot = i => e.size <= h.size
    BY <1>3, <1>4, <1>6 DEF HandleOk
  <2>4. e.name \in Names /\ e.file = s[i].file
    BY <1>6
  <2>5. /\ Fine(t, u, d) /\ MapOf(t, d) = WrittenMap(s, d, i, t, d)
        /\ \A g : HandleOk(g, s, u, d) /\ (g.open /\ g.slot = i => e.size <= g.size) => HandleOk(g, t, u, d)
    <3>1. Changed(s, u, d, i, e, t)
      BY <1>3, <1>4, <1>6, <1>8, <2>1, <2>2, <2>4, ChangeFine
    <3>2. QED
      BY <3>1 DEF Changed
  <2>6. QED
    BY <1>3, <2>3, <2>5
<1>10. World'
  <2>1. JobOk(job', handle', slots', data')
    BY <1>5 DEF JobOk, Working, Transfers
  <2>2. QED
    BY <1>2, <1>5, <1>9, <2>1 DEF World
<1>11. FileMap = MapOf(s, d) /\ FileMap' = MapOf(t, d)
  BY <1>2, <1>5, TheMap
<1>12. PICK m, b : /\ m = FileMap /\ b = [m[n] EXCEPT !.attr = a]
                   /\ b = FileIn(t, d, i) /\ b.attr = a
  <2>1. PICK q : q = Cut(d[s[i].file], s[i].size)
    OBVIOUS
  <2>2. FileIn(s, d, i) = [attr |-> s[i].attr, cells |-> q] /\ FileIn(t, d, i) = [attr |-> a, cells |-> q]
    BY <1>6, <1>8, <2>1 DEF FileIn
  <2>3. PICK y : y = s[i].attr
    OBVIOUS
  <2>4. [[attr |-> y, cells |-> q] EXCEPT !.attr = a] = [attr |-> a, cells |-> q]
    OBVIOUS
  <2>5. QED
    BY <1>4, <2>2, <2>3, <2>4
<1>13. NameAt(s[i]) = {n} /\ NameAt(t[i]) = IF "longname" \in a THEN {} ELSE {n}
  BY <1>4, <1>6, <1>8 DEF NameAt, Shows, Visible, Vacant
<1>14. FileMap' = Given(Without(FileMap, n), n, [FileMap[n] EXCEPT !.attr = a])
  <2>1. n \notin Unseens
    BY <1>4 DEF Unseens
  <2>2. CASE "longname" \in a
    <3>1. FileMap' = Without(m, n)
      BY <1>9, <1>11, <1>12, <1>13, <2>2, WrittenGone
    <3>2. b.attr \in Hidings
      BY <1>12, <2>2 DEF Hidings
    <3>3. QED
      BY <1>12, <3>1, <3>2 DEF Given
  <2>3. CASE "longname" \notin a
    <3>1. FileIn(t, d, i).attr \notin Hidings
      BY <1>12, <2>3 DEF Hidings
    <3>2. NameAt(s[i]) = {n} /\ NameAt(t[i]) = {n}
      BY <1>13, <2>3
    <3>3. WrittenMap(s, d, i, t, d) = Given(Without(MapOf(s, d), n), n, FileIn(t, d, i))
      BY <2>1, <3>1, <3>2, WrittenOver
    <3>4. QED
      BY <1>9, <1>11, <1>12, <3>3
  <2>4. QED
    BY <2>2, <2>3
<1>15. OpenName' = OpenName \cap DOMAIN FileMap'
  <2>1. OpenName = NameOf(h, s) /\ OpenName' = NameOf(h, t)
    BY <1>2, <1>5, OpenNameIs
  <2>2. DOMAIN FileMap' = (DOMAIN m \ {n}) \cup NameAt(t[i])
    BY <1>9, <1>11, <1>12, <1>13 DEF WrittenMap
  <2>3. DOMAIN m = {k \in Names : \E j \in Slots : Shows(s, j, k)}
    BY <1>3, <1>11, <1>12, MapIs
  <2>4. CASE ~h.open
    BY <2>1, <2>4 DEF NameOf
  <2>5. CASE h.open /\ h.slot = i
    <3>1. s[i].file = h.file /\ Visible(s[i]) /\ s[i].name = n
      BY <1>3, <1>4, <2>5 DEF HandleOk, Shows
    <3>2. t[i].file = h.file /\ t[i].name = n
      BY <1>6, <1>8, <3>1
    <3>3. NameOf(h, s) = {n} /\ NameOf(h, t) = NameAt(t[i])
      BY <2>5, <3>1, <3>2 DEF NameOf, NameAt
    <3>4. NameAt(t[i]) \subseteq {n}
      BY <1>13
    <3>5. QED
      BY <2>1, <2>2, <3>3, <3>4
  <2>6. CASE h.open /\ h.slot # i
    <3>1. h.slot \in Slots /\ t[h.slot] = s[h.slot]
      BY <1>3, <1>8, <2>6 DEF HandleOk, Only
    <3>2. Visible(s[h.slot]) => s[h.slot].name # n /\ s[h.slot].name \in DOMAIN m
      BY <1>3, <1>4, <2>3, <2>6, <3>1 DEF Fine, Good, Tidy, NamesApart, FilesApart, Visible, Shows
    <3>3. QED
      BY <2>1, <2>2, <3>1, <3>2 DEF NameOf
  <2>7. QED
    BY <2>4, <2>5, <2>6
<1>16. Copies = {} /\ Copies' = {}
  BY <1>5, CopiesAre
<1>17. QED
  BY <1>4, <1>5, <1>10, <1>14, <1>15, <1>16, SoundIs, MapSet

LEMMA RenameStep ==
    ASSUME TypeInv, TypeInv', World, sound', NEW p \in Paths, NEW q \in Paths, Rename(p, q)
    PROVE  sound /\ World' /\ Map!Next
<1>1. PICK o \in Names, n \in Names : o = name_to_83(p) /\ n = name_to_83(q)
  BY PathNames
<1>2. PICK s, u, d, t, h : s = slots /\ u = used /\ d = data /\ t = slots' /\ h = handle
  OBVIOUS
<1>3. Fine(s, u, d) /\ HandleOk(h, s, u, d) /\ Tidy(s)
  BY <1>2 DEF World, Fine, Good
<1>4. PICK i \in Slots : /\ i = Find(o) /\ o \in DOMAIN FileMap /\ ~Vacant(s[i]) /\ Shows(s, i, o)
                         /\ FileMap[o] = FileIn(s, d, i)
  BY <1>1, <1>2, <1>3, FindsAll DEF Rename
<1>5. /\ ~Working(job) /\ ~Transfers(job) /\ answer' = Yes /\ UNCHANGED <<used, data, job, handle>>
      /\ Put(i, [slots[i] EXCEPT !.name = n]) /\ sound /\ Find(n) = None
  BY <1>1, <1>2, <1>4, IdleWork DEF Rename
<1>6. n \notin DOMAIN FileMap /\ \A j \in Slots : ~Shows(s, j, n)
  BY <1>2, <1>3, <1>5, FindsAll
<1>7. PICK e : e = [slots[i] EXCEPT !.name = n]
  OBVIOUS
<1>8. e \in Entries /\ e.name = n /\ e.attr = s[i].attr /\ e.file = s[i].file /\ e.size = s[i].size
  <2>1. /\ e \in Entries /\ e.name = n /\ e.attr = slots[i].attr
        /\ e.file = slots[i].file /\ e.size = slots[i].size
    BY <1>7, ChangeType
  <2>2. QED
    BY <1>2, <2>1
<1>9. t = [s EXCEPT ![i] = Kept(e)] /\ t \in [Slots -> Entries] /\ s \in [Slots -> Entries]
  BY <1>2, <1>5, <1>7, <1>8, PutType DEF TypeInv
<1>10. Only(i, s, t) /\ t[i] = Kept(e)
  BY <1>9 DEF Only
<1>11. Changed(s, u, d, i, e, t)
  <2>1. e.size <= Len(d[e.file])
    BY <1>3, <1>4, <1>8, GoodSize DEF Fine
  <2>2. Visible(e) => \A j \in Slots \ {i} : ~Shows(s, j, e.name)
    BY <1>6, <1>8
  <2>3. QED
    BY <1>3, <1>4, <1>8, <1>10, <2>1, <2>2, ChangeFine
<1>12. Fine(t, u, d) /\ MapOf(t, d) = WrittenMap(s, d, i, t, d) /\ HandleOk(h, t, u, d)
       /\ NameAt(t[i]) = NameAt(e) /\ (Visible(t[i]) <=> Visible(e)) /\ (~Vacant(t[i]) => t[i] = e)
  <2>1. h.open /\ h.slot = i => e.size <= h.size
    BY <1>3, <1>4, <1>8 DEF HandleOk
  <2>2. QED
    BY <1>3, <1>11, <2>1 DEF Changed
<1>13. World'
  <2>1. JobOk(job', handle', slots', data')
    BY <1>5 DEF JobOk, Working, Transfers
  <2>2. QED
    BY <1>2, <1>5, <1>12, <2>1 DEF World
<1>14. FileMap = MapOf(s, d) /\ FileMap' = MapOf(t, d)
  BY <1>2, <1>5, TheMap
<1>15. Visible(e) <=> n[1] # DELETED
  BY <1>4, <1>8, NameChars DEF Visible, Vacant, Shows
<1>16. NameAt(s[i]) = {o} /\ NameAt(t[i]) = IF n[1] = DELETED THEN {} ELSE {n}
  BY <1>4, <1>8, <1>12, <1>15 DEF NameAt, Shows
<1>17. FileMap' = Given(Without(FileMap, o), n, FileMap[o])
  <2>1. CASE n[1] = DELETED
    <3>1. FileMap' = Without(FileMap, o)
      BY <1>12, <1>14, <1>16, <2>1, WrittenGone
    <3>2. n \in Unseens
      BY <2>1 DEF Unseens
    <3>3. QED
      BY <3>1, <3>2 DEF Given
  <2>2. CASE n[1] # DELETED
    <3>1. t[i] = e /\ n \notin Unseens
      BY <1>12, <1>15, <2>2 DEF Visible, Unseens
    <3>2. FileIn(t, d, i) = FileIn(s, d, i)
      BY <1>8, <3>1 DEF FileIn
    <3>3. FileIn(t, d, i).attr \notin Hidings
      BY <1>8, <1>15, <2>2, <3>1 DEF Hidings, Visible, FileIn
    <3>4. NameAt(s[i]) = {o} /\ NameAt(t[i]) = {n}
      BY <1>16, <2>2
    <3>5. WrittenMap(s, d, i, t, d) = Given(Without(MapOf(s, d), o), n, FileIn(t, d, i))
      BY <3>1, <3>3, <3>4, WrittenOver
    <3>6. QED
      BY <1>4, <1>12, <1>14, <3>2, <3>5
  <2>3. QED
    BY <2>1, <2>2
<1>18. OpenName' = IF o \in OpenName THEN {n} \ Unseens ELSE OpenName
  <2>1. OpenName = NameOf(h, s) /\ OpenName' = NameOf(h, t)
    BY <1>2, <1>5, OpenNameIs
  <2>2. CASE ~h.open
    BY <2>1, <2>2 DEF NameOf
  <2>3. CASE h.open /\ h.slot = i
    <3>1. s[i].file = h.file /\ Visible(s[i]) /\ s[i].name = o
      BY <1>3, <1>4, <2>3 DEF HandleOk, Shows
    <3>2. NameOf(h, s) = {o}
      BY <2>3, <3>1 DEF NameOf
    <3>3. CASE n[1] = DELETED
      <4>1. n \in Unseens /\ ~Visible(t[i])
        BY <1>12, <1>15, <3>3 DEF Unseens
      <4>2. NameOf(h, t) = {}
        BY <2>3, <4>1 DEF NameOf
      <4>3. QED
        BY <2>1, <3>2, <4>1, <4>2
    <3>4. CASE n[1] # DELETED
      <4>1. n \notin Unseens /\ Visible(t[i]) /\ t[i] = e
        BY <1>12, <1>15, <3>4 DEF Unseens, Visible
      <4>2. NameOf(h, t) = {n}
        BY <1>8, <2>3, <3>1, <4>1 DEF NameOf
      <4>3. QED
        BY <2>1, <3>2, <4>1, <4>2
    <3>5. QED
      BY <3>3, <3>4
  <2>4. CASE h.open /\ h.slot # i
    <3>1. h.slot \in Slots /\ t[h.slot] = s[h.slot]
      BY <1>3, <1>10, <2>4 DEF HandleOk, Only
    <3>2. Visible(s[h.slot]) => s[h.slot].name # o
      BY <1>3, <1>4, <2>4, <3>1 DEF Tidy, NamesApart, Shows
    <3>3. QED
      BY <2>1, <3>1, <3>2 DEF NameOf
  <2>5. QED
    BY <2>2, <2>3, <2>4
<1>19. Copies = {} /\ Copies' = {}
  BY <1>5, CopiesAre
<1>20. QED
  BY <1>4, <1>5, <1>6, <1>13, <1>17, <1>18, <1>19, SoundIs, MapRename

LEMMA StartCopyStep ==
    ASSUME TypeInv, TypeInv', World, sound', NEW p \in Paths, NEW q \in Paths,
           NEW kind \in {"copy", "move"}, StartCopy(p, q, kind)
    PROVE  sound /\ World' /\ Map!Next
<1>1. PICK o \in Names, n \in Names : o = name_to_83(p) /\ n = name_to_83(q)
  BY PathNames
<1>2. PICK i \in Slots : /\ i = Find(o) /\ o \in DOMAIN FileMap /\ ~Vacant(slots[i])
                         /\ Shows(slots, i, o)
  BY <1>1, FindsAll DEF World, StartCopy
<1>3. PICK a \in Attributes : a = {} /\ "longname" \notin a
  BY DEF Attributes
<1>4. /\ ~Working(job) /\ ~Transfers(job) /\ answer' = No /\ UNCHANGED handle
      /\ MakeEntry(n, a) /\ n[1] # DELETED
      /\ job' = [kind |-> kind, from |-> o, to |-> n,
                 source |-> HandleOn(i), target |-> NewHandle, failed |-> FALSE]
  BY <1>1, <1>2, <1>3, IdleWork DEF StartCopy
<1>5. /\ sound /\ Fine(slots', used', data') /\ HandleOk(handle, slots', used', data')
      /\ Place \in Slots /\ NewFile \in Files /\ data'[NewFile] = <<>> /\ Vacant(slots[Place])
      /\ Shows(slots', Place, n) /\ slots'[Place] = Entry(n, a, NewFile, 0)
      /\ n \notin DOMAIN FileMap
      /\ FileMap' = [m \in DOMAIN FileMap \cup {n} |-> IF m = n THEN Empty(a) ELSE FileMap[m]]
      /\ NameOf(handle, slots') = NameOf(handle, slots)
      /\ \A j \in Slots \ {Place} : slots'[j] = slots[j]
      /\ ~(handle.open /\ handle.slot = Place)
  BY <1>3, <1>4, MakeWorld
<1>6. PICK t, c, j, k, f, h :
        t = slots' /\ c = data' /\ j = job' /\ k = Place /\ f = NewFile /\ h = handle
  OBVIOUS
<1>7. t[k].file = f /\ t[k].size = 0 /\ Shows(t, k, n) /\ c[f] = <<>> /\ Len(c[f]) = 0
  <2>1. f \in Nat /\ t[k] = Entry(n, a, f, 0)
    BY <1>5, <1>6, Geometry
  <2>2. QED
    BY <1>5, <1>6, <2>1, EntryFields
<1>8. k # i /\ k \in Slots /\ t[i] = slots[i] /\ Shows(t, i, o)
  BY <1>2, <1>5, <1>6 DEF Shows
<1>9. /\ j.kind = kind /\ j.from = o /\ j.to = n /\ j.source = HandleOn(i) /\ j.target = NewHandle
      /\ j.failed = FALSE
  BY <1>4, <1>6
<1>10. /\ j.source.slot = i /\ j.source.file = t[i].file /\ j.source.size = t[i].size
       /\ j.source.dir = ("directory" \in t[i].attr)
       /\ j.target.slot = k /\ j.target.file = f /\ j.target.size = 0
  BY <1>6, <1>8, <1>9, HandleTypes, NewHandleIs
<1>11. JobOk(j, h, t, c)
  <2>1. j.kind # "remove" /\ Transfers(j)
    BY <1>9 DEF Transfers
  <2>2. /\ j.from \in Names /\ j.to \in Names
        /\ j.source.slot \in Slots /\ j.target.slot \in Slots /\ j.source.slot # j.target.slot
        /\ Shows(t, j.source.slot, j.from) /\ Shows(t, j.target.slot, j.to)
        /\ j.source.dir = ("directory" \in t[j.source.slot].attr)
        /\ j.source.file = t[j.source.slot].file /\ j.source.size = t[j.source.slot].size
        /\ j.target.file = t[j.target.slot].file
        /\ h.open => h.slot # j.target.slot
    BY <1>5, <1>6, <1>7, <1>8, <1>9, <1>10
  <2>3. /\ t[j.target.slot].size = 0 /\ j.target.size = Len(c[j.target.file]) /\ j.target.size = 0
        /\ \A m \in 1 .. j.target.size :
              m <= j.source.size => c[j.target.file][m] = c[j.source.file][m]
    BY <1>7, <1>10
  <2>4. QED
    BY <2>1, <2>2, <2>3 DEF JobOk
<1>12. World'
  BY <1>4, <1>5, <1>6, <1>11 DEF World
<1>13. FileMap' = Given(FileMap, n, Empty({}))
  <2>1. Empty(a).attr = a
    BY DEF Empty
  <2>2. QED
    BY <1>3, <1>4, <1>5, <2>1 DEF Given, Unseens, Hidings
<1>14. OpenName' = OpenName /\ ~Copying /\ Copying' /\ n \notin Unseens
  <2>1. Transfers(job')
    BY <1>6, <1>9 DEF Transfers
  <2>2. QED
    BY <1>4, <1>5, <2>1, OpenNameIs, CopiesAre DEF Unseens
<1>15. job'.from = o /\ job'.to = n /\ job'.failed = FALSE
  BY <1>6, <1>9
<1>16. QED
  BY <1>2, <1>4, <1>5, <1>12, <1>13, <1>14, <1>15, SoundIs, MapStart

LEMMA TransferFailsStep ==
    ASSUME TypeInv, TypeInv', World, sound, sound', TransferFails
    PROVE  World' /\ Map!Next /\ FileMap' = FileMap
<1>1. /\ Copying /\ answer' = No /\ UNCHANGED <<disk, handle>> /\ job' = [job EXCEPT !.failed = TRUE]
  BY DEF TransferFails
<1>2. /\ job'.kind = job.kind /\ job'.from = job.from /\ job'.to = job.to
      /\ job'.source = job.source /\ job'.target = job.target /\ job'.failed = TRUE
  BY <1>1 DEF TypeInv, Jobs
<1>3. Copying' /\ job.kind # "remove"
  BY <1>1, <1>2 DEF Copying
<1>4. JobOk(job', handle, slots, data)
  <2>1. JobOk(job, handle, slots, data)
    BY DEF World
  <2>2. QED
    BY <1>2, <1>3, <2>1 DEF JobOk, Working, Transfers
<1>5. World' /\ FileMap' = FileMap /\ OpenName' = OpenName
  BY <1>1, <1>4, StillWorld
<1>6. QED
  BY <1>1, <1>2, <1>3, <1>5, SoundIs, MapFail

\* The two entries a copy is between.
Pair(a, b, f, g, z, j, h, s, u, d) ==
    /\ a \in Slots /\ b \in Slots /\ a # b /\ f \in Files /\ g \in Files /\ f # g /\ z \in Nat
    /\ a = j.source.slot /\ b = j.target.slot /\ f = j.source.file /\ g = j.target.file
    /\ z = j.source.size /\ z = s[a].size /\ z <= Len(d[f])
    /\ s[a].file = f /\ s[b].file = g /\ g \in u /\ s[b].size \in Nat /\ s[b].size <= Len(d[g])
    /\ d[f] \in Seq(Cells) /\ d[g] \in Seq(Cells)
    /\ j.from \in Names /\ j.to \in Names /\ j.from # j.to
    /\ Shows(s, a, j.from) /\ Shows(s, b, j.to) /\ ~Vacant(s[a]) /\ ~Vacant(s[b])
    /\ \A i \in Slots : ~Vacant(s[i]) /\ s[i].file = g => i = b
    /\ h.open => h.slot # b /\ h.file # g
    /\ j.source.dir = ("directory" \in s[a].attr)

LEMMA Between ==
    ASSUME NEW j, NEW h, NEW s, NEW u, NEW d, Fine(s, u, d), HandleOk(h, s, u, d), JobOk(j, h, s, d), Working(j)
    PROVE  \E a, b, f, g, z : Pair(a, b, f, g, z, j, h, s, u, d)
<1>1. PICK a, b, f, g, z :
        /\ a = j.source.slot /\ b = j.target.slot /\ f = j.source.file /\ g = j.target.file
        /\ z = j.source.size
  OBVIOUS
<1>2. /\ a \in Slots /\ b \in Slots /\ a # b /\ Shows(s, a, j.from) /\ Shows(s, b, j.to)
      /\ j.from \in Names /\ j.to \in Names
      /\ f = s[a].file /\ z = s[a].size /\ g = s[b].file /\ (h.open => h.slot # b)
      /\ j.source.dir = ("directory" \in s[a].attr)
  BY <1>1 DEF JobOk
<1>3. ~Vacant(s[a]) /\ ~Vacant(s[b])
  BY <1>2 DEF Shows, Visible
<1>4. Good(s, u, d) /\ u \subseteq Files /\ d \in [Files -> Seq(Cells)]
  BY DEF Fine
<1>5. /\ f \in Files /\ d[f] \in Seq(Cells) /\ z \in Nat /\ z <= Len(d[f])
      /\ g \in u /\ g \in Files /\ d[g] \in Seq(Cells) /\ s[b].size \in Nat /\ s[b].size <= Len(d[g])
  <2>1. /\ s[a].file \in Files /\ d[s[a].file] \in Seq(Cells) /\ s[a].size \in Nat /\ s[a].size <= Len(d[s[a].file])
    BY <1>2, <1>3, <1>4, GoodSize
  <2>2. /\ s[b].file \in u /\ s[b].file \in Files /\ d[s[b].file] \in Seq(Cells) /\ s[b].size \in Nat
        /\ s[b].size <= Len(d[s[b].file])
    BY <1>2, <1>3, <1>4, GoodSize
  <2>3. QED
    BY <1>2, <2>1, <2>2
<1>6. \A i \in Slots : ~Vacant(s[i]) /\ s[i].file = g => i = b
  BY <1>2, <1>3, <1>4 DEF Good, FilesApart
<1>7. f # g
  BY <1>2, <1>3, <1>6
<1>8. j.from # j.to
  BY <1>2, <1>4 DEF Good, Tidy, NamesApart, Shows
<1>9. h.open => h.file # g
  BY <1>2, <1>3 DEF HandleOk
<1>10. Pair(a, b, f, g, z, j, h, s, u, d)
  BY <1>1, <1>2, <1>3, <1>5, <1>6, <1>7, <1>8, <1>9 DEF Pair
<1>11. QED
  BY <1>10

\* What the two entries are in the map.
PairFiles(m, a, b, f, g, z, j, s, d) ==
    /\ j.from \in DOMAIN m /\ j.to \in DOMAIN m
    /\ m[j.from] = [attr |-> s[a].attr, cells |-> Cut(d[f], z)]
    /\ m[j.to] = [attr |-> s[b].attr, cells |-> Cut(d[g], s[b].size)]

LEMMA PairMap ==
    ASSUME NEW j, NEW h, NEW s, NEW u, NEW d, Fine(s, u, d),
           NEW a, NEW b, NEW f, NEW g, NEW z, Pair(a, b, f, g, z, j, h, s, u, d)
    PROVE  PairFiles(MapOf(s, d), a, b, f, g, z, j, s, d)
<1>1. Tidy(s)
  BY DEF Fine, Good
<1>2. /\ j.from \in Names /\ j.to \in Names /\ a \in Slots /\ b \in Slots
      /\ Shows(s, a, j.from) /\ Shows(s, b, j.to)
      /\ z = s[a].size /\ s[a].file = f /\ s[b].file = g
  BY DEF Pair
<1>3. MapOf(s, d)[j.from] = FileIn(s, d, a) /\ MapOf(s, d)[j.to] = FileIn(s, d, b)
  BY <1>1, <1>2, MapIs
<1>4. DOMAIN MapOf(s, d) = {n \in Names : \E i \in Slots : Shows(s, i, n)}
  BY <1>1, MapIs
<1>5. QED
  BY <1>2, <1>3, <1>4 DEF FileIn, PairFiles

\* While the target's entry says that it is empty, what is written to it
\* does not show.
LEMMA UncoveredFine ==
    ASSUME NEW j, NEW h, NEW s, NEW u, NEW d, Fine(s, u, d), HandleOk(h, s, u, d),
           NEW a, NEW b, NEW f, NEW g, NEW z, Pair(a, b, f, g, z, j, h, s, u, d), s[b].size = 0,
           NEW c, OnlyOf(g, d, c), c[g] \in Seq(Cells)
    PROVE  Fine(s, u, c) /\ MapOf(s, c) = MapOf(s, d) /\ HandleOk(h, s, u, c)
<1>1. ASSUME NEW i \in Slots, ~Vacant(s[i]), s[i].file = g
      PROVE  s[i].size <= Len(c[g]) /\ Cut(c[g], s[i].size) = Cut(d[g], s[i].size)
  <2>1. i = b
    BY <1>1 DEF Pair
  <2>2. s[i].size = 0
    BY <2>1
  <2>3. PICK v, w : v = c[g] /\ w = d[g]
    OBVIOUS
  <2>4. v \in Seq(Cells) /\ w \in Seq(Cells) /\ Len(v) \in Nat /\ Len(w) \in Nat
    <3>1. v \in Seq(Cells) /\ w \in Seq(Cells)
      BY <2>3 DEF Pair
    <3>2. QED
      BY <3>1, LenProperties
  <2>5. 0 <= Len(v) /\ 0 <= Len(w) /\ \A x \in 1 .. 0 : v[x] = w[x]
    BY <2>4
  <2>6. Cut(v, 0) = Cut(w, 0)
    BY <2>4, <2>5, SameFront
  <2>7. QED
    BY <2>2, <2>3, <2>5, <2>6
<1>2. h.open /\ h.file = g /\ g \in u => h.size <= Len(c[g])
  BY DEF Pair
<1>3. /\ Fine(s, u, c) /\ MapOf(s, c) = MapOf(s, d)
      /\ \A q : HandleOk(q, s, u, d) /\ (q.open /\ q.file = g /\ g \in u => q.size <= Len(c[g])) =>
                      HandleOk(q, s, u, c)
  BY <1>1, DataFine
<1>4. QED
  BY <1>2, <1>3

LEMMA CopySectorStep ==
    ASSUME TypeInv, TypeInv', World, sound, sound', CopySector
    PROVE  World' /\ Map!Next /\ FileMap' = FileMap
<1>1. PICK s, u, d, c, h, j, k :
        /\ s = slots /\ u = used /\ d = data /\ c = data' /\ h = handle /\ j = job /\ k = job'
  OBVIOUS
<1>2. Fine(s, u, d) /\ HandleOk(h, s, u, d) /\ JobOk(j, h, s, d) /\ d \in [Files -> Seq(Cells)]
  BY <1>1 DEF World, Fine
<1>3. Transfers(j) /\ Working(j) /\ j \in Jobs /\ j.kind # "remove"
  BY <1>1 DEF CopySector, Copying, Transfers, Working, TypeInv
<1>4. PICK a, b, f, g, z : Pair(a, b, f, g, z, j, h, s, u, d)
  BY <1>2, <1>3, Between
<1>5. PICK m \in Nat : m = j.target.size
  BY <1>3 DEF Jobs, Handles
<1>6. /\ m < z /\ answer' = No /\ UNCHANGED <<slots, used, handle>>
      /\ k = [j EXCEPT !.target.size = m + SectorSize]
  BY <1>1, <1>4, <1>5 DEF CopySector, Pair
<1>7. PICK n \in Nat : /\ n = IF m + SectorSize > z THEN z - m ELSE SectorSize
                       /\ n <= SectorSize /\ m + n <= z
                       /\ \A x \in 1 .. m + SectorSize : x <= z => x <= m + n
  <2>1. z \in Nat
    BY <1>4 DEF Pair
  <2>2. PICK n : n = IF m + SectorSize > z THEN z - m ELSE SectorSize
    OBVIOUS
  <2>3. n \in Nat /\ n <= SectorSize /\ m + n <= z
    BY <1>6, <2>1, <2>2, Geometry
  <2>4. \A x \in 1 .. m + SectorSize : x <= z => x <= m + n
    BY <1>6, <2>1, <2>2, Geometry
  <2>5. QED
    BY <2>2, <2>3, <2>4
<1>8. PICK y \in Nat : y = SectorSize - n /\ m + n + y = m + SectorSize
  BY <1>7, Geometry
<1>9. PICK r : r = Cut(d[g], m) \o Piece(d[f], m, n) \o Alike(y, Stale)
  OBVIOUS
<1>10. c = [d EXCEPT ![g] = r]
  <2>1. f = j.source.file /\ g = j.target.file /\ z = j.source.size
    BY <1>4 DEF Pair
  <2>2. data' = [data EXCEPT ![job.target.file] =
                    SubSeq(data[job.target.file], 1, job.target.size) \o
                    SubSeq(data[job.source.file], job.target.size + 1,
                           job.target.size + (IF job.target.size + SectorSize > job.source.size
                                              THEN job.source.size - job.target.size ELSE SectorSize))
                    \o [x \in 1 .. SectorSize - (IF job.target.size + SectorSize > job.source.size
                                              THEN job.source.size - job.target.size ELSE SectorSize) |-> Stale]]
    BY DEF CopySector
  <2>3. c = [d EXCEPT ![g] =
                    SubSeq(d[g], 1, m) \o SubSeq(d[f], m + 1, m + n) \o [x \in 1 .. SectorSize - n |-> Stale]]
    BY <1>1, <1>5, <1>7, <2>1, <2>2
  <2>4. QED
    BY <1>8, <1>9, <2>3 DEF Cut, Piece, Alike
<1>11. /\ r \in Seq(Cells) /\ Len(r) = m + SectorSize
       /\ \A x \in 1 .. m : r[x] = d[g][x]
       /\ \A x \in m + 1 .. m + n : r[x] = d[f][x]
  <2>1. /\ d[g] \in Seq(Cells) /\ d[f] \in Seq(Cells) /\ Len(d[g]) = m /\ m + n <= Len(d[f])
        /\ Stale \in Cells
    <3>1. d[g] \in Seq(Cells) /\ d[f] \in Seq(Cells) /\ z <= Len(d[f]) /\ z \in Nat
      BY <1>4 DEF Pair
    <3>2. Len(d[g]) = m
      BY <1>2, <1>3, <1>4, <1>5 DEF JobOk, Pair
    <3>3. Len(d[f]) \in Nat
      BY <3>1, LenProperties
    <3>4. QED
      BY <1>7, <3>1, <3>2, <3>3 DEF Cells
  <2>2. /\ r \in Seq(Cells) /\ Len(r) = m + n + y
        /\ \A x \in 1 .. m : r[x] = d[g][x]
        /\ \A x \in m + 1 .. m + n : r[x] = d[f][x]
    <3>1. PICK v, w : v = d[g] /\ w = d[f]
      OBVIOUS
    <3>2. /\ v \in Seq(Cells) /\ w \in Seq(Cells) /\ Len(v) = m /\ m + n <= Len(w)
          /\ r = Cut(v, m) \o Piece(w, m, n) \o Alike(y, Stale)
      BY <1>9, <2>1, <3>1
    <3>3. Stale \in Cells
      BY <2>1
    <3>4. /\ r \in Seq(Cells) /\ Len(r) = m + n + y
          /\ \A x \in 1 .. m : r[x] = v[x]
          /\ \A x \in m + 1 .. m + n : r[x] = w[x]
      <4>1. Longer(Cells, v, w, m, n, y, r)
        BY <3>2, <3>3, SectorMore, Zenon
      <4>2. QED
        BY <4>1 DEF Longer
    <3>5. QED
      BY <3>1, <3>4
  <2>3. QED
    BY <1>8, <2>2
<1>12. OnlyOf(g, d, c) /\ c[g] = r /\ c[f] = d[f]
  BY <1>2, <1>4, <1>10, <1>11 DEF OnlyOf, Pair
<1>13. s[b].size = 0
  BY <1>2, <1>3, <1>4 DEF JobOk, Pair
<1>14. Fine(s, u, c) /\ MapOf(s, c) = MapOf(s, d) /\ HandleOk(h, s, u, c)
  <2>1. c[g] \in Seq(Cells)
    BY <1>11, <1>12
  <2>2. QED
    BY <1>2, <1>4, <1>12, <1>13, <2>1, UncoveredFine
<1>15. /\ k.kind = j.kind /\ k.from = j.from /\ k.to = j.to /\ k.source = j.source /\ k.failed = j.failed
       /\ k.target.slot = j.target.slot /\ k.target.file = j.target.file
       /\ k.target.size = m + SectorSize
  BY <1>3, <1>6 DEF Jobs, Handles
<1>16. JobOk(k, h, s, c)
  <2>1. /\ Working(k) /\ Transfers(k) /\ k.kind # "remove"
    BY <1>3, <1>15 DEF Working, Transfers
  <2>2. /\ k.from \in Names /\ k.to \in Names
        /\ k.source.slot \in Slots /\ k.target.slot \in Slots /\ k.source.slot # k.target.slot
        /\ Shows(s, k.source.slot, k.from) /\ Shows(s, k.target.slot, k.to)
        /\ k.source.dir = ("directory" \in s[k.source.slot].attr)
        /\ k.source.file = s[k.source.slot].file /\ k.source.size = s[k.source.slot].size
        /\ k.target.file = s[k.target.slot].file
        /\ h.open => h.slot # k.target.slot
    BY <1>2, <1>3, <1>15 DEF JobOk
  <2>3. /\ k.target.file = g /\ k.source.file = f /\ k.source.size = z /\ k.target.slot = b
    BY <1>4, <1>15 DEF Pair
  <2>4. s[k.target.slot].size = 0 /\ k.target.size = Len(c[k.target.file])
    BY <1>11, <1>12, <1>13, <1>15, <2>3
  <2>5. SectorSize <= k.target.size /\ k.target.size < k.source.size + SectorSize
    <3>1. z \in Nat
      BY <1>4 DEF Pair
    <3>2. QED
      BY <1>6, <1>15, <2>3, <3>1, Geometry
  <2>6. ASSUME NEW x \in 1 .. k.target.size, x <= k.source.size
        PROVE  c[k.target.file][x] = c[k.source.file][x]
    <3>1. x \in 1 .. m + SectorSize /\ x <= z
      BY <1>15, <2>3, <2>6
    <3>2. x <= m + n /\ x \in Nat
      BY <1>7, <3>1
    <3>3. CASE x <= m
      <4>1. x \in 1 .. m
        BY <3>1, <3>3
      <4>2. d[g][x] = d[f][x]
        BY <1>2, <1>3, <1>4, <1>5, <3>1, <4>1 DEF JobOk, Pair
      <4>3. QED
        BY <1>11, <1>12, <2>3, <4>1, <4>2
    <3>4. CASE ~(x <= m)
      <4>1. x \in m + 1 .. m + n
        BY <3>1, <3>2, <3>4
      <4>2. QED
        BY <1>11, <1>12, <2>3, <4>1
    <3>5. QED
      BY <3>3, <3>4
  <2>7. QED
    BY <2>1, <2>2, <2>4, <2>5, <2>6 DEF JobOk
<1>17. World'
  BY <1>1, <1>6, <1>14, <1>16 DEF World
<1>18. FileMap' = FileMap /\ OpenName' = OpenName
  BY <1>1, <1>6, <1>14, TheMap, OpenNameIs
<1>19. Copies' = Copies
  BY <1>1, <1>15 DEF Copies, Copying
<1>20. QED
  BY <1>6, <1>17, <1>18, <1>19, SoundIs, MapCall

LEMMA ExceptCells ==
    ASSUME NEW m, m = [n \in DOMAIN m |-> m[n]], NEW k \in DOMAIN m, NEW x, NEW y, NEW z,
           m[k] = [attr |-> x, cells |-> y],
           NEW w, DOMAIN w = DOMAIN m, w = [n \in DOMAIN w |-> w[n]],
           w[k] = [attr |-> x, cells |-> z], \A n \in DOMAIN m : n # k => w[n] = m[n]
    PROVE  w = [m EXCEPT ![k].cells = w[k].cells]
<1>1. [m[k] EXCEPT !.cells = z] = [attr |-> x, cells |-> z]
  OBVIOUS
<1>2. [m EXCEPT ![k].cells = z] = [n \in DOMAIN m |-> IF n = k THEN [attr |-> x, cells |-> z] ELSE m[n]]
  BY <1>1
<1>3. w = [n \in DOMAIN m |-> IF n = k THEN [attr |-> x, cells |-> z] ELSE m[n]]
  OBVIOUS
<1>4. w[k].cells = z
  OBVIOUS
<1>5. QED
  BY <1>2, <1>3, <1>4

\* What closing the target does.
Closed(s, t, d, c, m, w, j) ==
    /\ \A i \in Slots : t[i].name = s[i].name /\ t[i].attr = s[i].attr /\ t[i].file = s[i].file
    /\ t[j.source.slot] = s[j.source.slot] /\ c[j.source.file] = d[j.source.file]
    /\ j.from \in DOMAIN m /\ j.to \in DOMAIN m /\ j.from # j.to /\ w[j.from] = m[j.from]
    /\ j.to \in DOMAIN w /\ w = [m EXCEPT ![j.to].cells = w[j.to].cells]
    /\ j.from \in DOMAIN w
    /\ ~j.failed => /\ c = d /\ t[j.target.slot].size = j.target.size
                    /\ w[j.to].cells = Cut(d[j.target.file], j.target.size)

LEMMA CloseWorld ==
    ASSUME TypeInv, World, Transfers(job), CloseTarget
    PROVE  /\ used' = used
           /\ Fine(slots', used', data') /\ HandleOk(handle, slots', used', data')
           /\ NameOf(handle, slots') = NameOf(handle, slots)
           /\ Closed(slots, slots', data, data', FileMap, FileMap', job)
<1>1. PICK s, u, d, t, c, h, j :
        /\ s = slots /\ u = used /\ d = data /\ t = slots' /\ c = data' /\ h = handle /\ j = job
  OBVIOUS
<1>2. Fine(s, u, d) /\ HandleOk(h, s, u, d) /\ JobOk(j, h, s, d) /\ d \in [Files -> Seq(Cells)]
  BY <1>1 DEF World, Fine
<1>3. Transfers(j) /\ Working(j) /\ j \in Jobs
  BY <1>1 DEF Transfers, Working, TypeInv
<1>4. PICK a, b, f, g, z : Pair(a, b, f, g, z, j, h, s, u, d)
  BY <1>2, <1>3, Between
<1>5. PICK m \in Nat : m = j.target.size
  BY <1>3 DEF Jobs, Handles
<1>6. /\ a = j.source.slot /\ b = j.target.slot /\ f = j.source.file /\ g = j.target.file
      /\ a \in Slots /\ b \in Slots /\ a # b /\ f # g /\ f \in Files /\ g \in Files
      /\ d[g] \in Seq(Cells) /\ ~Vacant(s[b]) /\ Shows(s, b, j.to) /\ j.to \in Names
      /\ s[b].file = g /\ (h.open => h.slot # b) /\ j.from # j.to
  BY <1>4 DEF Pair
<1>7. s[b].size = 0 /\ m = Len(d[g]) /\ (m = 0 \/ SectorSize <= m)
  BY <1>2, <1>3, <1>5, <1>6 DEF JobOk
<1>8. /\ c = d \/ (j.failed /\ m > 0 /\ c = [d EXCEPT ![g] = Cut(d[g], m - SectorSize) \o Alike(SectorSize, Stale)])
      /\ t = [s EXCEPT ![b].size = m] \/ (j.failed /\ t = s)
      /\ used' = u
  BY <1>1, <1>5, <1>6 DEF CloseTarget, Cut, Alike
<1>9. OnlyOf(g, d, c) /\ c[g] \in Seq(Cells) /\ Len(c[g]) = m /\ c[f] = d[f]
  <2>1. CASE c = d
    BY <1>2, <1>6, <1>7, <2>1 DEF OnlyOf
  <2>2. CASE m > 0 /\ c = [d EXCEPT ![g] = Cut(d[g], m - SectorSize) \o Alike(SectorSize, Stale)]
    <3>1. PICK q, r : q = d[g] /\ r = Cut(q, m - SectorSize) \o Alike(SectorSize, Stale)
      OBVIOUS
    <3>2. q \in Seq(Cells) /\ Len(q) = m /\ SectorSize \in Nat /\ SectorSize <= m /\ Stale \in Cells
      BY <1>6, <1>7, <2>2, <3>1, Geometry DEF Cells
    <3>3. r \in Seq(Cells) /\ Len(r) = m
      <4>1. PICK y \in Nat : y = SectorSize
        BY <3>2
      <4>2. r = Cut(q, m - y) \o Alike(y, Stale) /\ y <= m /\ Len(q) = m /\ q \in Seq(Cells) /\ Stale \in Cells
        BY <3>1, <3>2, <4>1
      <4>3. AsLong(Cells, m, r)
        BY <4>2, SectorStale, Zenon
      <4>4. QED
        BY <4>3 DEF AsLong
    <3>4. c = [d EXCEPT ![g] = r]
      BY <2>2, <3>1
    <3>5. QED
      BY <1>2, <1>6, <3>3, <3>4 DEF OnlyOf
  <2>3. QED
    BY <1>8, <2>1, <2>2
<1>10. Fine(s, u, c) /\ MapOf(s, c) = MapOf(s, d) /\ HandleOk(h, s, u, c)
  BY <1>2, <1>4, <1>7, <1>9, UncoveredFine
<1>11. FileMap = MapOf(s, d) /\ FileMap' = MapOf(t, c)
  BY <1>1, TheMap
<1>12. PICK v, w : v = MapOf(s, d) /\ w = MapOf(t, c)
  OBVIOUS
<1>13. /\ j.from \in DOMAIN v /\ j.to \in DOMAIN v /\ v = [n \in DOMAIN v |-> v[n]]
       /\ v[j.to] = [attr |-> s[b].attr, cells |-> Cut(d[g], s[b].size)]
  <2>1. /\ j.from \in DOMAIN v /\ j.to \in DOMAIN v
        /\ v[j.to] = [attr |-> s[b].attr, cells |-> Cut(d[g], s[b].size)]
    <3>1. /\ j.from \in DOMAIN MapOf(s, d) /\ j.to \in DOMAIN MapOf(s, d)
          /\ MapOf(s, d)[j.to] = [attr |-> s[b].attr, cells |-> Cut(d[g], s[b].size)]
      <4>1. Fine(s, u, d) /\ Pair(a, b, f, g, z, j, h, s, u, d)
        BY <1>2, <1>4
      <4>2. PairFiles(MapOf(s, d), a, b, f, g, z, j, s, d)
        BY <4>1, PairMap, Zenon
      <4>3. QED
        BY <4>2 DEF PairFiles
    <3>2. QED
      BY <1>12, <3>1
  <2>2. Tidy(s)
    BY <1>2 DEF Fine, Good
  <2>3. QED
    BY <1>12, <2>1, <2>2, MapIs
<1>14. /\ Fine(t, u, c) /\ HandleOk(h, t, u, c) /\ NameOf(h, t) = NameOf(h, s)
       /\ \A i \in Slots : t[i].name = s[i].name /\ t[i].attr = s[i].attr /\ t[i].file = s[i].file
       /\ t[a] = s[a]
       /\ t # s => t[b].size = m
       /\ t # s => w[j.to].cells = Cut(c[g], m)
       /\ DOMAIN w = DOMAIN v /\ w = [n \in DOMAIN w |-> w[n]]
       /\ \A n \in DOMAIN v : n # j.to => w[n] = v[n]
       /\ \E q : w[j.to] = [attr |-> s[b].attr, cells |-> q]
  <2>1. CASE t = s
    <3>1. w = v
      BY <1>10, <1>12, <2>1
    <3>2. QED
      BY <1>10, <1>13, <2>1, <3>1
  <2>2. CASE t = [s EXCEPT ![b].size = m]
    <3>1. s[b] \in Entries /\ s \in [Slots -> Entries] /\ s[b].name \in Names
      BY <1>2, <1>6 DEF Fine, Good, Tidy, FilesApart
    <3>2. PICK e : e = [s[b] EXCEPT !.size = m]
      OBVIOUS
    <3>3. e \in Entries /\ e.name = s[b].name /\ e.attr = s[b].attr /\ e.file = s[b].file /\ e.size = m
      BY <3>1, <3>2 DEF Entries
    <3>4. Kept(e) = e
      BY <1>6, <3>3 DEF Kept, Vacant
    <3>5. t = [s EXCEPT ![b] = e]
      BY <2>2, <3>2
    <3>6. Only(b, s, t) /\ t[b] = e
      BY <1>6, <3>1, <3>3, <3>5 DEF Only
    <3>7. Changed(s, u, c, b, e, t)
      <4>1. e.name \in Names /\ e.file = s[b].file /\ t[b] = Kept(e)
        BY <3>1, <3>3, <3>4, <3>6
      <4>2. e.size <= Len(c[e.file])
        BY <1>6, <1>9, <3>3
      <4>3. Visible(e) => \A i \in Slots \ {b} : ~Shows(s, i, e.name)
        BY <1>2, <1>6, <3>3 DEF Fine, Good, Tidy, NamesApart, Shows
      <4>4. Fine(s, u, c) /\ b \in Slots /\ ~Vacant(s[b]) /\ Only(b, s, t) /\ e \in Entries
        BY <1>6, <1>10, <3>3, <3>6
      <4>5. QED
        BY <4>1, <4>2, <4>3, <4>4, ChangeFine
    <3>8. Fine(t, u, c) /\ MapOf(t, c) = WrittenMap(s, c, b, t, c) /\ HandleOk(h, t, u, c)
      BY <1>6, <1>10, <3>7 DEF Changed
    <3>9. \A i \in Slots : i # b => t[i] = s[i]
      BY <3>6 DEF Only
    <3>10. \A i \in Slots : t[i].name = s[i].name /\ t[i].attr = s[i].attr /\ t[i].file = s[i].file
      BY <3>3, <3>6, <3>9
    <3>11. NameOf(h, t) = NameOf(h, s)
      <4>1. h.open => h.slot \in Slots /\ h.slot # b
        BY <1>2, <1>6 DEF HandleOk
      <4>2. QED
        BY <3>9, <4>1 DEF NameOf
    <3>12. NameAt(s[b]) = {j.to} /\ NameAt(t[b]) = {j.to}
      BY <1>6, <3>3, <3>6 DEF NameAt, Shows, Visible, Vacant
    <3>13. FileIn(t, c, b) = [attr |-> s[b].attr, cells |-> Cut(c[g], m)]
      BY <1>6, <3>3, <3>6 DEF FileIn
    <3>14. w = [n \in (DOMAIN v \ {j.to}) \cup {j.to} |-> IF n \in {j.to} THEN FileIn(t, c, b) ELSE v[n]]
      BY <1>10, <1>12, <3>8, <3>12 DEF WrittenMap
    <3>15. /\ DOMAIN w = DOMAIN v /\ w = [n \in DOMAIN w |-> w[n]]
           /\ w[j.to] = FileIn(t, c, b) /\ \A n \in DOMAIN v : n # j.to => w[n] = v[n]
      BY <1>13, <3>14
    <3>16. t[a] = s[a] /\ t[b].size = m
      BY <1>6, <3>3, <3>6, <3>9
    <3>17. w[j.to] = [attr |-> s[b].attr, cells |-> Cut(c[g], m)]
      BY <3>13, <3>15
    <3>18. w[j.to].cells = Cut(c[g], m)
      BY <3>17
    <3>19. QED
      BY <3>8, <3>10, <3>11, <3>15, <3>16, <3>17, <3>18
  <2>3. QED
    BY <1>8, <2>1, <2>2
<1>15. w = [v EXCEPT ![j.to].cells = w[j.to].cells]
  <2>0. PICK p : w[j.to] = [attr |-> s[b].attr, cells |-> p]
    BY <1>14
  <2>1. PICK k, q, x, y : k = j.to /\ q = p /\ x = s[b].attr /\ y = Cut(d[g], s[b].size)
    OBVIOUS
  <2>10. k \in DOMAIN v /\ w[k] = [attr |-> x, cells |-> q] /\ v[k] = [attr |-> x, cells |-> y]
    BY <1>13, <2>0, <2>1
  <2>2. w = [v EXCEPT ![k].cells = w[k].cells]
    BY <1>13, <1>14, <2>1, <2>10, ExceptCells
  <2>3. QED
    BY <2>1, <2>2
<1>16. ASSUME ~j.failed
       PROVE  c = d /\ t[b].size = m /\ w[j.to].cells = Cut(d[g], m)
  <2>1. c = d /\ t = [s EXCEPT ![b].size = m]
    BY <1>8, <1>16
  <2>2. CASE t # s
    BY <1>14, <2>1, <2>2
  <2>3. CASE t = s
    <3>1. s \in [Slots -> Entries]
      BY <1>2 DEF Fine, Good, Tidy
    <3>2. s[b] \in Entries
      BY <1>6, <3>1
    <3>3. [s[b] EXCEPT !.size = m].size = m
      BY <3>2 DEF Entries
    <3>4. t[b] = [s[b] EXCEPT !.size = m]
      BY <1>6, <2>1, <3>1
    <3>5. s[b].size = m
      BY <2>3, <3>3, <3>4
    <3>6. w = v
      BY <1>10, <1>12, <2>3
    <3>7. w[j.to].cells = Cut(d[g], m)
      BY <1>13, <3>5, <3>6
    <3>8. QED
      BY <2>1, <2>3, <3>5, <3>7
  <2>4. QED
    BY <2>2, <2>3
<1>17. Closed(s, t, d, c, v, w, j)
  <2>1. w[j.from] = v[j.from] /\ j.from \in DOMAIN w /\ j.to \in DOMAIN w
    BY <1>6, <1>13, <1>14
  <2>2. /\ \A i \in Slots : t[i].name = s[i].name /\ t[i].attr = s[i].attr /\ t[i].file = s[i].file
        /\ t[j.source.slot] = s[j.source.slot] /\ c[j.source.file] = d[j.source.file]
    BY <1>6, <1>9, <1>14
  <2>3. ~j.failed => /\ c = d /\ t[j.target.slot].size = j.target.size
                     /\ w[j.to].cells = Cut(d[j.target.file], j.target.size)
    BY <1>5, <1>6, <1>16
  <2>4. QED
    BY <1>6, <1>13, <1>15, <2>1, <2>2, <2>3 DEF Closed
<1>18. Fine(slots', used', data') /\ HandleOk(handle, slots', used', data') /\ used' = used
       /\ NameOf(handle, slots') = NameOf(handle, slots)
  BY <1>1, <1>8, <1>14
<1>19. Closed(slots, slots', data, data', FileMap, FileMap', job)
  BY <1>1, <1>11, <1>12, <1>17
<1>20. QED
  BY <1>18, <1>19

\* The job's copy is made: the target's entry covers it.
LEMMA MovedJob ==
    ASSUME TypeInv, World, job.kind = "move",
           NEW t, NEW c, Closed(slots, t, data, c, FileMap, FileMap', job),
           job.source.dir \/ job.target.size >= job.source.size \/ job.failed,
           NEW k, k = [job EXCEPT !.kind = "remove"]
    PROVE  JobOk(k, handle, t, c)
<1>1. PICK s, u, d, h, j : s = slots /\ u = used /\ d = data /\ h = handle /\ j = job
  OBVIOUS
<1>2. /\ JobOk(j, h, s, d) /\ Working(j) /\ Transfers(j) /\ j \in Jobs
      /\ j.source.dir \/ j.target.size >= j.source.size \/ j.failed
  BY <1>1 DEF World, Working, Transfers, TypeInv
<1>3. /\ k.kind = "remove" /\ k.from = j.from /\ k.to = j.to /\ k.source = j.source
      /\ k.target = j.target /\ k.failed = j.failed
  BY <1>1, <1>2 DEF Jobs
<1>4. /\ \A i \in Slots : t[i].name = s[i].name /\ t[i].attr = s[i].attr /\ t[i].file = s[i].file
      /\ t[j.source.slot] = s[j.source.slot]
      /\ ~j.failed => c = d /\ t[j.target.slot].size = j.target.size
  BY <1>1 DEF Closed
<1>5. /\ j.from \in Names /\ j.to \in Names
      /\ j.source.slot \in Slots /\ j.target.slot \in Slots /\ j.source.slot # j.target.slot
      /\ Shows(t, j.source.slot, j.from) /\ Shows(t, j.target.slot, j.to)
      /\ j.source.dir = ("directory" \in t[j.source.slot].attr)
      /\ j.source.file = t[j.source.slot].file /\ j.source.size = t[j.source.slot].size
      /\ j.target.file = t[j.target.slot].file
      /\ h.open => h.slot # j.target.slot
  <2>1. /\ j.from \in Names /\ j.to \in Names
        /\ j.source.slot \in Slots /\ j.target.slot \in Slots /\ j.source.slot # j.target.slot
        /\ Shows(s, j.source.slot, j.from) /\ Shows(s, j.target.slot, j.to)
        /\ j.source.dir = ("directory" \in s[j.source.slot].attr)
        /\ j.source.file = s[j.source.slot].file /\ j.source.size = s[j.source.slot].size
        /\ j.target.file = s[j.target.slot].file
        /\ h.open => h.slot # j.target.slot
    BY <1>2 DEF JobOk
  <2>2. QED
    BY <1>4, <2>1 DEF Shows, Visible, Vacant
<1>6. ASSUME ~j.failed, ~j.source.dir
      PROVE  /\ j.source.size <= t[j.target.slot].size
             /\ \A x \in 1 .. j.source.size : c[j.target.file][x] = c[j.source.file][x]
  <2>1. PICK m \in Nat, z \in Nat : m = j.target.size /\ z = j.source.size /\ z <= m
    BY <1>2, <1>6 DEF Jobs, Handles
  <2>2. c = d /\ t[j.target.slot].size = m
    BY <1>4, <1>6, <2>1
  <2>3. \A x \in 1 .. m : x <= z => d[j.target.file][x] = d[j.source.file][x]
    BY <1>2, <2>1 DEF JobOk
  <2>4. \A x \in 1 .. z : x \in 1 .. m /\ x <= z
    BY <2>1
  <2>5. QED
    BY <2>1, <2>2, <2>3, <2>4
<1>7. ~Transfers(k)
  BY <1>3 DEF Transfers
<1>8. JobOk(k, h, t, c)
  <2>1. /\ k.from \in Names /\ k.to \in Names
        /\ k.source.slot \in Slots /\ k.target.slot \in Slots /\ k.source.slot # k.target.slot
        /\ Shows(t, k.source.slot, k.from) /\ Shows(t, k.target.slot, k.to)
        /\ k.source.dir = ("directory" \in t[k.source.slot].attr)
        /\ k.source.file = t[k.source.slot].file /\ k.source.size = t[k.source.slot].size
        /\ k.target.file = t[k.target.slot].file
        /\ h.open => h.slot # k.target.slot
    BY <1>3, <1>5
  <2>2. ~k.failed /\ ~k.source.dir =>
          /\ k.source.size <= t[k.target.slot].size
          /\ \A x \in 1 .. k.source.size : c[k.target.file][x] = c[k.source.file][x]
    BY <1>3, <1>6
  <2>3. QED
    BY <1>7, <2>1, <2>2 DEF JobOk
<1>9. QED
  BY <1>1, <1>8

\* The target's cells begin with the source's, unless a transfer failed.
LEMMA CopiedWhole ==
    ASSUME TypeInv, World, Transfers(job), ~job.failed, ~job.source.dir,
           job.target.size >= job.source.size,
           NEW w, w = Cut(data[job.target.file], job.target.size)
    PROVE  /\ IsPrefix(FileMap[job.from].cells, w)
           /\ Len(w) < Len(FileMap[job.from].cells) + SectorSize
<1>1. PICK s, u, d, h, j : s = slots /\ u = used /\ d = data /\ h = handle /\ j = job
  OBVIOUS
<1>2. Fine(s, u, d) /\ HandleOk(h, s, u, d) /\ JobOk(j, h, s, d) /\ Working(j) /\ Transfers(j) /\ j \in Jobs
  BY <1>1 DEF World, Working, Transfers, TypeInv
<1>3. PICK a, b, f, g, z : Pair(a, b, f, g, z, j, h, s, u, d)
  BY <1>2, Between
<1>4. /\ z \in Nat /\ z = j.source.size /\ z <= Len(d[f]) /\ f = j.source.file /\ g = j.target.file
      /\ d[f] \in Seq(Cells) /\ d[g] \in Seq(Cells)
  BY <1>3 DEF Pair
<1>5. PICK m \in Nat : m = j.target.size /\ z <= m
  BY <1>1, <1>2, <1>4 DEF Jobs, Handles
<1>6. /\ m = Len(d[g]) /\ (m = 0 \/ m < z + SectorSize)
      /\ \A x \in 1 .. m : x <= z => d[g][x] = d[f][x]
  BY <1>2, <1>4, <1>5 DEF JobOk
<1>7. m < z + SectorSize
  BY <1>4, <1>6, Geometry
<1>8. FileMap[j.from].cells = Cut(d[f], z)
  <2>1. PairFiles(MapOf(s, d), a, b, f, g, z, j, s, d)
    BY <1>2, <1>3, PairMap, Zenon
  <2>2. FileMap = MapOf(s, d)
    BY <1>1, TheMap
  <2>3. QED
    BY <2>1, <2>2 DEF PairFiles
<1>9. PICK v, q, r : v = Cut(q, z) /\ q = d[f] /\ r = d[g]
  OBVIOUS
<1>10. v \in Seq(Cells) /\ Len(v) = z /\ \A x \in 1 .. z : v[x] = q[x]
  BY <1>4, <1>9, FirstCells
<1>11. w \in Seq(Cells) /\ Len(w) = m /\ \A x \in 1 .. m : w[x] = r[x]
  <2>1. w = Cut(r, m) /\ r \in Seq(Cells) /\ m <= Len(r)
    BY <1>1, <1>4, <1>5, <1>6, <1>9
  <2>2. QED
    BY <2>1, FirstCells
<1>12. Len(v) <= Len(w) /\ \A x \in 1 .. Len(v) : v[x] = w[x]
  <2>1. \A x \in 1 .. z : x \in 1 .. m /\ x <= z
    BY <1>4, <1>5
  <2>2. QED
    BY <1>5, <1>6, <1>9, <1>10, <1>11, <2>1
<1>13. IsPrefix(v, w)
  BY <1>10, <1>11, <1>12, PrefixIs
<1>14. QED
  BY <1>1, <1>7, <1>8, <1>9, <1>10, <1>11, <1>13

LEMMA CopyEndsStep ==
    ASSUME TypeInv, TypeInv', World, sound, sound', CopyEnds
    PROVE  World' /\ Map!Next /\ FileMap'[job.from] = FileMap[job.from] /\ job.from \in DOMAIN FileMap'
<1>1. /\ Transfers(job) /\ CloseTarget /\ UNCHANGED handle
      /\ job.source.dir \/ job.target.size >= job.source.size \/ job.failed
      /\ \/ job.kind = "copy" /\ job' = NoJob /\ answer' = Yes
         \/ job.kind = "move" /\ job' = [job EXCEPT !.kind = "remove"] /\ answer' = No
  BY DEF CopyEnds, Copying, Transfers
<1>2. /\ used' = used
      /\ Fine(slots', used', data') /\ HandleOk(handle, slots', used', data')
      /\ NameOf(handle, slots') = NameOf(handle, slots)
      /\ Closed(slots, slots', data, data', FileMap, FileMap', job)
  BY <1>1, CloseWorld
<1>3. JobOk(job', handle, slots', data')
  <2>1. CASE job' = NoJob
    BY <2>1, NoWork
  <2>2. CASE job.kind = "move" /\ job' = [job EXCEPT !.kind = "remove"]
    BY <1>1, <1>2, <2>2, MovedJob
  <2>3. QED
    BY <1>1, <2>1, <2>2
<1>4. World'
  BY <1>1, <1>2, <1>3 DEF World
<1>5. /\ job.from \in DOMAIN FileMap /\ job.to \in DOMAIN FileMap /\ job.to \in DOMAIN FileMap'
      /\ FileMap' = [FileMap EXCEPT ![job.to].cells = FileMap'[job.to].cells]
      /\ FileMap'[job.from] = FileMap[job.from] /\ job.from \in DOMAIN FileMap'
  BY <1>2 DEF Closed
<1>6. Copying /\ ~Copying'
  <2>1. job'.kind = "remove" \/ job'.kind = "none"
    BY <1>1, JobTypes DEF TypeInv, Jobs
  <2>2. ~Transfers(job')
    BY <2>1 DEF Transfers
  <2>3. QED
    BY <1>1, <2>2, CopiesAre
<1>7. \/ job.failed \/ "directory" \in FileMap[job.from].attr
      \/ /\ IsPrefix(FileMap[job.from].cells, FileMap'[job.to].cells)
         /\ Len(FileMap'[job.to].cells) < Len(FileMap[job.from].cells) + SectorSize
  <2>1. CASE job.failed
    BY <2>1
  <2>2. CASE job.source.dir
    <3>1. PICK s, u, d, h, j : s = slots /\ u = used /\ d = data /\ h = handle /\ j = job
      OBVIOUS
    <3>2. Fine(s, u, d) /\ HandleOk(h, s, u, d) /\ JobOk(j, h, s, d) /\ Working(j)
      BY <1>1, <3>1 DEF World, Working, Transfers
    <3>3. PICK a, b, f, g, z : Pair(a, b, f, g, z, j, h, s, u, d)
      BY <3>2, Between
    <3>4. PairFiles(MapOf(s, d), a, b, f, g, z, j, s, d) /\ FileMap = MapOf(s, d)
      BY <3>1, <3>2, <3>3, PairMap, TheMap
    <3>5. FileMap[j.from].attr = s[a].attr
      BY <3>4 DEF PairFiles
    <3>6. "directory" \in s[a].attr
      BY <2>2, <3>1, <3>3 DEF Pair
    <3>7. QED
      BY <3>1, <3>5, <3>6
  <2>3. CASE ~job.failed /\ ~job.source.dir
    <3>1. job.target.size >= job.source.size
      BY <1>1, <2>3
    <3>2. FileMap'[job.to].cells = Cut(data[job.target.file], job.target.size)
      BY <1>2, <2>3 DEF Closed
    <3>3. PICK w : w = Cut(data[job.target.file], job.target.size)
      OBVIOUS
    <3>4. /\ IsPrefix(FileMap[job.from].cells, w)
          /\ Len(w) < Len(FileMap[job.from].cells) + SectorSize
      BY <1>1, <2>3, <3>1, <3>3, CopiedWhole
    <3>5. QED
      BY <3>2, <3>3, <3>4
  <2>4. QED
    BY <2>1, <2>2, <2>3
<1>8. answer' \in {Yes, No} /\ OpenName' = OpenName
  BY <1>1, <1>2, OpenNameIs
<1>9. Map!Next
  BY <1>5, <1>6, <1>7, <1>8, SoundIs, MapEnd
<1>10. QED
  BY <1>4, <1>5, <1>9

LEMMA CopyStopsStep ==
    ASSUME TypeInv, TypeInv', World, sound, sound', CopyStops
    PROVE  World' /\ Map!Next
<1>1. Transfers(job) /\ CloseTarget /\ UNCHANGED handle /\ job' = NoJob /\ answer' = No
  BY DEF CopyStops, Copying, Transfers
<1>2. /\ Fine(slots', used', data') /\ HandleOk(handle, slots', used', data')
      /\ NameOf(handle, slots') = NameOf(handle, slots)
      /\ Closed(slots, slots', data, data', FileMap, FileMap', job)
  BY <1>1, CloseWorld
<1>3. JobOk(job', handle, slots', data')
  BY <1>1, NoWork
<1>4. World'
  BY <1>1, <1>2, <1>3 DEF World
<1>5. /\ job.to \in DOMAIN FileMap'
      /\ FileMap' = [FileMap EXCEPT ![job.to].cells = FileMap'[job.to].cells]
  BY <1>2 DEF Closed
<1>6. Copying /\ ~Copying'
  BY <1>1, NoWork, CopiesAre
<1>7. OpenName' = OpenName
  BY <1>1, <1>2, OpenNameIs
<1>8. Map!Next
  BY <1>1, <1>5, <1>6, <1>7, SoundIs, MapStop
<1>9. QED
  BY <1>4, <1>8

LEMMA MoveEndsStep ==
    ASSUME TypeInv, TypeInv', World, sound', MoveEnds
    PROVE  /\ sound /\ World' /\ Map!Next
           /\ \/ FileMap' = FileMap
              \/ ~job.source.dir /\ FileMap' = Without(FileMap, job.from)
<1>1. /\ job.kind = "remove" /\ job' = NoJob /\ UNCHANGED handle
      /\ Erase(Find(job.from), FALSE) \/ (answer' = No /\ UNCHANGED <<disk, sound>>)
      /\ Working(job) /\ ~Transfers(job)
  BY DEF MoveEnds, Working, Transfers
<1>2. Copies = {} /\ Copies' = {} /\ ~Transfers(job')
  BY <1>1, NoWork, CopiesAre
<1>3. ASSUME TRUE PROVE JobOk(job', handle, slots', data') /\ JobOk(job', handle, slots, data)
  BY <1>1, NoWork
<1>4. CASE answer' = No /\ UNCHANGED <<disk, sound>>
  <2>1. World' /\ FileMap' = FileMap /\ OpenName' = OpenName
    BY <1>1, <1>3, <1>4, StillWorld
  <2>2. Copies' = Copies /\ sound
    BY <1>2, <1>4
  <2>3. QED
    BY <1>4, <2>1, <2>2, SoundIs, MapCall
<1>5. CASE Erase(Find(job.from), FALSE)
  <2>1. PICK n : n = job.from
    OBVIOUS
  <2>2. n \in Names /\ Shows(slots, job.source.slot, n) /\ job.source.slot \in Slots
        /\ job.source.dir = ("directory" \in slots[job.source.slot].attr)
    BY <1>1, <2>1 DEF World, JobOk
  <2>3. /\ sound' = sound /\ answer' = Yes /\ n \in DOMAIN FileMap
        /\ Fine(slots', used', data') /\ HandleOk(handle, slots', used', data')
        /\ FileMap' = Without(FileMap, n)
        /\ NameOf(handle, slots') = NameOf(handle, slots) \ {n}
        /\ FALSE = ("directory" \in slots[Find(n)].attr)
    BY <1>5, <2>1, <2>2, EraseWorld
  <2>4. Find(n) = job.source.slot
    <3>1. PICK s, a : s = slots /\ a = job.source.slot
      OBVIOUS
    <3>2. Tidy(s)
      BY <3>1 DEF World, Fine, Good
    <3>3. FoundIn(s, n) = a
      BY <2>2, <3>1, <3>2, SearchFinds
    <3>4. QED
      BY <3>1, <3>3, TheMap
  <2>5. World'
    BY <1>1, <1>3, <2>3 DEF World
  <2>6. OpenName' = OpenName \ {n}
    BY <1>1, <2>3, OpenNameIs
  <2>7. Map!Next
    BY <1>2, <2>2, <2>3, <2>6, SoundIs, MapDelete
  <2>8. ~job.source.dir
    BY <2>2, <2>3, <2>4
  <2>9. QED
    BY <2>1, <2>3, <2>5, <2>7, <2>8
<1>6. QED
  BY <1>1, <1>4, <1>5

----------------------------------------------------------------------------
(* The directory is a map from names to files.                             *)

LEMMA CellsOfStamps == \A q \in Seq(Stamps) : q \in Seq(Cells) /\ Len(q) \in Nat
<1>1. SUFFICES ASSUME NEW q \in Seq(Stamps) PROVE q \in Seq(Cells) /\ Len(q) \in Nat
  OBVIOUS
<1>2. Len(q) \in Nat /\ q \in [1 .. Len(q) -> Stamps]
  BY LenProperties
<1>3. PICK n \in Nat : n = Len(q)
  BY <1>2
<1>4. q \in [1 .. n -> Cells]
  BY <1>2, <1>3 DEF Cells
<1>5. q \in Seq(Cells)
  BY <1>4, MapIsSeq
<1>6. QED
  BY <1>2, <1>5

LEMMA InitWorld ==
    ASSUME Init
    PROVE  World /\ Map!Init
<1>1. TypeInv
  BY InitType
<1>2. PICK f \in Formatted :
        /\ slots = [i \in Slots |->
              IF i < Len(f) THEN Entry(name_to_83(f[i + 1].path), f[i + 1].attr, f[i + 1].file,
                                       Len(f[i + 1].cells))
              ELSE Nothing]
        /\ used = {f[i].file : i \in DOMAIN f}
        /\ data = [c \in Files |-> IF c \in used
                                   THEN f[CHOOSE i \in DOMAIN f : f[i].file = c].cells ELSE <<>>]
  BY DEF Init
<1>3. PICK l \in Nat : l = Len(f) /\ DOMAIN f = 1 .. l
  BY FormattedAssumption, LenProperties
<1>4. ASSUME NEW i \in 1 .. l
      PROVE  /\ f[i].path \in Paths /\ f[i].attr \in Attributes /\ f[i].file \in Files
             /\ f[i].cells \in Seq(Stamps) /\ name_to_83(f[i].path) \in Names
  <2> DEFINE T == [path : Paths, attr : Attributes, file : Files, cells : Seq(Stamps)]
  <2>1. \A g \in T : g.path \in Paths /\ g.attr \in Attributes /\ g.file \in Files /\ g.cells \in Seq(Stamps)
    OBVIOUS
  <2>2. f \in Seq(T)
    BY FormattedAssumption
  <2> HIDE DEF T
  <2>3. f[i] \in T
    BY <1>3, <2>2, ElementOfSeq
  <2>4. QED
    BY <2>1, <2>3, PathNames
<1>5. \A i, j \in 1 .. l :
         (f[i].file = f[j].file \/ name_to_83(f[i].path) = name_to_83(f[j].path)) => i = j
  BY <1>3, FormattedAssumption
<1>6. PICK s, u, d : s = slots /\ u = used /\ d = data
  OBVIOUS
<1>7. s \in [Slots -> Entries] /\ u \subseteq Files
  BY <1>1, <1>6 DEF TypeInv
<1>8. ASSUME NEW i \in Slots, i < l
      PROVE  /\ i + 1 \in 1 .. l
             /\ s[i].name = name_to_83(f[i + 1].path) /\ s[i].file = f[i + 1].file
             /\ s[i].size = Len(f[i + 1].cells) /\ s[i].name \in Names /\ s[i].name[1] # UNUSED
  <2>1. PICK k \in 1 .. l : k = i + 1
    BY <1>8, SlotsAreNumbers
  <2>2. PICK n \in Names, a \in Attributes, g \in Nat, z \in Nat :
          n = name_to_83(f[k].path) /\ a = f[k].attr /\ g = f[k].file /\ z = Len(f[k].cells)
    BY <1>4, CellsOfStamps, Geometry
  <2>3. s[i] = Entry(n, a, g, z)
    BY <1>2, <1>3, <1>6, <1>8, <2>1, <2>2
  <2>4. s[i].name = n /\ s[i].file = g /\ s[i].size = z /\ n[1] # UNUSED
    BY <2>3, EntryFields, NameChars
  <2>5. QED
    BY <2>1, <2>2, <2>4
<1>9. ASSUME NEW i \in Slots, ~(i < l)
      PROVE  s[i] = Nothing /\ Vacant(s[i]) /\ ~Visible(s[i]) /\ s[i].name[1] = UNUSED
  <2>1. s[i] = Nothing
    BY <1>2, <1>3, <1>6, <1>9
  <2>2. QED
    BY <2>1, Blanks DEF Visible, Vacant
<1>10. ASSUME NEW i \in Slots, NEW j \in Slots, ~Vacant(s[i]), ~Vacant(s[j]),
              s[i].name = s[j].name \/ s[i].file = s[j].file
       PROVE  i = j
  <2>1. i < l /\ j < l /\ i \in Nat /\ j \in Nat
    BY <1>9, <1>10, SlotsAreNumbers
  <2>2. PICK x \in 1 .. l, y \in 1 .. l : x = i + 1 /\ y = j + 1
    BY <1>8, <2>1
  <2>3. x = y
    BY <1>5, <1>8, <1>10, <2>1, <2>2
  <2>4. QED
    BY <2>1, <2>2, <2>3
<1>11. NoGaps(s)
  <2>1. SUFFICES ASSUME NEW i \in Slots, NEW j \in Slots, i < j, s[i].name[1] = UNUSED
                 PROVE  s[j].name[1] = UNUSED
    BY DEF NoGaps
  <2>2. ~(i < l)
    BY <1>8, <2>1
  <2>3. ~(j < l)
    BY <2>1, <2>2, SlotsAreNumbers
  <2>4. QED
    BY <1>9, <2>3
<1>12. NamesApart(s)
  BY <1>10 DEF NamesApart, Visible
<1>13. d \in [Files -> Seq(Cells)]
  <2>1. ASSUME NEW c \in Files PROVE d[c] \in Seq(Cells)
    <3>1. CASE c \notin u
      BY <1>2, <1>6, <3>1
    <3>2. CASE c \in u
      <4>1. \E i \in 1 .. l : f[i].file = c
        BY <1>2, <1>3, <1>6, <3>2
      <4>2. PICK k \in 1 .. l : d[c] = f[k].cells
        BY <1>2, <1>3, <1>6, <3>2, <4>1
      <4>3. QED
        BY <1>4, <4>2, CellsOfStamps
    <3>3. QED
      BY <3>1, <3>2
  <2>2. d = [c \in Files |-> d[c]]
    BY <1>2, <1>6
  <2>3. QED
    BY <2>1, <2>2
<1>14. ASSUME NEW i \in Slots, ~Vacant(s[i])
       PROVE  s[i].file \in u /\ s[i].name \in Names /\ s[i].size <= Len(d[s[i].file])
  <2>1. i < l
    BY <1>9, <1>14
  <2>2. PICK k \in 1 .. l : k = i + 1
    BY <1>8, <2>1
  <2>3. PICK c \in Files : c = f[k].file /\ c \in u
    BY <1>2, <1>3, <1>4, <1>6
  <2>4. (CHOOSE j \in 1 .. l : f[j].file = c) = k
    BY <1>5, <2>3
  <2>5. d[c] = f[k].cells
    BY <1>2, <1>3, <1>6, <2>3, <2>4
  <2>6. s[i].file = c /\ s[i].size = Len(d[c]) /\ Len(d[c]) \in Nat /\ s[i].name \in Names
    BY <1>4, <1>8, <2>1, <2>2, <2>3, <2>5, CellsOfStamps
  <2>7. QED
    BY <2>3, <2>6
<1>15. Fine(s, u, d)
  BY <1>7, <1>10, <1>11, <1>12, <1>13, <1>14 DEF Fine, Good, Tidy, FilesApart, SizesFit
<1>16. handle = NoHandle /\ job = NoJob /\ answer = No /\ sound = TRUE /\ handle.open = FALSE
  BY DEF Init, NoHandle
<1>17. World
  BY <1>6, <1>15, <1>16, NoWork DEF World, HandleOk
<1>18. ASSUME NEW n \in DOMAIN FileMap
       PROVE  /\ n \in Names \ Unseens /\ FileMap[n].attr \in Attributes \ Hidings
  <2>1. Tidy(s) /\ FileMap = MapOf(s, d)
    BY <1>6, <1>15, TheMap DEF Fine, Good
  <2>2. n \in Names /\ \E i \in Slots : Shows(s, i, n)
    BY <1>18, <2>1, MapIs
  <2>3. PICK i \in Slots : Shows(s, i, n)
    BY <2>2
  <2>4. FileMap[n] = FileIn(s, d, i)
    BY <2>1, <2>2, <2>3, MapShows
  <2>5. FileMap[n].attr = s[i].attr
    BY <2>4 DEF FileIn
  <2>6. s[i].attr \in Attributes
    BY <1>7 DEF Entries
  <2>7. n[1] # DELETED /\ "longname" \notin s[i].attr
    BY <2>3 DEF Shows, Visible, Vacant
  <2>8. QED
    BY <2>2, <2>5, <2>6, <2>7 DEF Unseens, Hidings
<1>19. OpenName = {} /\ ~Copying
  BY <1>16, JobTypes DEF OpenName, Copying
<1>20. Map!Init
  BY <1>16, <1>18, <1>19 DEF Map!Init, Map!Used, Map!No, No, Unseens, Hidings
<1>21. QED
  BY <1>17, <1>20

\* Nothing restores what was lost.
LEMMA WasSound ==
    ASSUME [Next]_vars, sound'
    PROVE  sound
<1>1. CASE UNCHANGED vars
  BY <1>1 DEF vars
<1>2. CASE Quiet
  BY <1>2 DEF Quiet, Mount, Umount, Refuse, Tell
<1>3. CASE ListStep
  BY <1>3 DEF ListStep, OpenRoot, CloseRoot, ReadDirEnds, ReadDirFails, ReadDirReturns, ReadDirGoesOn,
              ReadDirAstray
<1>4. CASE Close \/ Crash \/ CreateAstray
  BY <1>4 DEF Close, Crash, CreateAstray
<1>5. CASE \E v \in Stamps : Append1(v)
  BY <1>5 DEF Append1
<1>6. ASSUME NEW p \in Paths, NEW a,
             OpenNew(p) \/ Create(p, a)
      PROVE  sound
  BY <1>6 DEF OpenNew, Create, MakeEntry
<1>7. ASSUME NEW p \in Paths, NEW read \in BOOLEAN, Open(p, read) PROVE sound
  BY <1>7 DEF Open
<1>8. ASSUME NEW p \in Paths, NEW dir \in BOOLEAN, Delete(p, dir) PROVE sound
  BY <1>8 DEF Delete, Erase
<1>9. ASSUME NEW p \in Paths, NEW a \in Attributes, SetAttributes(p, a) PROVE sound
  BY <1>9 DEF SetAttributes
<1>10. ASSUME NEW p \in Paths, NEW q \in Paths, Rename(p, q) PROVE sound
  BY <1>10 DEF Rename
<1>11. ASSUME NEW p \in Paths, NEW q \in Paths, NEW kind \in {"copy", "move"}, StartCopy(p, q, kind)
       PROVE  sound
  BY <1>11 DEF StartCopy, MakeEntry
<1>12. CASE CopySector \/ TransferFails \/ CopyEnds \/ CopyStops
  BY <1>12 DEF CopySector, TransferFails, CopyEnds, CopyStops
<1>13. CASE MoveEnds
  BY <1>13 DEF MoveEnds, Erase
<1>14. QED
  BY <1>1, <1>2, <1>3, <1>4, <1>5, <1>6, <1>7, <1>8, <1>9, <1>10, <1>11, <1>12, <1>13
     DEF Next, Quiet, ListStep

LEMMA MapStep ==
    ASSUME TypeInv, TypeInv', World, sound, sound', Next
    PROVE  World' /\ Map!Next
<1>1. CASE Quiet
  BY <1>1, QuietStep
<1>2. CASE ListStep
  BY <1>2, ListingStep
<1>3. CASE Close
  BY <1>3, CloseStep
<1>4. CASE Crash
  BY <1>4, CrashStep
<1>5. CASE CreateAstray
  BY <1>5 DEF CreateAstray
<1>6. ASSUME NEW v \in Stamps, Append1(v) PROVE World' /\ Map!Next
  BY <1>6, AppendStep
<1>7. ASSUME NEW p \in Paths, OpenNew(p) PROVE World' /\ Map!Next
  BY <1>7, OpenNewStep
<1>8. ASSUME NEW p \in Paths, NEW read \in BOOLEAN, Open(p, read) PROVE World' /\ Map!Next
  BY <1>8, OpenStep
<1>9. ASSUME NEW p \in Paths, NEW a \in {{}, {"directory"}}, Create(p, a) PROVE World' /\ Map!Next
  BY <1>9, CreateStep
<1>10. ASSUME NEW p \in Paths, NEW dir \in BOOLEAN, Delete(p, dir) PROVE World' /\ Map!Next
  BY <1>10, DeleteStep
<1>11. ASSUME NEW p \in Paths, NEW a \in Attributes, SetAttributes(p, a) PROVE World' /\ Map!Next
  BY <1>11, SetAttributesStep
<1>12. ASSUME NEW p \in Paths, NEW q \in Paths, Rename(p, q) PROVE World' /\ Map!Next
  BY <1>12, RenameStep
<1>13. ASSUME NEW p \in Paths, NEW q \in Paths, NEW kind \in {"copy", "move"}, StartCopy(p, q, kind)
       PROVE  World' /\ Map!Next
  BY <1>13, StartCopyStep
<1>14. CASE CopySector
  BY <1>14, CopySectorStep
<1>15. CASE TransferFails
  BY <1>15, TransferFailsStep
<1>16. CASE CopyEnds
  BY <1>16, CopyEndsStep
<1>17. CASE CopyStops
  BY <1>17, CopyStopsStep
<1>18. CASE MoveEnds
  BY <1>18, MoveEndsStep
<1>19. QED
  <2>1. \A dir \in BOOLEAN : (IF dir THEN {"directory"} ELSE {}) \in {{}, {"directory"}}
    OBVIOUS
  <2>2. QED
    BY <1>1, <1>2, <1>3, <1>4, <1>5, <1>6, <1>7, <1>8, <1>9, <1>10, <1>11, <1>12, <1>13,
       <1>14, <1>15, <1>16, <1>17, <1>18, <2>1 DEF Next, Quiet, ListStep

LEMMA DirStep ==
    ASSUME TypeInv, TypeInv', DirInv, [Next]_vars
    PROVE  DirInv' /\ [Map!Next]_(Map!vars)
<1>1. CASE UNCHANGED vars
  <2>1. UNCHANGED <<mounted, slots, used, data, handle, lister, job, answer, sound>>
    BY <1>1 DEF vars, disk
  <2>2. DirInv'
    BY <2>1 DEF DirInv, World
  <2>3. FileMap' = FileMap /\ OpenName' = OpenName /\ Copying' = Copying
    BY <2>1, TheMap, OpenNameIs DEF Copying
  <2>4. UNCHANGED Map!vars
    BY <2>1, <2>3 DEF Map!vars
  <2>5. QED
    BY <2>2, <2>4
<1>2. CASE Next /\ ~sound'
  BY <1>2, MapBreak DEF DirInv
<1>3. CASE Next /\ sound'
  <2>1. sound /\ World
    BY <1>3, WasSound DEF DirInv
  <2>2. World' /\ Map!Next
    BY <1>3, <2>1, MapStep
  <2>3. QED
    BY <2>2 DEF DirInv
<1>4. QED
  BY <1>1, <1>2, <1>3

\* The directory is the map of NameMap: whatever calls are made, on paths that
\* may come to the same name, with failed transfers and crashes between them.
THEOREM ImplementsNameMap == Spec => IsNameMap
<1>1. Init => DirInv /\ Map!Init
  BY InitWorld DEF DirInv
<1>2. TypeInv /\ TypeInv' /\ DirInv /\ [Next]_vars => DirInv' /\ [Map!Next]_(Map!vars)
  BY DirStep
<1>3. QED
  BY <1>1, <1>2, DirectoryTypes, PTL DEF Spec, IsNameMap, Map!Spec

\* What becomes of the map while a file is moved.
LEMMA MovingSteps ==
    ASSUME TypeInv, TypeInv', World, sound, sound', [Next]_vars, job.kind \in {"move", "remove"}, ~job.failed
    PROVE  \/ FileMap' = FileMap
           \/ FileMap'[job.from] = FileMap[job.from] /\ job.from \in DOMAIN FileMap'
           \/ job.kind = "remove" /\ ~job.source.dir /\ FileMap' = Without(FileMap, job.from)
<1>0. ~Idle /\ job # NoJob /\ job.kind \notin {"none", "list"}
  BY NoWork DEF Idle, Working
<1>1. CASE UNCHANGED vars
  <2>1. UNCHANGED <<slots, data>>
    BY <1>1 DEF vars, disk
  <2>2. QED
    BY <2>1, TheMap
<1>2. CASE Quiet
  <2>1. UNCHANGED <<slots, data>>
    BY <1>2, QuietSteps DEF disk
  <2>2. QED
    BY <2>1, TheMap
<1>3. CASE ListStep
  BY <1>0, <1>3, ListSteps
<1>4. CASE Crash
  BY <1>4, CrashStep
<1>5. CASE CopySector
  BY <1>5, CopySectorStep
<1>6. CASE TransferFails
  BY <1>6, TransferFailsStep
<1>7. CASE CopyEnds
  BY <1>7, CopyEndsStep
<1>8. CASE CopyStops
  BY <1>8 DEF CopyStops
<1>9. CASE MoveEnds
  BY <1>9, MoveEndsStep DEF MoveEnds
<1>10. CASE Close \/ CreateAstray
  BY <1>0, <1>10 DEF Close, CreateAstray
<1>11. CASE \E v \in Stamps : Append1(v)
  BY <1>0, <1>11 DEF Append1
<1>12. ASSUME NEW p, NEW a, OpenNew(p) \/ Create(p, a) \/ Open(p, a) \/ Delete(p, a) \/ SetAttributes(p, a)
       PROVE  FALSE
  BY <1>0, <1>12 DEF OpenNew, Create, Open, Delete, SetAttributes
<1>13. ASSUME NEW p, NEW q, NEW kind, Rename(p, q) \/ StartCopy(p, q, kind)
       PROVE  FALSE
  BY <1>0, <1>13 DEF Rename, StartCopy
<1>14. QED
  BY <1>1, <1>2, <1>3, <1>4, <1>5, <1>6, <1>7, <1>8, <1>9, <1>10, <1>11, <1>12, <1>13
     DEF Next, Quiet, ListStep

LEMMA StillThere ==
    ASSUME TypeInv, TypeInv', DirInv, [Next]_vars, job.kind \in {"move", "remove"}, sound', ~job.failed
    PROVE  \E n \in {job.from, job.to} :
              n \in DOMAIN FileMap' /\ IsPrefix(Cut(data[job.source.file], job.source.size), FileMap'[n].cells)
<1>1. sound /\ World
  BY WasSound DEF DirInv
<1>2. PICK s, u, d, h, j : s = slots /\ u = used /\ d = data /\ h = handle /\ j = job
  OBVIOUS
<1>3. Fine(s, u, d) /\ HandleOk(h, s, u, d) /\ JobOk(j, h, s, d) /\ Working(j)
  BY <1>1, <1>2 DEF World, Working
<1>4. PICK a, b, f, g, z : Pair(a, b, f, g, z, j, h, s, u, d)
  BY <1>3, Between
<1>5. /\ z \in Nat /\ z = j.source.size /\ z <= Len(d[f]) /\ f = j.source.file /\ g = j.target.file
      /\ b = j.target.slot /\ d[f] \in Seq(Cells) /\ d[g] \in Seq(Cells)
      /\ s[b].size \in Nat /\ s[b].size <= Len(d[g]) /\ j.from # j.to
  BY <1>4 DEF Pair
<1>6. PICK m, w : m = FileMap /\ w = FileMap'
  OBVIOUS
<1>7. PairFiles(m, a, b, f, g, z, j, s, d)
  <2>1. PairFiles(MapOf(s, d), a, b, f, g, z, j, s, d)
    BY <1>3, <1>4, PairMap, Zenon
  <2>2. m = MapOf(s, d)
    BY <1>2, <1>6, TheMap
  <2>3. QED
    BY <2>1, <2>2
<1>8. PICK v, q, r, x : v = Cut(q, z) /\ q = d[f] /\ r = d[g] /\ x = s[b].size /\ x \in Nat
  BY <1>5
<1>9. v \in Seq(Cells) /\ Len(v) = z /\ \A k \in 1 .. z : v[k] = q[k]
  <2>1. q \in Seq(Cells) /\ z \in Nat /\ z <= Len(q)
    BY <1>5, <1>8
  <2>2. /\ Cut(q, z) \in Seq(Cells) /\ Len(Cut(q, z)) = z
        /\ \A k \in 1 .. z : Cut(q, z)[k] = q[k]
    BY <2>1, FirstCells
  <2>3. QED
    BY <1>8, <2>2
<1>10. IsPrefix(v, v)
  <2>1. Len(v) <= Len(v) /\ \A k \in 1 .. Len(v) : v[k] = v[k]
    BY <1>9
  <2>2. QED
    BY <1>9, <2>1, PrefixIs
<1>11. m[j.from].cells = v /\ j.from \in DOMAIN m /\ j.to \in DOMAIN m /\ m[j.to].cells = Cut(r, x)
  BY <1>7, <1>8 DEF PairFiles
<1>12. \/ w = m
       \/ w[j.from] = m[j.from] /\ j.from \in DOMAIN w
       \/ j.kind = "remove" /\ ~j.source.dir /\ w = Without(m, j.from)
  BY <1>1, <1>2, <1>6, MovingSteps
<1>13. CASE w = m \/ (w[j.from] = m[j.from] /\ j.from \in DOMAIN w)
  <2>1. j.from \in DOMAIN w /\ IsPrefix(v, w[j.from].cells)
    BY <1>10, <1>11, <1>13
  <2>2. QED
    BY <1>2, <1>5, <1>6, <1>8, <2>1
<1>14. CASE j.kind = "remove" /\ ~j.source.dir /\ w = Without(m, j.from)
  <2>1. z <= x /\ \A k \in 1 .. z : r[k] = q[k]
    <3>1. ~j.failed
      BY <1>2
    <3>2. QED
      BY <1>3, <1>5, <1>8, <1>14, <3>1 DEF JobOk
  <2>2. PICK y : y = Cut(r, x)
    OBVIOUS
  <2>3. y \in Seq(Cells) /\ Len(y) = x /\ \A k \in 1 .. x : y[k] = r[k]
    BY <1>5, <1>8, <2>2, FirstCells
  <2>4. Len(v) <= Len(y) /\ \A k \in 1 .. Len(v) : v[k] = y[k]
    <3>1. z \in Nat /\ x \in Nat /\ z <= x
      BY <1>5, <1>8, <2>1
    <3>3. \A k \in 1 .. z : k \in 1 .. x
      BY <3>1
    <3>2. QED
      BY <1>9, <2>1, <2>3, <3>1, <3>3
  <2>5. IsPrefix(v, y)
    BY <1>9, <2>3, <2>4, PrefixIs
  <2>6. j.to \in DOMAIN w /\ w[j.to].cells = y
    BY <1>5, <1>11, <1>14, <2>2 DEF Without
  <2>7. IsPrefix(v, w[j.to].cells)
    BY <2>5, <2>6
  <2>8. QED
    BY <1>2, <1>5, <1>6, <1>8, <2>6, <2>7
<1>15. QED
  BY <1>12, <1>13, <1>14

\* A file that is being moved is under its old name or, whole, under its new one
\* at every moment.
THEOREM MoveKeepsFile == Spec => KeptWhole
<1> DEFINE Whole ==
      LET there == {n \in {job.from, job.to} : n \in DOMAIN FileMap'}
      IN  job.kind \in {"move", "remove"} /\ sound' /\ ~job.failed =>
            \E n \in there : IsPrefix(SubSeq(data[job.source.file], 1, job.source.size),
                                      FileMap'[n].cells)
<1>1. Init => DirInv
  BY InitWorld DEF DirInv
<1>2. TypeInv /\ TypeInv' /\ DirInv /\ [Next]_vars => DirInv'
  BY DirStep
<1>3. ASSUME TypeInv, TypeInv', DirInv, [Next]_vars PROVE [Whole]_vars
  <2>1. SUFFICES ASSUME job.kind \in {"move", "remove"}, sound', ~job.failed
                 PROVE  \E n \in {m \in {job.from, job.to} : m \in DOMAIN FileMap'} :
                           IsPrefix(SubSeq(data[job.source.file], 1, job.source.size), FileMap'[n].cells)
    OBVIOUS
  <2>2. PICK n \in {job.from, job.to} :
           n \in DOMAIN FileMap' /\ IsPrefix(Cut(data[job.source.file], job.source.size), FileMap'[n].cells)
    BY <1>3, <2>1, StillThere
  <2>3. IsPrefix(SubSeq(data[job.source.file], 1, job.source.size), FileMap'[n].cells)
    BY <2>2, Zenon DEF Cut
  <2>4. QED
    BY <2>2, <2>3
<1>4. QED
  BY <1>1, <1>2, <1>3, DirectoryTypes, PTL DEF Spec, KeptWhole
=============================================================================
