----------------------------- MODULE BootProofs -----------------------------
(***************************************************************************)
(* Proofs about Boot: the memory map the kernel is entered with.           *)
(***************************************************************************)
EXTENDS Boot, WellFoundedInduction, TLAPS

\* Keys are never used twice, so the loader's is the one in force or an old one.
KeysInv ==
    /\ key \in Nat /\ count \in 1 .. MaxCount
    /\ map_key \in Int /\ map_key <= key
    /\ memory_map_size \in Nat
    /\ DOMAIN memory_map = 1 .. MaxCount

\* With the key in force and a map that fits, what was read is that map.  The
\* second conjunct is where a GetMemoryMap that failed and told the key all the
\* same is kept out: its map did not fit.
ReadInv ==
    /\ pc \in {"exit", "kernel"} /\ map_key = key /\ count <= memory_map_size =>
          \A i \in 1 .. count : memory_map[i] = <<key, i>>
    /\ pc = "kernel" => map_key = key

LEMMA InitInv == Init => KeysInv /\ ReadInv
BY BootAssumption DEF Init, KeysInv, ReadInv, NoKey

\* The steps before the map is read leave ReadInv with nothing to say.
LEMMA EarlyStepsKeep ==
    ASSUME KeysInv, ReadInv,
           LoadFile \/ LoadFileFails \/ PlaceKernel \/ PlaceFails \/ AllocParams
             \/ ChooseMode \/ SetMode \/ DescribeMode \/ AllocMap \/ AskSizeFails
    PROVE  KeysInv' /\ ReadInv'
<1>1. UNCHANGED <<key, count, map_key, memory_map_size, memory_map>>
  BY DEF LoadFile, LoadFileFails, PlaceKernel, PlaceFails, AllocParams, ChooseMode,
         SetMode, DescribeMode, AllocMap, AskSizeFails, efi, map
<1>2. pc' \notin {"exit", "kernel"}
  BY DEF LoadFile, LoadFileFails, PlaceKernel, PlaceFails, AllocParams, ChooseMode,
         SetMode, DescribeMode, AllocMap, AskSizeFails, Go
<1> QED
  BY <1>1, <1>2 DEF KeysInv, ReadInv

LEMMA AskSizeKeeps == KeysInv /\ ReadInv /\ AskSize => KeysInv' /\ ReadInv'
BY DEF KeysInv, ReadInv, AskSize, KeyIfTooSmall, Go, efi

LEMMA GetMapKeeps == KeysInv /\ ReadInv /\ GetMap => KeysInv' /\ ReadInv'
<1> SUFFICES ASSUME KeysInv, ReadInv, GetMap
             PROVE  KeysInv' /\ ReadInv'
  OBVIOUS
<1>1. pc' = "exit" /\ UNCHANGED <<key, count, memory_map_size>>
  BY DEF GetMap, Go, efi
<1>2. CASE count <= memory_map_size
  <2>1. map_key' = key
    BY <1>2 DEF GetMap
  <2>2. memory_map' = [i \in DOMAIN memory_map |->
                           IF i <= count THEN <<key, i>> ELSE memory_map[i]]
    BY <1>2 DEF GetMap
  <2>3. KeysInv'
    BY <1>1, <2>1, <2>2 DEF KeysInv
  <2>4. \A i \in 1 .. count : memory_map'[i] = <<key, i>>
    BY <2>2, BootAssumption DEF KeysInv
  <2> QED
    BY <1>1, <2>3, <2>4 DEF ReadInv
<1>3. CASE ~(count <= memory_map_size)
  <2>1. map_key' \in {map_key, key} /\ memory_map' = memory_map
    BY <1>3 DEF GetMap, KeyIfTooSmall
  <2> QED
    BY <1>1, <1>3, <2>1 DEF KeysInv, ReadInv
<1> QED
  BY <1>2, <1>3

LEMMA GetMapOverwritesKeeps ==
    KeysInv /\ ReadInv /\ GetMapOverwrites => KeysInv' /\ ReadInv'
BY DEF KeysInv, ReadInv, GetMapOverwrites, Go, efi, map

LEMMA ExitKeeps == KeysInv /\ ReadInv /\ Exit => KeysInv' /\ ReadInv'
BY DEF KeysInv, ReadInv, Exit, efi, map

\* A change leaves the loader with an old key, until it reads the map again.
LEMMA MapChangesKeeps == KeysInv /\ ReadInv /\ MapChanges => KeysInv' /\ ReadInv'
<1> SUFFICES ASSUME KeysInv, ReadInv, MapChanges
             PROVE  KeysInv' /\ ReadInv'
  OBVIOUS
<1>1. map_key' < key' /\ KeysInv'
  BY BootAssumption DEF KeysInv, MapChanges, map
<1>2. pc' # "kernel"
  BY DEF MapChanges
<1>3. map_key' # key'
  BY <1>1 DEF KeysInv
<1> QED
  BY <1>1, <1>2, <1>3 DEF ReadInv

LEMMA StepsKeep == KeysInv /\ ReadInv /\ [Next]_vars => (KeysInv /\ ReadInv)'
<1> SUFFICES ASSUME KeysInv, ReadInv, [Next]_vars
             PROVE  KeysInv' /\ ReadInv'
  OBVIOUS
<1>1. CASE UNCHANGED vars
  BY <1>1 DEF vars, efi, map, KeysInv, ReadInv
<1>2. CASE Next
  BY <1>2, EarlyStepsKeep, AskSizeKeeps, GetMapKeeps, GetMapOverwritesKeeps, ExitKeeps,
     MapChangesKeeps DEF Next, Loader
<1> QED
  BY <1>1, <1>2

\* The kernel finds the whole map in force at the start of its buffer, as long
\* as that has not grown past the size it is told: whatever the firmware does
\* to the map, and whether or not it tells the key when a buffer is too small.
THEOREM KernelGetsMapInForce == Spec => []MapInForce
<1>1. KeysInv /\ ReadInv => MapInForce
  BY DEF ReadInv, MapInForce
<1> QED
  BY <1>1, InitInv, StepsKeep, PTL DEF Spec

----------------------------------------------------------------------------
(* The graphics mode.                                                      *)

\* A set of numbers has a least one.
LEMMA Smallest ==
    ASSUME NEW S, S \subseteq Nat, S # {}
    PROVE  \E m \in S : \A k \in S : m <= k
<1> DEFINE R == OpToRel(<, Nat)
<1>1. IsWellFoundedOn(R, Nat)
  BY NatLessThanWellFounded
<1>2. \A x, y \in Nat : x < y => <<x, y>> \in R
  BY DEF OpToRel
<1> HIDE DEF R
<1>3. PICK m \in S : \A y \in S : ~(<<y, m>> \in R)
  BY <1>1, WFMin
<1>4. ASSUME NEW y \in S PROVE m <= y
  <2>1. m \in Nat /\ y \in Nat
    OBVIOUS
  <2>2. ~(y < m)
    BY <1>2, <1>3, <2>1
  <2>3. QED
    BY <2>1, <2>2
<1>5. QED
  BY <1>4

\* What holds of 0, and of each number after one it holds of, holds up to n.
LEMMA UpTo ==
    ASSUME NEW S, NEW n \in Nat, 0 \in S, \A k \in 0 .. n - 1 : k \in S => k + 1 \in S
    PROVE  \A k \in 0 .. n : k \in S
<1> DEFINE T == {k \in 0 .. n : k \notin S}
<1>1. ASSUME T # {} PROVE FALSE
  <2>1. T \subseteq Nat
    OBVIOUS
  <2>2. PICK m \in T : \A k \in T : m <= k
    BY <1>1, <2>1, Smallest
  <2>3. m \in 1 .. n /\ m - 1 \in 0 .. n - 1 /\ (m - 1) + 1 = m
    BY <2>2
  <2>4. m - 1 \in S
    BY <2>2, <2>3
  <2>5. QED
    BY <2>2, <2>3, <2>4
<1>2. QED
  BY <1>1

Start == [mode |-> mode, size |-> [w |-> 0, h |-> 0], found |-> FALSE]

Rounds(bad, n, b) ==
    b = [i \in 0 .. n |-> IF i = 0 THEN Start ELSE Consider(b[i - 1], i, bad)]

\* The loop over the modes, round by round.
LEMMA ChosenRounds ==
    ASSUME NEW bad, Len(modes) \in Nat
    PROVE  \E b : /\ b[0] = Start
                  /\ \A i \in 1 .. Len(modes) : b[i] = Consider(b[i - 1], i, bad)
                  /\ Chosen(bad) = b[Len(modes)].mode
<1>0. PICK L \in Nat : L = Len(modes)
  OBVIOUS
<1> DEFINE S == {n \in 0 .. L : \E b : Rounds(bad, n, b)}
<1>1. 0 \in S
  <2>1. Rounds(bad, 0, [i \in 0 .. 0 |-> Start])
    BY DEF Rounds
  <2>2. QED
    BY <2>1
<1>2. ASSUME NEW n \in 0 .. L - 1, n \in S PROVE n + 1 \in S
  <2>1. PICK b : Rounds(bad, n, b)
    BY <1>2
  <2> DEFINE t == [i \in 0 .. n + 1 |-> IF i <= n THEN b[i] ELSE Consider(b[n], n + 1, bad)]
  <2>2. ASSUME NEW i \in 0 .. n + 1
        PROVE  t[i] = IF i = 0 THEN Start ELSE Consider(t[i - 1], i, bad)
    <3>1. CASE i <= n
      BY <2>1, <3>1 DEF Rounds
    <3>2. CASE i = n + 1
      <4>1. t[i - 1] = b[n] /\ t[i] = Consider(b[n], i, bad)
        BY <3>2
      <4>2. QED
        BY <3>2, <4>1
    <3>3. QED
      BY <3>1, <3>2
  <2>3. Rounds(bad, n + 1, t)
    BY <2>2 DEF Rounds
  <2>4. QED
    BY <2>3
<1> HIDE DEF S
<1>3. L \in S
  BY <1>0, <1>1, <1>2, UpTo
<1> DEFINE b == CHOOSE b : Rounds(bad, L, b)
<1>4. Rounds(bad, L, b)
  BY <1>3 DEF S
<1>5. Chosen(bad) = b[L].mode
  BY <1>0 DEF Chosen, Rounds, Start
<1> HIDE DEF b
<1>6. b[0] = Start /\ \A i \in 1 .. L : b[i] = Consider(b[i - 1], i, bad)
  BY <1>0, <1>4 DEF Rounds
<1>7. QED
  BY <1>0, <1>5, <1>6

\* After a number of rounds: nothing large enough yet; the best of what was
\* seen, no target among it; or the first target.
Nothing(b, n, bad) ==
    /\ b = Start
    /\ \A j \in (1 .. n) \ bad : ~LargeEnough(modes[j])

Best(b, n, bad) ==
    /\ b.mode \in (1 .. n) \ bad /\ b.size = modes[b.mode] /\ b.found = FALSE
    /\ LargeEnough(modes[b.mode])
    /\ \A j \in (1 .. n) \ bad :
         /\ modes[j] # Target
         /\ LargeEnough(modes[j]) =>
              Larger(modes[b.mode], modes[j]) \/ (modes[b.mode] = modes[j] /\ b.mode <= j)

First(b, n, bad) ==
    /\ b.mode \in (1 .. n) \ bad /\ modes[b.mode] = Target /\ b.found = TRUE
    /\ \A j \in (1 .. b.mode - 1) \ bad : modes[j] # Target

SoFar(b, n, bad) == Nothing(b, n, bad) \/ Best(b, n, bad) \/ First(b, n, bad)

LEMMA ConsiderKeeps ==
    ASSUME modes \in Seq(Sizes), NEW bad, NEW n \in 0 .. Len(modes) - 1, NEW b, SoFar(b, n, bad)
    PROVE  SoFar(Consider(b, n + 1, bad), n + 1, bad)
<1> DEFINE i == n + 1
           m == modes[i]
<1>a. /\ i \in 1 .. Len(modes) /\ n \in Nat /\ 1 .. i = (1 .. n) \cup {i} /\ n < i /\ i \in 1 .. i
      /\ \A j \in 1 .. n : j \in Nat /\ j < i
  OBVIOUS
<1>b. \A j \in 1 .. i : modes[j] \in Sizes
  OBVIOUS
<1>c. \A s \in Sizes : s.w \in Nat /\ s.h \in Nat
  BY DEF Sizes
<1>d. ASSUME NEW s \in Sizes, NEW t \in Sizes, s.w = t.w, s.h = t.h PROVE s = t
  <2>1. s = [w |-> s.w, h |-> s.h] /\ t = [w |-> t.w, h |-> t.h]
    BY DEF Sizes
  <2>2. QED
    BY <1>d, <2>1
<1>e. LargeEnough(Target)
  BY DEF LargeEnough, Least, Target
<1> HIDE DEF i
<1>0. m \in Sizes /\ m.w \in Nat /\ m.h \in Nat
  BY <1>a, <1>b, <1>c
<1>1. CASE i \in bad
  <2>1. Consider(b, i, bad) = b /\ (1 .. i) \ bad = (1 .. n) \ bad
    BY <1>a, <1>1 DEF Consider
  <2>2. QED
    BY <2>1 DEF SoFar, Nothing, Best, First, i
<1>2. CASE i \notin bad /\ First(b, n, bad)
  <2>1. Consider(b, i, bad) = b
    BY <1>2 DEF Consider, First
  <2>2. QED
    BY <1>a, <1>2, <2>1 DEF SoFar, First, i
<1>3. CASE i \notin bad /\ (Nothing(b, n, bad) \/ Best(b, n, bad)) /\ m = Target
  <2>1. Consider(b, i, bad) = [mode |-> i, size |-> Target, found |-> TRUE]
    BY <1>3 DEF Consider, Nothing, Best, Start
  <2>2. \A j \in (1 .. n) \ bad : modes[j] # Target
    BY <1>e, <1>3 DEF Nothing, Best
  <2>3. 1 .. i - 1 = 1 .. n
    BY <1>a DEF i
  <2>4. First(Consider(b, i, bad), i, bad)
    BY <1>a, <1>3, <2>1, <2>2, <2>3 DEF First
  <2>5. QED
    BY <2>4 DEF SoFar, i
<1>4. CASE i \notin bad /\ Nothing(b, n, bad) /\ m # Target
  <2>1. CASE LargeEnough(m)
    <3>1. Larger(m, b.size)
      BY <1>0, <1>4, <2>1 DEF Nothing, Start, Larger, LargeEnough, Least
    <3>2. Consider(b, i, bad) = [mode |-> i, size |-> m, found |-> FALSE]
      BY <1>4, <2>1, <3>1 DEF Consider, Nothing, Start
    <3>3. \A j \in (1 .. i) \ bad : modes[j] # Target /\ (LargeEnough(modes[j]) => j = i)
      BY <1>a, <1>e, <1>4 DEF Nothing
    <3>4. Best(Consider(b, i, bad), i, bad)
      BY <1>a, <1>4, <2>1, <3>2, <3>3 DEF Best
    <3>5. QED
      BY <3>4 DEF SoFar, i
  <2>2. CASE ~LargeEnough(m)
    <3>1. Consider(b, i, bad) = b
      BY <1>4, <2>2 DEF Consider, Nothing, Start
    <3>2. Nothing(b, i, bad)
      BY <1>a, <1>4, <2>2 DEF Nothing
    <3>3. QED
      BY <3>1, <3>2 DEF SoFar, i
  <2>3. QED
    BY <2>1, <2>2
<1>5. CASE i \notin bad /\ Best(b, n, bad) /\ m # Target
  <2>0. b.mode \in 1 .. n /\ b.size \in Sizes /\ b.size = modes[b.mode] /\ ~b.found
    BY <1>a, <1>b, <1>5 DEF Best
  <2>1. CASE LargeEnough(m) /\ Larger(m, b.size)
    <3> DEFINE c == [b EXCEPT !.mode = i, !.size = m]
    <3>1. Consider(b, i, bad) = c
      BY <1>5, <2>0, <2>1 DEF Consider
    <3>2. c.mode = i /\ c.size = m /\ c.found = FALSE
      BY <1>5 DEF Best
    <3> HIDE DEF c
    <3>3. m.w > b.size.w \/ (m.w = b.size.w /\ m.h > b.size.h)
      BY <2>1 DEF Larger
    <3>4. ASSUME NEW j \in (1 .. i) \ bad, LargeEnough(modes[j])
          PROVE  Larger(m, modes[j]) \/ (m = modes[j] /\ i <= j)
      <4>1. CASE j = i
        BY <1>a, <4>1
      <4>2. CASE j # i
        <5>1. j \in (1 .. n) \ bad /\ modes[j] \in Sizes
          BY <1>a, <1>b, <4>2
        <5>2. Larger(b.size, modes[j]) \/ b.size = modes[j]
          BY <1>5, <2>0, <3>4, <5>1 DEF Best
        <5>3. /\ modes[j].w \in Nat /\ modes[j].h \in Nat
              /\ b.size.w \in Nat /\ b.size.h \in Nat
          BY <1>c, <2>0, <5>1
        <5>4. Larger(m, modes[j])
          BY <1>0, <3>3, <5>2, <5>3 DEF Larger
        <5>5. QED
          BY <5>4
      <4>3. QED
        BY <4>1, <4>2
    <3>5. \A j \in (1 .. i) \ bad : modes[j] # Target
      BY <1>a, <1>5 DEF Best
    <3>6. Best(c, i, bad)
      BY <1>a, <1>5, <2>1, <3>2, <3>4, <3>5 DEF Best
    <3>7. QED
      BY <3>1, <3>6 DEF SoFar, i
  <2>2. CASE ~(LargeEnough(m) /\ Larger(m, b.size))
    <3>1. Consider(b, i, bad) = b
      BY <1>5, <2>0, <2>2 DEF Consider
    <3>2. LargeEnough(m) => Larger(modes[b.mode], m) \/ (modes[b.mode] = m /\ b.mode <= i)
      <4>1. /\ b.size.w \in Nat /\ b.size.h \in Nat /\ b.mode <= i
            /\ b.size.w = m.w /\ b.size.h = m.h => b.size = m
        BY <1>0, <1>a, <1>c, <1>d, <2>0
      <4>2. QED
        BY <1>0, <2>0, <2>2, <4>1 DEF Larger
    <3>3. Best(b, i, bad)
      BY <1>a, <1>5, <3>2 DEF Best
    <3>4. QED
      BY <3>1, <3>3 DEF SoFar, i
  <2>3. QED
    BY <2>1, <2>2
<1>6. QED
  BY <1>1, <1>2, <1>3, <1>4, <1>5 DEF SoFar

\* The mode that is chosen is the best of those that are described.
Wanted(m, bad) ==
    LET usable == {i \in DOMAIN modes : i \notin bad /\ (modes[i] = Target \/ LargeEnough(modes[i]))}
    IN  IF usable = {} THEN m = mode
        ELSE m \in usable /\ \A j \in usable : Preferred(m, j)

LEMMA ChosenIsBest ==
    ASSUME modes \in Seq(Sizes), NEW bad
    PROVE  Wanted(Chosen(bad), bad)
<1>0. PICK L \in Nat : L = Len(modes)
  OBVIOUS
<1>1. PICK b : /\ b[0] = Start
               /\ \A i \in 1 .. L : b[i] = Consider(b[i - 1], i, bad)
               /\ Chosen(bad) = b[L].mode
  BY <1>0, ChosenRounds
<1> DEFINE S == {n \in 0 .. L : SoFar(b[n], n, bad)}
<1>2. 0 \in S
  BY <1>1 DEF SoFar, Nothing
<1>3. ASSUME NEW n \in 0 .. L - 1, n \in S PROVE n + 1 \in S
  <2>1. n + 1 \in 1 .. L /\ (n + 1) - 1 = n /\ n \in 0 .. Len(modes) - 1
    BY <1>0
  <2>2. b[n + 1] = Consider(b[n], n + 1, bad)
    BY <1>1, <2>1
  <2>3. QED
    BY <1>3, <2>1, <2>2, ConsiderKeeps
<1> HIDE DEF S
<1>4. L \in S
  BY <1>0, <1>2, <1>3, UpTo
<1>5. SoFar(b[L], L, bad)
  BY <1>4 DEF S
<1> DEFINE m == b[L].mode
           usable == {i \in DOMAIN modes : i \notin bad /\ (modes[i] = Target \/ LargeEnough(modes[i]))}
<1>6. DOMAIN modes = 1 .. L /\ LargeEnough(Target)
  BY <1>0 DEF LargeEnough, Least, Target
<1>7. CASE Nothing(b[L], L, bad)
  <2>1. usable = {} /\ m = mode
    BY <1>6, <1>7 DEF Nothing, Start
  <2>2. QED
    BY <1>1, <2>1 DEF Wanted
<1>8. CASE Best(b[L], L, bad)
  <2>1. m \in usable
    BY <1>6, <1>8 DEF Best
  <2>2. ASSUME NEW j \in usable PROVE Preferred(m, j)
    <3>1. j \in (1 .. L) \ bad /\ LargeEnough(modes[j])
      BY <1>6
    <3>2. QED
      BY <1>8, <3>1 DEF Best, Preferred
  <2>3. QED
    BY <1>1, <2>1, <2>2 DEF Wanted
<1>9. CASE First(b[L], L, bad)
  <2>1. m \in usable /\ modes[m] = Target /\ m \in 1 .. L
    BY <1>6, <1>9 DEF First
  <2>2. ASSUME NEW j \in usable, modes[j] = Target, ~(m <= j) PROVE FALSE
    <3>1. j \in (1 .. m - 1) \ bad
      BY <1>6, <2>1, <2>2
    <3>2. QED
      BY <1>9, <2>2, <3>1 DEF First
  <2>3. \A j \in usable : Preferred(m, j)
    BY <2>1, <2>2 DEF Preferred
  <2>4. QED
    BY <1>1, <2>1, <2>3 DEF Wanted
<1>10. QED
  BY <1>5, <1>7, <1>8, <1>9 DEF SoFar

\* The mode in force, or VGA's.
InForce == {Vga} \cup (IF mode = 0 THEN {} ELSE {modes[mode]})

\* Where the loader is, and what it has made of the modes.
ModeInv ==
    /\ modes \in Seq(Sizes) /\ mode \in 0 .. Len(modes)
    /\ pc \in {"load", "place", "params"} => best_mode = 0
    /\ pc \in {"choose", "set"} => mode \in DOMAIN modes
    /\ pc = "set" => best_mode \in DOMAIN modes /\ Wanted(best_mode, refused)
    /\ pc = "describe" => best_mode = mode
    /\ pc \in {"allocate", "size", "get", "exit"} => screen \in InForce
    /\ pc = "kernel" => screen \in {Doubled(size) : size \in InForce}

LEMMA WantedIsMode ==
    ASSUME NEW m, NEW bad, Wanted(m, bad), mode \in DOMAIN modes
    PROVE  m \in DOMAIN modes
BY DEF Wanted

LEMMA InitMode == Init => ModeInv
<1> SUFFICES ASSUME Init PROVE ModeInv
  OBVIOUS
<1>1. CASE modes \in ModeLists /\ mode \in DOMAIN modes
  BY <1>1, BootAssumption DEF Init, ModeInv
<1>2. CASE modes = <<>> /\ mode = 0
  BY <1>2 DEF Init, ModeInv
<1>3. QED
  BY <1>1, <1>2 DEF Init

LEMMA ChooseKeepsMode == ModeInv /\ ChooseMode => ModeInv'
<1> SUFFICES ASSUME ModeInv, ChooseMode PROVE ModeInv'
  OBVIOUS
<1>1. /\ pc = "choose" /\ pc' = "set" /\ UNCHANGED <<modes, mode, screen>>
      /\ modes \in Seq(Sizes) /\ mode \in DOMAIN modes /\ mode \in 0 .. Len(modes)
  BY DEF ChooseMode, Go, ModeInv
<1>2. PICK bad, m : refused' = bad /\ best_mode' = m /\ m = Chosen(bad)
  BY DEF ChooseMode
<1>3. Wanted(m, bad)
  BY <1>1, <1>2, ChosenIsBest
<1>4. m \in DOMAIN modes
  BY <1>1, <1>3, WantedIsMode
<1>5. Wanted(best_mode, refused)'
  BY <1>1, <1>2, <1>3 DEF Wanted, Preferred
<1>6. QED
  BY <1>1, <1>2, <1>4, <1>5 DEF ModeInv

LEMMA SetKeepsMode == ModeInv /\ SetMode => ModeInv'
<1> SUFFICES ASSUME ModeInv, SetMode PROVE ModeInv'
  OBVIOUS
<1>1. /\ pc' = "describe" /\ UNCHANGED modes /\ modes \in Seq(Sizes) /\ Len(modes) \in Nat
      /\ mode \in DOMAIN modes /\ best_mode \in DOMAIN modes /\ DOMAIN modes = 1 .. Len(modes)
  BY DEF SetMode, Go, ModeInv
<1>2. mode' = best_mode' /\ mode' \in DOMAIN modes
  BY <1>1 DEF SetMode
<1>3. QED
  BY <1>1, <1>2 DEF ModeInv

\* AllocatePool leaves the mode in force, and what was told of it.
LEMMA AllocMapKeepsMode == ModeInv /\ AllocMap => ModeInv'
<1> SUFFICES ASSUME ModeInv, AllocMap PROVE ModeInv'
  OBVIOUS
<1>1. /\ pc = "allocate" /\ pc' \in {"size", "returned"} /\ UNCHANGED screen
      /\ screen \in InForce /\ modes \in Seq(Sizes) /\ mode \in 0 .. Len(modes)
  BY DEF AllocMap, ModeInv
<1>2. modes' = [i \in 1 .. (IF mode = 0 THEN 0 ELSE 1) |-> modes[mode]] /\ mode' = Len(modes')
  BY DEF AllocMap
<1>3. CASE mode = 0
  <2>1. modes' = <<>> /\ mode' = 0
    BY <1>2, <1>3
  <2>2. modes' \in Seq(Sizes) /\ InForce' = InForce
    BY <1>3, <2>1 DEF InForce
  <2>3. QED
    BY <1>1, <2>1, <2>2 DEF ModeInv
<1>4. CASE mode # 0
  <2>1. modes[mode] \in Sizes
    BY <1>1, <1>4
  <2>2. modes' \in Seq(Sizes) /\ Len(modes') = 1 /\ mode' = 1 /\ modes'[1] = modes[mode]
    BY <1>2, <1>4, <2>1
  <2>3. InForce' = InForce
    BY <1>4, <2>2 DEF InForce
  <2>4. QED
    BY <1>1, <2>2, <2>3 DEF ModeInv
<1>5. QED
  BY <1>3, <1>4

LEMMA ExitKeepsMode == ModeInv /\ Exit => ModeInv'
<1> SUFFICES ASSUME ModeInv, Exit PROVE ModeInv'
  OBVIOUS
<1>1. /\ pc = "exit" /\ screen \in InForce /\ UNCHANGED <<modes, mode, best_mode, refused>>
      /\ \/ pc' = "kernel" /\ screen' = Doubled(screen)
         \/ pc' = "get" /\ screen' = screen
  BY DEF Exit, ModeInv
<1>2. InForce' = InForce
  BY <1>1 DEF InForce
<1>3. QED
  BY <1>1, <1>2 DEF ModeInv

LEMMA OthersKeepMode ==
    ASSUME ModeInv,
           \/ LoadFile \/ LoadFileFails \/ PlaceKernel \/ PlaceFails \/ AllocParams \/ DescribeMode
           \/ AskSize \/ AskSizeFails \/ GetMap \/ GetMapOverwrites \/ MapChanges
           \/ UNCHANGED vars
    PROVE  ModeInv'
<1>1. CASE LoadFile \/ LoadFileFails \/ PlaceKernel \/ PlaceFails
  BY <1>1 DEF LoadFile, LoadFileFails, PlaceKernel, PlaceFails, Go, gop, ModeInv
<1>2. CASE AllocParams
  BY <1>2 DEF AllocParams, gop, ModeInv
<1>3. CASE DescribeMode
  BY <1>3 DEF DescribeMode, Go, ModeInv, InForce
<1>4. CASE AskSize \/ AskSizeFails \/ GetMap \/ GetMapOverwrites
  BY <1>4 DEF AskSize, AskSizeFails, GetMap, GetMapOverwrites, Go, gop, ModeInv, InForce
<1>5. CASE MapChanges
  BY <1>5 DEF MapChanges, gop, ModeInv, InForce
<1>6. CASE UNCHANGED vars
  BY <1>6 DEF vars, gop, ModeInv, InForce, Wanted, Preferred
<1>7. QED
  BY <1>1, <1>2, <1>3, <1>4, <1>5, <1>6

\* For every list of graphics modes, whichever of them the firmware does not
\* describe: the loop of boot_kernel picks 1920 by 1080 if it is there, or else
\* the widest mode that is large enough and of these the highest, or leaves the
\* mode as it was; and the kernel that is entered is told the width of the mode
\* in force and twice its rows, or the same of VGA.
THEOREM BestModeChosen == Spec => []BestMode
<1>1. ModeInv => BestMode
  BY DEF ModeInv, BestMode, Wanted, Usable, InForce
<1>2. ModeInv /\ [Next]_vars => ModeInv'
  BY ChooseKeepsMode, SetKeepsMode, AllocMapKeepsMode, ExitKeepsMode, OthersKeepMode
  DEF Next, Loader
<1>3. QED
  BY <1>1, <1>2, InitMode, PTL DEF Spec

=============================================================================
