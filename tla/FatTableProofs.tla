--------------------------- MODULE FatTableProofs ---------------------------
(* What FatTable keeps for volumes and directories of every size, every     *)
(* sequence of calls and every failure, checked by TLAPS.                   *)
EXTENDS FatTable, TLAPS, FiniteSetTheorems, WellFoundedInduction

----------------------------------------------------------------------------
(* Types.                                                                  *)

\* The cluster numbers, and the marks that are none of them.
LEMMA Numbers ==
    /\ Clusters \subseteq Int /\ Root \in Clusters
    /\ FREE \notin Clusters /\ BAD \notin Clusters /\ LAST \notin Clusters
    /\ Vacant \notin Clusters
    /\ FREE # LAST /\ FREE # BAD /\ BAD # LAST
BY FatAssumption DEF Clusters, Root, FREE, BAD, LAST, Vacant

LEMMA IdleType == Idle \in OpType
BY Numbers, FatAssumption DEF Idle, OpType, Thens, Values

\* A table write about to begin, field by field.
LEMMA WriteFields ==
    ASSUME NEW c \in Clusters, NEW v \in Values, NEW t \in Thens, NEW n \in Values
    PROVE  /\ Write(c, v, t, n) \in OpType
           /\ Write(c, v, t, n).at = "fat1" /\ Write(c, v, t, n).c = c
           /\ Write(c, v, t, n).v = v /\ Write(c, v, t, n).then = t
           /\ Write(c, v, t, n).next = n /\ Write(c, v, t, n).slot = 0
BY IdleType DEF Write, Idle, OpType

LEMMA WriteForFields ==
    ASSUME NEW c \in Clusters, NEW v \in Values, NEW t \in Thens, NEW n \in Values,
           NEW h \in Handles \cup {NoHandle}
    PROVE  /\ WriteFor(h, c, v, t, n) \in OpType
           /\ WriteFor(h, c, v, t, n).at = "fat1"
           /\ WriteFor(h, c, v, t, n).c = c
           /\ WriteFor(h, c, v, t, n).v = v
           /\ WriteFor(h, c, v, t, n).then = t
           /\ WriteFor(h, c, v, t, n).next = n
           /\ WriteFor(h, c, v, t, n).slot = 0
BY WriteFields DEF WriteFor, OpType

LEMMA ThenNames ==
    /\ "done" \in Thens /\ "entry" \in Thens /\ "tail" \in Thens
    /\ "advance" \in Thens /\ "cut" \in Thens /\ "free" \in Thens
BY DEF Thens

\* A chain about to be freed.
LEMMA FreeFields ==
    ASSUME NEW c \in Clusters, NEW s \in 0 .. Slots, fat1 \in [Clusters -> Values]
    PROVE  /\ FreeFrom(c, s) \in OpType
           /\ FreeFrom(c, s).at = "fat1" /\ FreeFrom(c, s).c = c
           /\ FreeFrom(c, s).v = FREE /\ FreeFrom(c, s).then = "free"
           /\ FreeFrom(c, s).next = fat1[c] /\ FreeFrom(c, s).slot = s
<1>1. FREE \in Values /\ "free" \in Thens /\ fat1[c] \in Values
  BY DEF Values, Thens
<1>2. QED
  BY <1>1, WriteFields DEF FreeFrom, OpType

\* The entry of a freed chain about to be removed, or nothing more to do.
LEMMA FreedFields ==
    ASSUME NEW s \in 0 .. Slots
    PROVE  /\ Freed(s) \in OpType
           /\ Freed(s).at \in {"idle", "unentry"} /\ Freed(s).then = "done"
           /\ Freed(s).slot = s
           /\ IF s = 0 THEN Freed(s) = Idle ELSE Freed(s).at = "unentry"
BY IdleType DEF Freed, Idle, OpType

\* The step every operation's table write is followed by: its six outcomes.
LEMMA ContinueCases ==
    ASSUME DiskTypeOK, op.at = "fat2"
    PROVE  /\ Continue \in OpType
           /\ \/ op.then = "entry" /\ Continue = [op EXCEPT !.at = "entry"]
              \/ /\ op.then = "tail" /\ op.next \in Clusters
                 /\ Continue = WriteFor(op.h, op.next, LAST, "advance", LAST)
              \/ /\ op.then = "cut" /\ op.next \in Clusters
                 /\ Continue = FreeFrom(op.next, 0)
              \/ /\ op.then = "free" /\ op.next \in Clusters
                 /\ Continue = FreeFrom(op.next, op.slot)
              \/ /\ op.then = "free" /\ op.next \in {LAST, FREE}
                 /\ Continue = Freed(op.slot)
              \/ /\ ~(op.then = "free" /\ op.next # BAD)
                 /\ ~(op.then \in {"tail", "cut"} /\ op.next \in Clusters)
                 /\ op.then # "entry"
                 /\ Continue = Idle
<1> USE DEF DiskTypeOK
<1>0. /\ op.c \in Clusters /\ op.next \in Values /\ op.slot \in 0 .. Slots
      /\ op.h \in Handles \cup {NoHandle} /\ op.then \in Thens
      /\ LAST \in Values /\ "advance" \in Thens /\ 0 \in 0 .. Slots
  BY FatAssumption DEF OpType, Values, Thens
<1>1. CASE op.then = "entry"
  <2>1. Continue = [op EXCEPT !.at = "entry"]
    BY <1>1 DEF Continue
  <2>2. [op EXCEPT !.at = "entry"] \in OpType
    BY DEF OpType
  <2>3. QED
    BY <1>1, <2>1, <2>2
<1>2. CASE op.then = "tail" /\ op.next \in Clusters
  <2>1. Continue = WriteFor(op.h, op.next, LAST, "advance", LAST)
    BY <1>2 DEF Continue
  <2>2. QED
    BY <1>0, <1>2, <2>1, WriteForFields
<1>3. CASE op.then = "cut" /\ op.next \in Clusters
  <2>1. Continue = FreeFrom(op.next, 0)
    BY <1>3 DEF Continue
  <2>2. QED
    BY <1>0, <1>3, <2>1, FreeFields
<1>4. CASE op.then = "free" /\ op.next \in Clusters
  <2>1. Continue = FreeFrom(op.next, op.slot)
    BY <1>4, Numbers DEF Continue
  <2>2. QED
    BY <1>0, <1>4, <2>1, FreeFields
<1>5. CASE op.then = "free" /\ op.next \in {LAST, FREE}
  <2>1. Continue = Freed(op.slot)
    BY <1>5, Numbers DEF Continue
  <2>2. QED
    BY <1>0, <1>5, <2>1, FreedFields
<1>6. CASE /\ op.then # "entry"
           /\ ~(op.then \in {"tail", "cut", "free"} /\ op.next \in Clusters)
           /\ ~(op.then = "free" /\ op.next \in {LAST, FREE})
  <2>1. Continue = Idle
    BY <1>6 DEF Continue
  <2>2. ~(op.then = "free" /\ op.next # BAD)
    BY <1>0, <1>6 DEF Values
  <2>3. QED
    BY <1>6, <2>1, <2>2, IdleType
<1>7. QED
  BY <1>1, <1>2, <1>3, <1>4, <1>5, <1>6

\* What a request may leave in op: nothing, or a table write about to begin.
LEMMA RequestCases ==
    ASSUME DiskTypeOK, Request
    PROVE  /\ op = Idle /\ UNCHANGED disk
           /\ \/ op' = Idle
              \/ \E h \in Handles \cup {NoHandle}, c \in FreeClusters :
                    op' = WriteFor(h, c, LAST, "entry", LAST)
              \/ \E s \in Live : op' = FreeFrom(dir[s], s)
              \/ \E h \in Handles, x \in Clusters, c \in FreeClusters \cup {BAD} :
                    fat1[x] = LAST /\ op' = WriteFor(h, x, c, "tail", c)
              \/ \E c \in Clusters : op' = Write(c, LAST, "cut", fat1[c])
<1>1. ASSUME NEW h \in Handles \cup {NoHandle}, Create(h)
      PROVE  /\ op = Idle /\ UNCHANGED disk
             /\ \E c \in FreeClusters : op' = WriteFor(h, c, LAST, "entry", LAST)
  BY <1>1 DEF Create, Found
<1>2. ASSUME NEW s \in 1 .. Slots, Delete(s)
      PROVE  op = Idle /\ UNCHANGED disk /\ s \in Live /\ op' = FreeFrom(dir[s], s)
  BY <1>2 DEF Delete
<1>3. ASSUME NEW h \in Handles, WriteOn(h)
      PROVE  /\ op = Idle /\ UNCHANGED disk
             /\ \/ op' = Idle
                \/ \E x \in Clusters, c \in FreeClusters \cup {BAD} :
                      fat1[x] = LAST /\ op' = WriteFor(h, x, c, "tail", c)
  <2>1. CASE ReadFat(handle[h].current) = LAST
    <3>1. handle[h].current \in Clusters /\ fat1[handle[h].current] = LAST
      BY <2>1, Numbers DEF ReadFat
    <3>2. QED
      BY <1>3, <2>1, <3>1 DEF WriteOn, Found
  <2>2. CASE ReadFat(handle[h].current) # LAST
    BY <1>3, <2>2 DEF WriteOn
  <2>3. QED
    BY <2>1, <2>2
<1>4. ASSUME NEW h \in Handles, NEW k \in 1 .. MaxHops, Truncate(h, k)
      PROVE  /\ op = Idle /\ UNCHANGED disk
             /\ \E c \in Clusters : op' = Write(c, LAST, "cut", fat1[c])
  <2>1. PICK c \in Clusters : c = Walk(handle[h].head, k - 1)
                              /\ op' = Write(c, LAST, "cut", ReadFat(c))
    BY <1>4 DEF Truncate
  <2>2. ReadFat(c) = fat1[c]
    BY DEF ReadFat
  <2>3. QED
    BY <1>4, <2>1, <2>2 DEF Truncate
<1>5. ASSUME NEW h \in Handles,
             \/ \E s \in 1 .. Slots : Open(h, s)
             \/ Close(h) \/ ReadOn(h)
             \/ \E k \in 1 .. MaxHops : Seek(h, k)
      PROVE  op = Idle /\ UNCHANGED disk /\ op' = Idle
  BY <1>5 DEF Open, Close, ReadOn, Seek
<1>6. QED
  BY <1>1, <1>2, <1>3, <1>4, <1>5 DEF Request

\* What a failed read may do to the operation in progress.
LEMMA ReadFailsCases ==
    ASSUME ReadFails
    PROVE  \/ UNCHANGED op
           \/ op' = [op EXCEPT !.next = BAD]
           \/ \E c \in FreeClusters : op' = WriteFor(op.h, c, LAST, "entry", LAST)
           \/ \E c \in (FreeClusters \ {op.c}) \cup {BAD} :
                 op' = WriteFor(op.h, op.c, c, "tail", c)
BY DEF ReadFails

\* The tables, the directory and the operation in progress stay what they
\* are: table entries are clusters or marks, whatever fails.
THEOREM DiskTypeCorrect == Spec => []DiskTypeOK
<1>1. Init => DiskTypeOK
  BY Numbers, IdleType DEF Init, DiskTypeOK, Values
<1>2. DiskTypeOK /\ [Next]_vars => DiskTypeOK'
  <2> SUFFICES ASSUME DiskTypeOK, [Next]_vars
               PROVE  DiskTypeOK'
    OBVIOUS
  <2> USE DEF DiskTypeOK
  <2>0. /\ op.c \in Clusters /\ op.v \in Values /\ op.next \in Values
        /\ op.slot \in 0 .. Slots /\ op.then \in Thens
        /\ LAST \in Values /\ BAD \in Values /\ FREE \in Values
        /\ Clusters \subseteq Values /\ 0 \in 0 .. Slots
    BY FatAssumption DEF OpType, Values
  <2>1. CASE WriteFat1
    <3>1. op' \in OpType
      BY <2>1 DEF WriteFat1, OpType
    <3>2. fat1' \in [Clusters -> Values]
      BY <2>0, <2>1 DEF WriteFat1
    <3>3. QED
      BY <2>1, <3>1, <3>2 DEF WriteFat1
  <2>2. CASE WriteFat2
    BY <2>2, ContinueCases DEF WriteFat2
  <2>3. CASE AddEntry
    <3>1. FreeFrom(op.c, 0) \in OpType
      BY <2>0, FreeFields
    <3>2. QED
      BY <2>0, <2>3, <3>1, IdleType DEF AddEntry
  <2>4. CASE RemoveEntry
    BY <2>4, IdleType DEF RemoveEntry
  <2>5. CASE Request
    <3>1. ASSUME NEW h \in Handles \cup {NoHandle}, NEW c \in FreeClusters
          PROVE  WriteFor(h, c, LAST, "entry", LAST) \in OpType
      BY <2>0, WriteForFields DEF FreeClusters, Thens
    <3>2. ASSUME NEW s \in Live
          PROVE  FreeFrom(dir[s], s) \in OpType
      <4>1. s \in 0 .. Slots /\ dir[s] \in Clusters
        BY FatAssumption DEF Live
      <4>2. QED
        BY <4>1, FreeFields
    <3>3. ASSUME NEW h \in Handles, NEW x \in Clusters, NEW c \in FreeClusters \cup {BAD}
          PROVE  WriteFor(h, x, c, "tail", c) \in OpType
      <4>1. c \in Values /\ h \in Handles \cup {NoHandle}
        BY <2>0 DEF FreeClusters
      <4>2. QED
        BY <4>1, WriteForFields, ThenNames
    <3>4. ASSUME NEW c \in Clusters
          PROVE  Write(c, LAST, "cut", fat1[c]) \in OpType
      BY <2>0, WriteFields DEF Thens
    <3>5. QED
      BY <2>5, <3>1, <3>2, <3>3, <3>4, RequestCases, IdleType DEF disk
  <2>6. CASE WriteFails
    <3>1. FreeFrom(op.c, 0) \in OpType
      BY <2>0, FreeFields
    <3>2. QED
      BY <2>6, <3>1, IdleType DEF WriteFails, disk
  <2>7. CASE ReadFails
    <3>1. ASSUME NEW c \in FreeClusters \cup {BAD}
          PROVE  /\ WriteFor(op.h, op.c, c, "tail", c) \in OpType
                 /\ c # BAD => WriteFor(op.h, c, LAST, "entry", LAST) \in OpType
      BY <2>0, WriteForFields, ThenNames DEF FreeClusters, OpType
    <3>2. op' \in OpType
      BY <2>0, <2>7, <3>1, ReadFailsCases, Numbers DEF OpType, FreeClusters
    <3>3. QED
      BY <2>7, <3>2 DEF ReadFails, disk
  <2>8. CASE Crash
    BY <2>8, IdleType DEF Crash, disk
  <2>9. CASE UNCHANGED vars
    BY <2>9 DEF vars
  <2>10. QED
    BY <2>1, <2>2, <2>3, <2>4, <2>5, <2>6, <2>7, <2>8, <2>9 DEF Next, Progress
<1>3. QED
  BY <1>1, <1>2, PTL DEF Spec

----------------------------------------------------------------------------
(* No circles.                                                             *)

\* The strengthening: a table entry is only ever made to point to a cluster
\* that is free, hence points nowhere.
PointsToFree ==
    op.at = "fat1" /\ op.v \in Clusters => fat1[op.v] = FREE /\ op.v # op.c

LEMMA PointsToFreeHolds == Spec => []PointsToFree
<1>1. Init => PointsToFree
  BY DEF Init, PointsToFree, Idle
<1>2. DiskTypeOK /\ PointsToFree /\ [Next]_vars => PointsToFree'
  <2> SUFFICES ASSUME DiskTypeOK, PointsToFree, [Next]_vars, op'.at = "fat1", op'.v \in Clusters
               PROVE  fat1'[op'.v] = FREE /\ op'.v # op'.c
    BY DEF PointsToFree
  <2> USE DEF DiskTypeOK
  <2>0. /\ op.c \in Clusters /\ op.next \in Values /\ op.slot \in 0 .. Slots
        /\ op.h \in Handles \cup {NoHandle} /\ 0 \in 0 .. Slots
        /\ LAST \in Values /\ Idle.at = "idle"
    BY FatAssumption DEF OpType, Values, Idle
  <2>1. CASE WriteFat1
    BY <2>1 DEF WriteFat1, OpType
  <2>2. CASE WriteFat2
    <3>1. ASSUME op.next \in Clusters
          PROVE  /\ WriteFor(op.h, op.next, LAST, "advance", LAST).v = LAST
                 /\ FreeFrom(op.next, 0).v = FREE
                 /\ FreeFrom(op.next, op.slot).v = FREE
      <4>1. WriteFor(op.h, op.next, LAST, "advance", LAST).v = LAST
        BY <2>0, <3>1, WriteForFields, ThenNames
      <4>2. FreeFrom(op.next, 0).v = FREE /\ FreeFrom(op.next, op.slot).v = FREE
        BY <2>0, <3>1, FreeFields
      <4>3. QED
        BY <4>1, <4>2
    <3>2. Freed(op.slot).at # "fat1"
      BY <2>0, FreedFields
    <3>3. [op EXCEPT !.at = "entry"].at # "fat1"
      BY DEF OpType
    <3>4. op' = Continue /\ op.at = "fat2"
      BY <2>2 DEF WriteFat2
    <3>5. QED
      BY <2>0, <3>1, <3>2, <3>3, <3>4, Numbers, ContinueCases
  <2>3. CASE AddEntry
    <3>1. FreeFrom(op.c, 0).v = FREE
      BY <2>0, FreeFields
    <3>2. QED
      BY <2>0, <2>3, <3>1, Numbers DEF AddEntry
  <2>4. CASE RemoveEntry
    BY <2>0, <2>4 DEF RemoveEntry
  <2>5. CASE Request
    <3>1. ASSUME NEW h \in Handles \cup {NoHandle}, NEW c \in FreeClusters
          PROVE  WriteFor(h, c, LAST, "entry", LAST).v = LAST
      BY <2>0, WriteForFields DEF FreeClusters, Thens
    <3>2. ASSUME NEW s \in Live
          PROVE  FreeFrom(dir[s], s).v = FREE
      <4>1. s \in 0 .. Slots /\ dir[s] \in Clusters
        BY FatAssumption DEF Live
      <4>2. QED
        BY <4>1, FreeFields
    <3>3. ASSUME NEW h \in Handles, NEW x \in Clusters, NEW c \in FreeClusters \cup {BAD},
                 fat1[x] = LAST
          PROVE  /\ WriteFor(h, x, c, "tail", c).v = c
                 /\ WriteFor(h, x, c, "tail", c).c = x
                 /\ c \in Clusters => fat1[c] = FREE /\ c # x
      BY <3>3, Numbers, WriteForFields DEF FreeClusters, Thens, Values
    <3>4. ASSUME NEW c \in Clusters
          PROVE  Write(c, LAST, "cut", fat1[c]).v = LAST
      BY <2>0, WriteFields DEF Thens
    <3>5. UNCHANGED fat1
      BY <2>5, RequestCases DEF disk
    <3>6. QED
      BY <2>0, <2>5, <3>1, <3>2, <3>3, <3>4, <3>5, RequestCases, Numbers
  <2>6. CASE WriteFails
    <3>1. FreeFrom(op.c, 0).v = FREE
      BY <2>0, FreeFields
    <3>2. QED
      BY <2>0, <2>6, <3>1, Numbers DEF WriteFails
  <2>7. CASE ReadFails
    <3>1. CASE op' = [op EXCEPT !.next = BAD]
      BY <2>7, <3>1 DEF ReadFails, disk, OpType, PointsToFree
    <3>2. CASE UNCHANGED op
      BY <2>7, <3>2 DEF ReadFails, disk, PointsToFree
    <3>3. ASSUME NEW c \in FreeClusters, op' = WriteFor(op.h, c, LAST, "entry", LAST)
          PROVE  op'.v = LAST
      <4>1. c \in Clusters
        BY DEF FreeClusters
      <4>2. WriteFor(op.h, c, LAST, "entry", LAST).v = LAST
        BY <2>0, <4>1, WriteForFields, ThenNames
      <4>3. QED
        BY <3>3, <4>2
    <3>4. ASSUME NEW c \in (FreeClusters \ {op.c}) \cup {BAD},
                 op' = WriteFor(op.h, op.c, c, "tail", c)
          PROVE  fat1'[op'.v] = FREE /\ op'.v # op'.c
      <4>1. /\ c \in Values /\ op.c \in Clusters /\ "tail" \in Thens
            /\ op.h \in Handles \cup {NoHandle}
        BY <2>0, ThenNames DEF FreeClusters, Values
      <4>2. /\ WriteFor(op.h, op.c, c, "tail", c).v = c
            /\ WriteFor(op.h, op.c, c, "tail", c).c = op.c
        BY <4>1, WriteForFields
      <4>3. fat1' = fat1
        BY <2>7 DEF ReadFails, disk
      <4>4. QED
        BY <3>4, <4>2, <4>3, Numbers DEF FreeClusters
    <3>5. QED
      BY <2>7, <3>1, <3>2, <3>3, <3>4, ReadFailsCases, Numbers
  <2>8. CASE Crash
    BY <2>0, <2>8 DEF Crash
  <2>9. CASE UNCHANGED vars
    BY <2>9 DEF vars, PointsToFree
  <2>10. QED
    BY <2>1, <2>2, <2>3, <2>4, <2>5, <2>6, <2>7, <2>8, <2>9 DEF Next, Progress
<1>3. QED
  BY <1>1, <1>2, DiskTypeCorrect, PTL DEF Spec

\* However many transfers fail and wherever the machine stops, no chain of the
\* table ever closes on itself: the loops that follow chains end.
THEOREM ChainsEnd == Spec => []NoCycle
<1>1. Init => NoCycle
  <2> SUFFICES ASSUME Init, NEW S \in SUBSET Clusters, NEW c \in S
               PROVE  fat1[c] \notin S
    BY DEF NoCycle
  <2>1. fat1[c] \in {LAST, FREE}
    BY DEF Init
  <2>2. QED
    BY <2>1, Numbers
<1>2. DiskTypeOK /\ PointsToFree /\ NoCycle /\ [Next]_vars => NoCycle'
  <2> SUFFICES ASSUME DiskTypeOK, PointsToFree, NoCycle, [Next]_vars,
                      NEW S \in SUBSET Clusters, S # {}
               PROVE  \E c \in S : fat1'[c] \notin S
    BY DEF NoCycle
  <2>1. PICK c \in S : fat1[c] \notin S
    BY DEF NoCycle
  <2>2. CASE UNCHANGED fat1
    BY <2>1, <2>2
  <2>3. CASE WriteFat1
    <3>1. /\ op.c \in Clusters /\ op.v \in Values
          /\ fat1' = [fat1 EXCEPT ![op.c] = op.v]
      BY <2>3 DEF WriteFat1, DiskTypeOK, OpType
    <3>2. \A d \in Clusters : fat1'[d] = IF d = op.c THEN op.v ELSE fat1[d]
      BY <3>1 DEF DiskTypeOK
    <3>3. CASE op.v \notin S
      BY <2>1, <3>2, <3>3
    <3>4. CASE op.v \in S
      <4>1. fat1[op.v] = FREE /\ op.v # op.c
        BY <2>3, <3>4 DEF PointsToFree, WriteFat1
      <4>2. fat1'[op.v] \notin S
        BY <3>2, <3>4, <4>1, Numbers
      <4>3. QED
        BY <3>4, <4>2
    <3>5. QED
      BY <3>3, <3>4
  <2>4. QED
    <3>1. CASE Request
      BY <2>2, <3>1, RequestCases DEF disk
    <3>2. CASE WriteFat2 \/ AddEntry \/ RemoveEntry
      BY <2>2, <3>2 DEF WriteFat2, AddEntry, RemoveEntry
    <3>3. CASE WriteFails \/ ReadFails \/ Crash
      BY <2>2, <3>3 DEF WriteFails, ReadFails, Crash, disk
    <3>4. CASE UNCHANGED vars
      BY <2>2, <3>4 DEF vars
    <3>5. QED
      BY <2>3, <3>1, <3>2, <3>3, <3>4 DEF Next, Progress
<1>3. QED
  BY <1>1, <1>2, DiskTypeCorrect, PointsToFreeHolds, PTL DEF Spec

----------------------------------------------------------------------------
(* No cluster referred to twice.                                           *)

\* Nothing refers to t: neither the root's number, nor a link, nor an entry.
Unref(t) ==
    /\ t # Root
    /\ \A a \in Clusters : fat1[a] # t
    /\ \A s \in 1 .. Slots : dir[s] # t

\* Links and entries all refer to different clusters.
NoShare ==
    /\ \A a, b \in Clusters : fat1[a] \in Clusters /\ fat1[a] = fat1[b] => a = b
    /\ \A s, t \in 1 .. Slots : dir[s] \in Clusters /\ dir[s] = dir[t] => s = t
    /\ \A a \in Clusters, s \in 1 .. Slots : fat1[a] \in Clusters => fat1[a] # dir[s]
    /\ \A a \in Clusters : fat1[a] # Root
    /\ \A s \in 1 .. Slots : dir[s] # Root
    /\ fat1[Root] # FREE

\* A free cluster is referred to by nothing, but for the link that is made
\* before its cluster is marked, and for the entry of a chain being freed.
FreeIsUnref ==
    \A c \in Clusters : fat1[c] = FREE =>
        /\ \A a \in Clusters : fat1[a] = c =>
              \/ op.then = "tail" /\ op.at = "fat2" /\ op.next = c
              \/ op.then = "advance" /\ op.at = "fat1" /\ op.c = c
        /\ \A s \in 1 .. Slots : dir[s] = c => s = op.slot

\* What each operation in progress has done and not done yet.
Tables == {"fat1", "fat2"}
OpStage ==
    /\ op.at = "fat2" => fat1[op.c] = op.v
    /\ op.at \in {"idle", "unentry"} => op.then = "done"
    /\ op.at \in Tables => op.then # "done"
    /\ op.at = "idle" => op = Idle
    /\ op.at = "entry" => op.then = "entry" /\ fat1[op.c] = LAST
    /\ op.slot # 0 => op.then = "free" \/ op.at = "unentry"
    /\ op.then = "entry" => op.v = LAST /\ Unref(op.c)
    /\ op.then = "tail" =>
          /\ op.at \in Tables
          /\ op.v = op.next /\ op.v \in Clusters \cup {BAD}
          /\ op.at = "fat1" => fat1[op.c] = LAST
          /\ op.at = "fat1" /\ op.next \in Clusters => fat1[op.next] = FREE /\ Unref(op.next)
    /\ op.then = "advance" => op.at \in Tables /\ op.v = LAST
    /\ op.then = "cut" =>
          /\ op.at \in Tables
          /\ op.v = LAST
          /\ op.at = "fat1" => op.next = fat1[op.c]
          /\ op.at = "fat2" /\ op.next \in Clusters => Unref(op.next)
    /\ op.then = "free" =>
          /\ op.at \in Tables
          /\ op.v = FREE /\ op.c # Root /\ op.next # BAD
          /\ \A a \in Clusters : fat1[a] # op.c
          /\ \A s \in 1 .. Slots : dir[s] = op.c => s = op.slot
          /\ op.at = "fat1" => op.next = fat1[op.c]
          /\ op.at = "fat2" /\ op.next \in Clusters => Unref(op.next)

\* The inductive invariant.  Full volumes show as the value BAD being written.
NoBad == \A a \in Clusters : fat1[a] # BAD
RefsInv == Calm => NoShare /\ FreeIsUnref /\ OpStage /\ NoBad

LEMMA RefsInvInit == Init => RefsInv
<1> SUFFICES ASSUME Init
             PROVE  NoShare /\ FreeIsUnref /\ OpStage /\ NoBad
  BY DEF RefsInv
<1>1. /\ \A a \in Clusters : fat1[a] \in {LAST, FREE}
      /\ fat1[Root] = LAST /\ \A a \in Clusters : fat1[a] = FREE => a # Root
      /\ \A s \in 1 .. Slots : dir[s] = Vacant
  BY Numbers DEF Init
<1>2. op = Idle /\ op.at = "idle" /\ op.then = "done" /\ op.slot = 0
  BY DEF Init, Idle
<1>3. NoShare /\ NoBad
  BY <1>1, Numbers DEF NoShare, NoBad
<1>4. FreeIsUnref
  BY <1>1, Numbers DEF FreeIsUnref
<1>5. OpStage
  BY <1>2 DEF OpStage, Tables
<1>6. QED
  BY <1>3, <1>4, <1>5

\* The rest of a chain, once the link to it is overwritten with a mark, is
\* referred to by nothing.
LEMMA UnlinkedTail ==
    ASSUME NoShare, NEW c \in Clusters, NEW n \in Clusters, n = fat1[c],
           NEW v, v \notin Clusters, dir' = dir, op'.next = n,
           \A a \in Clusters : fat1'[a] = IF a = c THEN v ELSE fat1[a]
    PROVE  Unref(op.next)'
<1>1. n # Root
  BY DEF NoShare
<1>2. ASSUME NEW a \in Clusters
      PROVE  fat1'[a] # n
  BY DEF NoShare
<1>3. ASSUME NEW s \in 1 .. Slots
      PROVE  dir'[s] # n
  BY DEF NoShare
<1>4. QED
  BY <1>1, <1>2, <1>3 DEF Unref

\* The first table written: the only step that changes a link.
LEMMA WriteFat1Refs ==
    ASSUME DiskTypeOK, NoShare, FreeIsUnref, OpStage, NoBad, WriteFat1, Calm'
    PROVE  NoShare' /\ FreeIsUnref' /\ OpStage' /\ NoBad'
<1>1. /\ op.c \in Clusters /\ op.v \in Values /\ op.next \in Values /\ op.then \in Thens
      /\ op.at = "fat1" /\ dir' = dir
      /\ op'.at = "fat2" /\ op'.c = op.c /\ op'.v = op.v /\ op'.then = op.then
      /\ op'.next = op.next /\ op'.slot = op.slot
  BY DEF WriteFat1, DiskTypeOK, OpType
<1>2. \A a \in Clusters : fat1'[a] = IF a = op.c THEN op.v ELSE fat1[a]
  BY DEF WriteFat1, DiskTypeOK
<1>3. op.v # BAD
  BY DEF WriteFat1, Calm
<1>4. NoBad'
  BY <1>2, <1>3 DEF NoBad
<1>5. Root \in Clusters /\ op.then # "done"
  BY <1>1, Numbers DEF OpStage, Tables
<1>6. CASE op.then = "entry"
  <2>1. op.v = LAST /\ Unref(op.c)
    BY <1>6 DEF OpStage
  <2>2. NoShare'
    BY <1>1, <1>2, <1>5, <2>1, Numbers DEF NoShare, Unref
  <2>3. FreeIsUnref'
    BY <1>1, <1>2, <1>6, <2>1, Numbers DEF FreeIsUnref
  <2>4. Unref(op.c)'
    BY <1>1, <1>2, <2>1, Numbers DEF Unref
  <2>5. OpStage'
    BY <1>1, <1>2, <1>6, <2>1, <2>4 DEF OpStage, Tables
  <2>6. QED
    BY <1>4, <2>2, <2>3, <2>5
<1>7. CASE op.then = "tail"
  <2>1. /\ op.v = op.next /\ op.v \in Clusters /\ fat1[op.c] = LAST
        /\ fat1[op.v] = FREE /\ Unref(op.v)
    BY <1>1, <1>3, <1>7 DEF OpStage
  <2>2. NoShare'
    BY <1>1, <1>2, <1>5, <2>1, Numbers DEF NoShare, Unref
  <2>3. FreeIsUnref'
    BY <1>1, <1>2, <1>7, <2>1, Numbers DEF FreeIsUnref
  <2>4. OpStage'
    BY <1>1, <1>2, <1>7, <2>1 DEF OpStage, Tables
  <2>5. QED
    BY <1>4, <2>2, <2>3, <2>4
<1>8. CASE op.then = "advance"
  <2>1. op.v = LAST
    BY <1>8 DEF OpStage
  <2>2. NoShare'
    BY <1>1, <1>2, <1>5, <2>1, Numbers DEF NoShare
  <2>3. FreeIsUnref'
    BY <1>1, <1>2, <1>8, <2>1, Numbers DEF FreeIsUnref
  <2>4. OpStage'
    BY <1>1, <1>2, <1>8, <2>1 DEF OpStage, Tables
  <2>5. QED
    BY <1>4, <2>2, <2>3, <2>4
<1>9. CASE op.then = "cut"
  <2>1. op.v = LAST /\ op.next = fat1[op.c]
    BY <1>1, <1>9 DEF OpStage
  <2>2. NoShare'
    BY <1>1, <1>2, <1>5, <2>1, Numbers DEF NoShare
  <2>3. FreeIsUnref'
    BY <1>1, <1>2, <1>9, <2>1, Numbers DEF FreeIsUnref
  <2>4. op.next \in Clusters => Unref(op.next)'
    BY <1>1, <1>2, <2>1, Numbers, UnlinkedTail
  <2>5. OpStage'
    BY <1>1, <1>2, <1>9, <2>1, <2>4 DEF OpStage, Tables
  <2>6. QED
    BY <1>4, <2>2, <2>3, <2>5
<1>10. CASE op.then = "free"
  <2>1. /\ op.v = FREE /\ op.next = fat1[op.c] /\ op.c # Root /\ op.next # BAD
        /\ \A a \in Clusters : fat1[a] # op.c
        /\ \A s \in 1 .. Slots : dir[s] = op.c => s = op.slot
    BY <1>1, <1>10 DEF OpStage
  <2>2. NoShare'
    BY <1>1, <1>2, <1>5, <2>1, Numbers DEF NoShare
  <2>3. FreeIsUnref'
    BY <1>1, <1>2, <1>10, <2>1, Numbers DEF FreeIsUnref
  <2>4. op.next \in Clusters => Unref(op.next)'
    BY <1>1, <1>2, <2>1, Numbers, UnlinkedTail
  <2>5. \A a \in Clusters : fat1'[a] # op.c
    BY <1>1, <1>2, <2>1, Numbers
  <2>6. OpStage'
    BY <1>1, <1>2, <1>10, <2>1, <2>4, <2>5 DEF OpStage, Tables
  <2>7. QED
    BY <1>4, <2>2, <2>3, <2>6
<1>11. QED
  BY <1>1, <1>5, <1>6, <1>7, <1>8, <1>9, <1>10 DEF Thens

\* Only the operation in progress changes: what it knows becomes what the
\* next table write needs.
LEMMA WriteFat2Refs ==
    ASSUME DiskTypeOK, NoShare, FreeIsUnref, OpStage, NoBad, WriteFat2
    PROVE  NoShare' /\ FreeIsUnref' /\ OpStage' /\ NoBad'
<1>1. /\ op.c \in Clusters /\ op.v \in Values /\ op.next \in Values /\ op.then \in Thens
      /\ op.slot \in 0 .. Slots /\ op.h \in Handles \cup {NoHandle}
      /\ op.at = "fat2" /\ op' = Continue /\ dir' = dir /\ fat1' = fat1
      /\ LAST \in Values /\ 0 \in 0 .. Slots /\ op \in OpType
      /\ \A t \in 1 .. Slots : t # 0
  BY FatAssumption DEF WriteFat2, DiskTypeOK, OpType, Values
<1>2. NoShare' /\ NoBad'
  BY <1>1 DEF NoShare, NoBad
<1>3. fat1[op.c] = op.v /\ op.then # "done" /\ (op.slot # 0 => op.then = "free")
  BY <1>1 DEF OpStage, Tables
<1>4. CASE op.then = "entry" /\ Continue = [op EXCEPT !.at = "entry"]
  <2>1. /\ op'.at = "entry" /\ op'.c = op.c /\ op'.v = op.v /\ op'.then = "entry"
        /\ op'.slot = op.slot
    BY <1>1, <1>4 DEF OpType
  <2>2. FreeIsUnref'
    BY <1>1, <1>4, <2>1 DEF FreeIsUnref
  <2>3. OpStage'
    BY <1>1, <1>3, <1>4, <2>1 DEF OpStage, Tables, Unref
  <2>4. QED
    BY <1>2, <2>2, <2>3
<1>5. CASE /\ op.then = "tail" /\ op.next \in Clusters
           /\ Continue = WriteFor(op.h, op.next, LAST, "advance", LAST)
  <2>1. /\ op'.at = "fat1" /\ op'.c = op.next /\ op'.v = LAST /\ op'.then = "advance"
        /\ op'.slot = 0
    BY <1>1, <1>5, WriteForFields, ThenNames
  <2>2. FreeIsUnref'
    BY <1>1, <1>3, <1>5, <2>1 DEF FreeIsUnref
  <2>3. OpStage'
    BY <1>1, <1>3, <1>5, <2>1 DEF OpStage, Tables
  <2>4. QED
    BY <1>2, <2>2, <2>3
<1>6. CASE /\ op.then \in {"cut", "free"} /\ op.next \in Clusters
           /\ Continue = FreeFrom(op.next, op.slot)
  <2>1. /\ op'.at = "fat1" /\ op'.c = op.next /\ op'.v = FREE /\ op'.then = "free"
        /\ op'.next = fat1[op.next] /\ op'.slot = op.slot
    BY <1>1, <1>6, FreeFields DEF DiskTypeOK
  <2>2. Unref(op.next)
    BY <1>1, <1>6 DEF OpStage
  <2>3. FreeIsUnref'
    BY <1>1, <1>6, <2>1 DEF FreeIsUnref
  <2>4. OpStage'
    BY <1>1, <1>3, <1>6, <2>1, <2>2 DEF OpStage, Tables, Unref, NoBad
  <2>5. QED
    BY <1>2, <2>3, <2>4
<1>7. CASE op.then = "free" /\ op.next \in {LAST, FREE} /\ Continue = Freed(op.slot)
  <2>1. /\ op'.at \in {"idle", "unentry"} /\ op'.then = "done" /\ op'.slot = op.slot
        /\ IF op.slot = 0 THEN op' = Idle ELSE op'.at = "unentry"
    BY <1>1, <1>7, FreedFields
  <2>2. FreeIsUnref'
    BY <1>1, <1>7, <2>1 DEF FreeIsUnref
  <2>3. OpStage'
    BY <1>1, <1>3, <1>7, <2>1 DEF OpStage, Tables
  <2>4. QED
    BY <1>2, <2>2, <2>3
<1>8. CASE /\ ~(op.then = "free" /\ op.next # BAD)
           /\ ~(op.then = "tail" /\ op.next \in Clusters)
           /\ op.then # "entry"
           /\ Continue = Idle
  <2>1. op' = Idle /\ op'.at = "idle" /\ op'.then = "done" /\ op'.slot = 0
    BY <1>1, <1>8 DEF Idle
  <2>2. op.then # "free" /\ op.slot = 0
    BY <1>1, <1>3, <1>8 DEF OpStage
  <2>3. FreeIsUnref'
    BY <1>1, <1>8, <2>1, <2>2 DEF FreeIsUnref
  <2>4. OpStage'
    BY <2>1 DEF OpStage, Tables
  <2>5. QED
    BY <1>2, <2>3, <2>4
<1>9. QED
  <2>1. op.then = "cut" => op.slot = 0
    BY <1>3
  <2>2. QED
    BY <1>1, <1>4, <1>5, <1>6, <1>7, <1>8, <2>1, ContinueCases

\* An entry is added for a cluster that is marked and referred to by nothing,
\* or the cluster is given back.
LEMMA AddEntryRefs ==
    ASSUME DiskTypeOK, NoShare, FreeIsUnref, OpStage, NoBad, AddEntry
    PROVE  NoShare' /\ FreeIsUnref' /\ OpStage' /\ NoBad'
<1>1. /\ op.c \in Clusters /\ op.at = "entry" /\ op.then = "entry" /\ op.slot = 0
      /\ op.slot \in 0 .. Slots /\ 0 \in 0 .. Slots
      /\ fat1[op.c] = LAST /\ Unref(op.c) /\ fat1' = fat1
      /\ \A t \in 1 .. Slots : t # 0
  BY FatAssumption DEF AddEntry, DiskTypeOK, OpType, OpStage
<1>2. NoBad'
  BY <1>1 DEF NoBad
<1>3. CASE op' = Idle /\ \E s \in VacantSlots : dir' = [dir EXCEPT ![s] = op.c]
  <2>1. PICK s \in 1 .. Slots : \A t \in 1 .. Slots :
                                    dir'[t] = IF t = s THEN op.c ELSE dir[t]
    BY <1>3 DEF VacantSlots, DiskTypeOK
  <2>2. op'.at = "idle" /\ op'.then = "done" /\ op'.slot = 0
    BY <1>3 DEF Idle
  <2>3. NoShare'
    BY <1>1, <2>1 DEF NoShare, Unref
  <2>4. FreeIsUnref'
    BY <1>1, <2>1, <2>2, Numbers DEF FreeIsUnref
  <2>5. OpStage'
    BY <1>3, <2>2 DEF OpStage, Tables
  <2>6. QED
    BY <1>2, <2>3, <2>4, <2>5
<1>4. CASE op' = Idle /\ dir' = dir
  <2>1. op'.at = "idle" /\ op'.then = "done" /\ op'.slot = 0
    BY <1>4 DEF Idle
  <2>2. NoShare'
    BY <1>1, <1>4 DEF NoShare
  <2>3. FreeIsUnref'
    BY <1>1, <1>4, <2>1 DEF FreeIsUnref
  <2>4. OpStage'
    BY <1>4, <2>1 DEF OpStage, Tables
  <2>5. QED
    BY <1>2, <2>2, <2>3, <2>4
<1>5. CASE op' = FreeFrom(op.c, 0) /\ dir' = dir
  <2>1. /\ op'.at = "fat1" /\ op'.c = op.c /\ op'.v = FREE /\ op'.then = "free"
        /\ op'.next = LAST /\ op'.slot = 0
    BY <1>1, <1>5, FreeFields DEF DiskTypeOK
  <2>2. NoShare'
    BY <1>1, <1>5 DEF NoShare
  <2>3. FreeIsUnref'
    BY <1>1, <1>5, <2>1 DEF FreeIsUnref
  <2>4. OpStage'
    BY <1>1, <1>5, <2>1, Numbers DEF OpStage, Tables, Unref
  <2>5. QED
    BY <1>2, <2>2, <2>3, <2>4
<1>6. QED
  BY <1>3, <1>4, <1>5 DEF AddEntry

LEMMA RemoveEntryRefs ==
    ASSUME DiskTypeOK, NoShare, FreeIsUnref, OpStage, NoBad, RemoveEntry
    PROVE  NoShare' /\ FreeIsUnref' /\ OpStage' /\ NoBad'
<1>1. /\ op.at = "unentry" /\ op.then = "done" /\ fat1' = fat1
      /\ op' = Idle /\ op'.at = "idle" /\ op'.then = "done" /\ op'.slot = 0
  BY DEF RemoveEntry, OpStage, Idle
<1>2. \A t \in 1 .. Slots : dir'[t] = IF t = op.slot THEN Vacant ELSE dir[t]
  BY DEF RemoveEntry, DiskTypeOK
<1>3. NoShare' /\ NoBad'
  BY <1>1, <1>2, Numbers DEF NoShare, NoBad
<1>4. FreeIsUnref'
  BY <1>1, <1>2, Numbers DEF FreeIsUnref
<1>5. OpStage'
  BY <1>1 DEF OpStage, Tables
<1>6. QED
  BY <1>3, <1>4, <1>5

\* A request changes neither tables nor entries; what it begins starts from
\* clusters that nothing refers to, or from a chain's head.
LEMMA RequestRefs ==
    ASSUME DiskTypeOK, NoShare, FreeIsUnref, OpStage, NoBad, Request, Calm'
    PROVE  NoShare' /\ FreeIsUnref' /\ OpStage' /\ NoBad'
<1>1. /\ op = Idle /\ op.at = "idle" /\ op.then = "done" /\ op.slot = 0
      /\ fat1' = fat1 /\ dir' = dir
      /\ LAST \in Values /\ BAD \in Values /\ FREE \in Values /\ Clusters \subseteq Values
      /\ 0 \in 0 .. Slots /\ \A t \in 1 .. Slots : t # 0 /\ t \in 0 .. Slots
  BY FatAssumption, RequestCases DEF Idle, disk, Values
<1>2. NoShare' /\ NoBad'
  BY <1>1 DEF NoShare, NoBad
<1>3. \A c \in FreeClusters : c \in Clusters /\ fat1[c] = FREE /\ Unref(c)
  BY <1>1, Numbers DEF FreeClusters, FreeIsUnref, Unref, NoShare
<1>4. FreeIsUnref'
  <2>1. \A c \in Clusters : fat1[c] = FREE =>
           /\ \A a \in Clusters : fat1[a] # c
           /\ \A s \in 1 .. Slots : dir[s] # c
    BY <1>1 DEF FreeIsUnref
  <2>2. QED
    BY <1>1, <2>1 DEF FreeIsUnref
<1>5. ASSUME op' = Idle
      PROVE  OpStage'
  <2>1. op'.at = "idle" /\ op'.then = "done" /\ op'.slot = 0
    BY <1>1, <1>5
  <2>2. QED
    BY <1>5, <2>1 DEF OpStage, Tables
<1>6. ASSUME NEW h \in Handles \cup {NoHandle}, NEW c \in FreeClusters,
             op' = WriteFor(h, c, LAST, "entry", LAST)
      PROVE  OpStage'
  <2>1. /\ op'.at = "fat1" /\ op'.c = c /\ op'.v = LAST /\ op'.then = "entry"
        /\ op'.slot = 0
    BY <1>1, <1>3, <1>6, WriteForFields, ThenNames
  <2>2. QED
    BY <1>1, <1>3, <2>1 DEF OpStage, Tables, Unref
<1>7. ASSUME NEW s \in Live, op' = FreeFrom(dir[s], s)
      PROVE  OpStage'
  <2>1. s \in 1 .. Slots /\ dir[s] \in Clusters
    BY DEF Live, DiskTypeOK
  <2>2. /\ op'.at = "fat1" /\ op'.c = dir[s] /\ op'.v = FREE /\ op'.then = "free"
        /\ op'.next = fat1[dir[s]] /\ op'.slot = s
    BY <1>1, <1>7, <2>1, FreeFields DEF DiskTypeOK
  <2>3. /\ dir[s] # Root /\ fat1[dir[s]] # BAD
        /\ \A a \in Clusters : fat1[a] # dir[s]
        /\ \A t \in 1 .. Slots : dir[t] = dir[s] => t = s
    BY <2>1 DEF NoShare, NoBad
  <2>4. QED
    BY <1>1, <2>2, <2>3 DEF OpStage, Tables
<1>8. ASSUME NEW h \in Handles, NEW x \in Clusters, NEW c \in FreeClusters \cup {BAD},
             fat1[x] = LAST, op' = WriteFor(h, x, c, "tail", c)
      PROVE  OpStage'
  <2>1. c \in Values /\ h \in Handles \cup {NoHandle}
    BY <1>1, <1>3
  <2>2. /\ op'.at = "fat1" /\ op'.c = x /\ op'.v = c /\ op'.then = "tail"
        /\ op'.next = c /\ op'.slot = 0
    BY <1>8, <2>1, WriteForFields, ThenNames
  <2>3. QED
    BY <1>1, <1>3, <1>8, <2>2, Numbers DEF OpStage, Tables, Unref
<1>9. ASSUME NEW c \in Clusters, op' = Write(c, LAST, "cut", fat1[c])
      PROVE  OpStage'
  <2>1. fat1[c] \in Values
    BY DEF DiskTypeOK
  <2>2. /\ op'.at = "fat1" /\ op'.c = c /\ op'.v = LAST /\ op'.then = "cut"
        /\ op'.next = fat1[c] /\ op'.slot = 0
    BY <1>1, <1>9, <2>1, WriteFields, ThenNames
  <2>3. QED
    BY <1>1, <2>2 DEF OpStage, Tables
<1>10. OpStage'
  BY <1>5, <1>6, <1>7, <1>8, <1>9, RequestCases
<1>11. QED
  BY <1>2, <1>4, <1>10

\* What happened is not forgotten.
LEMMA EventsGrow == ASSUME [Next]_vars PROVE events \subseteq events'
<1>1. CASE Progress
  BY <1>1 DEF Progress, WriteFat1, WriteFat2, AddEntry, RemoveEntry
<1>2. CASE Request
  <2>1. ASSUME NEW h \in Handles \cup {NoHandle}, Create(h)
        PROVE  events' = events
    BY <2>1 DEF Create
  <2>2. ASSUME NEW s \in 1 .. Slots, Delete(s)
        PROVE  events \subseteq events'
    BY <2>2 DEF Delete
  <2>3. ASSUME NEW h \in Handles, NEW s \in 1 .. Slots, Open(h, s)
        PROVE  events' = events
    BY <2>3 DEF Open
  <2>4. ASSUME NEW h \in Handles, Close(h) \/ WriteOn(h) \/ ReadOn(h)
        PROVE  events' = events
    BY <2>4 DEF Close, WriteOn, ReadOn
  <2>5. ASSUME NEW h \in Handles, NEW k \in 1 .. MaxHops, Seek(h, k) \/ Truncate(h, k)
        PROVE  events' = events
    BY <2>5 DEF Seek, Truncate
  <2>6. QED
    BY <1>2, <2>1, <2>2, <2>3, <2>4, <2>5 DEF Request
<1>3. CASE UNCHANGED vars
  BY <1>3 DEF vars
<1>4. CASE WriteFails \/ ReadFails \/ Crash
  BY <1>4 DEF WriteFails, ReadFails, Crash
<1>5. QED
  BY <1>1, <1>2, <1>3, <1>4 DEF Next

LEMMA RefsInvHolds == Spec => []RefsInv
<1>1. DiskTypeOK /\ RefsInv /\ [Next]_vars => RefsInv'
  <2> SUFFICES ASSUME DiskTypeOK, RefsInv, [Next]_vars, Calm'
               PROVE  NoShare' /\ FreeIsUnref' /\ OpStage' /\ NoBad'
    BY DEF RefsInv
  <2>1. CASE WriteFails \/ ReadFails \/ Crash
    <3>1. "io" \in events' \/ "crash" \in events'
      BY <2>1 DEF WriteFails, ReadFails, Crash
    <3>2. QED
      BY <3>1 DEF Calm
  <2>2. events \subseteq events'
    BY EventsGrow
  <2>3. NoShare /\ FreeIsUnref /\ OpStage /\ NoBad
    BY <2>2 DEF RefsInv, Calm
  <2>4. CASE WriteFat1
    BY <2>3, <2>4, WriteFat1Refs
  <2>5. CASE WriteFat2
    BY <2>3, <2>5, WriteFat2Refs
  <2>6. CASE AddEntry
    BY <2>3, <2>6, AddEntryRefs
  <2>7. CASE RemoveEntry
    BY <2>3, <2>7, RemoveEntryRefs
  <2>8. CASE Request
    BY <2>3, <2>8, RequestRefs
  <2>9. CASE UNCHANGED vars
    BY <2>3, <2>9 DEF vars, NoShare, FreeIsUnref, OpStage, NoBad, Tables, Unref
  <2>10. QED
    BY <2>1, <2>4, <2>5, <2>6, <2>7, <2>8, <2>9 DEF Next, Progress
<1>2. QED
  BY <1>1, RefsInvInit, DiskTypeCorrect, PTL DEF Spec

\* For volumes and directories of every size and every sequence of calls: no
\* cluster belongs to two chains, at every step of every operation, until a
\* transfer fails, the machine stops or a full disk is written to.
THEOREM ClustersHaveOneOwner == Spec => []NoCrossLink
<1>1. DiskTypeOK /\ RefsInv => NoCrossLink
  <2> SUFFICES ASSUME DiskTypeOK, NoShare, NEW r1 \in Refs, NEW r2 \in Refs, r1[3] = r2[3]
               PROVE  r1 = r2
    BY DEF RefsInv, NoCrossLink
  <2>1. ASSUME NEW r \in Refs
        PROVE  \/ \E c \in Clusters : fat1[c] \in Clusters /\ r = <<"link", c, fat1[c]>>
               \/ \E s \in 1 .. Slots : dir[s] \in Clusters /\ r = <<"head", s, dir[s]>>
               \/ r = <<"head", 0, Root>>
    BY DEF Refs, Links, Heads, Live, DiskTypeOK
  <2>2. QED
    BY <2>1 DEF NoShare
<1>2. QED
  BY <1>1, DiskTypeCorrect, RefsInvHolds, PTL

\* Nor is a cluster that something refers to ever free between operations: no
\* allocation takes a cluster away from a file.
THEOREM ReferredStaysAllocated == Spec => []ReferredIsAllocated
<1>1. DiskTypeOK /\ RefsInv => ReferredIsAllocated
  <2> SUFFICES ASSUME DiskTypeOK, NoShare, FreeIsUnref, op = Idle, NEW r \in Refs,
                      fat1[r[3]] = FREE
               PROVE  FALSE
    BY DEF RefsInv, ReferredIsAllocated
  <2>1. \/ \E c \in Clusters : fat1[c] \in Clusters /\ r = <<"link", c, fat1[c]>>
        \/ \E s \in 1 .. Slots : dir[s] \in Clusters /\ r = <<"head", s, dir[s]>>
        \/ r = <<"head", 0, Root>>
    BY DEF Refs, Links, Heads, Live, DiskTypeOK
  <2>2. op.then = "done" /\ op.slot = 0 /\ \A s \in 1 .. Slots : s # 0
    BY DEF Idle
  <2>3. QED
    BY <2>1, <2>2 DEF NoShare, FreeIsUnref
<1>2. QED
  BY <1>1, DiskTypeCorrect, RefsInvHolds, PTL

----------------------------------------------------------------------------
(* Handles, and the chains they walk.                                      *)

HandlesOK == handle \in [Handles -> [head : Clusters \cup {0}, current : Values]]

\* A set of numbers has a least one.
LEMMA Smallest ==
    ASSUME NEW S, S \subseteq Nat, S # {}
    PROVE  \E m \in S : \A k \in S : m <= k
<1> DEFINE R == OpToRel(<, Nat)
<1>1. IsWellFoundedOn(R, Nat)
  BY NatLessThanWellFounded
<1>2. \A x, y \in Nat : x < y => <<x, y>> \in R
  BY DEF OpToRel
<1> HIDE DEF R
<1>3. PICK m \in S : \A y \in S : ~(<<y, m>> \in R)
  BY <1>1, WFMin
<1>4. ASSUME NEW y \in S PROVE m <= y
  <2>1. m \in Nat /\ y \in Nat
    OBVIOUS
  <2>2. ~(y < m)
    BY <1>2, <1>3, <2>1
  <2>3. QED
    BY <2>1, <2>2
<1>5. QED
  BY <1>4

\* What holds of 0, and of each number after one it holds of, holds of n.
LEMMA UpTo ==
    ASSUME NEW S, NEW n \in Nat, 0 \in S, \A k \in 0 .. n - 1 : k \in S => k + 1 \in S
    PROVE  n \in S
<1> DEFINE T == {k \in 0 .. n : k \notin S}
<1>1. ASSUME T # {} PROVE FALSE
  <2>1. T \subseteq Nat
    OBVIOUS
  <2>2. PICK m \in T : \A k \in T : m <= k
    BY <1>1, <2>1, Smallest
  <2>3. m \in 1 .. n /\ m - 1 \in 0 .. n - 1 /\ (m - 1) + 1 = m
    BY <2>2
  <2>4. m - 1 \in S
    BY <2>2, <2>3
  <2>5. QED
    BY <2>2, <2>3, <2>4
<1>2. QED
  BY <1>1

\* w is the first n hops from c.
Hops(c, n, w) == w = [i \in 0 .. n |-> IF i = 0 THEN c ELSE ReadFat(w[i - 1])]

\* A walk along a chain goes hop by hop.
LEMMA WalkSteps ==
    ASSUME NEW c
    PROVE  \E w : /\ w[0] = c
                  /\ \A k \in 1 .. MaxHops : w[k] = ReadFat(w[k - 1])
                  /\ \A k \in 0 .. MaxHops : Walk(c, k) = w[k]
<1>0. MaxHops \in Nat
  BY FatAssumption
<1> DEFINE S == {n \in 0 .. MaxHops : \E w : Hops(c, n, w)}
<1>1. 0 \in S
  <2>1. Hops(c, 0, [i \in 0 .. 0 |-> c])
    BY DEF Hops
  <2>2. QED
    BY <1>0, <2>1
<1>2. ASSUME NEW n \in 0 .. MaxHops - 1, n \in S PROVE n + 1 \in S
  <2>1. PICK w : Hops(c, n, w)
    BY <1>2
  <2> DEFINE t == [i \in 0 .. n + 1 |-> IF i <= n THEN w[i] ELSE ReadFat(w[n])]
  <2>2. ASSUME NEW i \in 0 .. n + 1
        PROVE  t[i] = IF i = 0 THEN c ELSE ReadFat(t[i - 1])
    <3>1. CASE i <= n
      BY <1>0, <2>1, <3>1 DEF Hops
    <3>2. CASE i = n + 1
      <4>1. t[i - 1] = w[n] /\ t[i] = ReadFat(w[n])
        BY <1>0, <3>2
      <4>2. QED
        BY <1>0, <3>2, <4>1
    <3>3. QED
      BY <1>0, <3>1, <3>2
  <2>3. Hops(c, n + 1, t)
    BY <2>2 DEF Hops
  <2>4. QED
    BY <1>0, <2>3
<1> HIDE DEF S
<1>3. MaxHops \in S
  BY <1>0, <1>1, <1>2, UpTo
<1> DEFINE w == CHOOSE w : Hops(c, MaxHops, w)
<1>4. Hops(c, MaxHops, w)
  BY <1>3 DEF S
<1>5. \A k : Walk(c, k) = w[k]
  BY DEF Walk, Hops
<1> HIDE DEF w
<1>6. w[0] = c /\ \A k \in 1 .. MaxHops : w[k] = ReadFat(w[k - 1])
  BY <1>0, <1>4 DEF Hops
<1>7. QED
  BY <1>5, <1>6

\* What a walk may land on: its start, or what some table entry says.
LEMMA WalkLands ==
    ASSUME NEW c, NEW k \in 0 .. MaxHops
    PROVE  \/ k = 0 /\ Walk(c, k) = c
           \/ /\ k # 0
              /\ \/ Walk(c, k) = BAD
                 \/ \E a \in Clusters : Walk(c, k) = fat1[a]
<1>1. MaxHops \in Nat
  BY FatAssumption
<1>2. PICK w : /\ w[0] = c
               /\ \A i \in 1 .. MaxHops : w[i] = ReadFat(w[i - 1])
               /\ \A i \in 0 .. MaxHops : Walk(c, i) = w[i]
  BY WalkSteps
<1>3. CASE k = 0
  BY <1>2, <1>3
<1>4. CASE k # 0
  <2>1. k \in 1 .. MaxHops /\ Walk(c, k) = ReadFat(w[k - 1])
    BY <1>1, <1>2, <1>4
  <2>2. QED
    BY <1>4, <2>1 DEF ReadFat
<1>5. QED
  BY <1>3, <1>4

LEMMA WalkIsValue ==
    ASSUME DiskTypeOK, NEW c, NEW k \in 1 .. MaxHops
    PROVE  Walk(c, k) \in Values
<1>1. k \in 0 .. MaxHops /\ k # 0 /\ BAD \in Values
  BY FatAssumption DEF Values
<1>2. QED
  BY <1>1, WalkLands DEF DiskTypeOK

\* Handles too stay what they are: a head is a cluster, or the handle is closed;
\* the current cluster is anything the table may say.
LEMMA HandlesKeepType == Spec => []HandlesOK
<1>1. Init => HandlesOK
  BY DEF Init, HandlesOK, Closed, Values, FREE
<1>2. DiskTypeOK /\ HandlesOK /\ [Next]_vars => HandlesOK'
  <2> SUFFICES ASSUME DiskTypeOK, HandlesOK, [Next]_vars PROVE HandlesOK'
    OBVIOUS
  <2> USE DEF HandlesOK
  <2>0. /\ BAD \in Values /\ Clusters \subseteq Values /\ 0 \in Values /\ op.c \in Clusters
        /\ Closed \in [head : Clusters \cup {0}, current : Values]
        /\ \A x : ReadFat(x) \in Values
    BY DEF DiskTypeOK, OpType, Values, FREE, Closed, ReadFat
  <2>1. ASSUME NEW h, NEW v \in Values, handle' = [handle EXCEPT ![h].current = v]
        PROVE  HandlesOK'
    BY <2>1
  <2>2. ASSUME NEW h, NEW c \in Clusters, NEW d \in Clusters,
               handle' = [handle EXCEPT ![h] = [head |-> c, current |-> d]]
        PROVE  HandlesOK'
    BY <2>0, <2>2
  <2>3. CASE WriteFat2
    BY <2>0, <2>1, <2>3 DEF WriteFat2
  <2>4. CASE AddEntry
    BY <2>0, <2>2, <2>4 DEF AddEntry
  <2>5. CASE Request
    <3>1. ASSUME NEW h \in Handles, NEW s \in 1 .. Slots, Open(h, s)
          PROVE  HandlesOK'
      <4>1. dir[s] \in Clusters
        BY <3>1 DEF Open, Live, DiskTypeOK
      <4>2. QED
        BY <2>2, <3>1, <4>1 DEF Open
    <3>2. ASSUME NEW h \in Handles, Close(h)
          PROVE  HandlesOK'
      BY <2>0, <3>2 DEF Close
    <3>3. ASSUME NEW h \in Handles, WriteOn(h) \/ ReadOn(h)
          PROVE  HandlesOK'
      BY <2>0, <2>1, <3>3 DEF WriteOn, ReadOn
    <3>4. ASSUME NEW h \in Handles, NEW k \in 1 .. MaxHops, Seek(h, k)
          PROVE  HandlesOK'
      <4>1. Walk(handle[h].head, k) \in Values
        <5>1. PICK c \in {handle[h].head} : TRUE
          OBVIOUS
        <5>2. QED
          BY <5>1, WalkIsValue
      <4>2. QED
        BY <2>1, <3>4, <4>1 DEF Seek
    <3>5. ASSUME NEW h \in Handles, NEW k \in 1 .. MaxHops, Truncate(h, k)
          PROVE  HandlesOK'
      BY <3>5 DEF Truncate
    <3>6. ASSUME NEW h \in Handles \cup {NoHandle}, Create(h)
          PROVE  HandlesOK'
      BY <3>6 DEF Create
    <3>7. ASSUME NEW s \in 1 .. Slots, Delete(s)
          PROVE  HandlesOK'
      BY <3>7 DEF Delete
    <3>8. QED
      BY <2>5, <3>1, <3>2, <3>3, <3>4, <3>5, <3>6, <3>7 DEF Request
  <2>6. CASE ReadFails
    BY <2>0, <2>1, <2>6 DEF ReadFails
  <2>7. CASE Crash
    BY <2>0, <2>7 DEF Crash
  <2>8. CASE WriteFat1 \/ RemoveEntry \/ WriteFails \/ UNCHANGED vars
    BY <2>8 DEF WriteFat1, RemoveEntry, WriteFails, vars
  <2>9. QED
    BY <2>3, <2>4, <2>5, <2>6, <2>7, <2>8 DEF Next, Progress
<1>3. QED
  BY <1>1, <1>2, DiskTypeCorrect, PTL DEF Spec

----------------------------------------------------------------------------
(* No cluster lost.                                                        *)

\* What the operation in progress holds and has to put somewhere: the cluster
\* taken for an entry, the rest of a chain that was cut, the one to free next.
Held(c) ==
    \/ op.then = "entry" /\ op.at \in {"fat2", "entry"} /\ c = op.c
    \/ op.then \in {"cut", "free"} /\ op.at = "fat2" /\ c = op.next
    \/ op.then = "free" /\ op.at = "fat1" /\ c = op.c

\* What is allocated is referred to, or held by the operation in progress.
Claimed == \A c \in Clusters : fat1[c] # FREE => ~Unref(c) \/ Held(c)

\* An entry that is overwritten loses nothing: clusters are marked that were
\* free, chains are cut after a cluster in use, and the entry that is removed
\* is that of a cluster already free.
NothingDropped ==
    /\ op.then = "entry" /\ op.at = "fat1" => fat1[op.c] = FREE
    /\ op.then = "tail" /\ op.next \in Clusters => fat1[op.next] = FREE
    /\ op.then = "advance" /\ op.at = "fat1" => fat1[op.c] = FREE /\ ~Unref(op.c)
    /\ op.then = "cut" /\ op.at = "fat1" => fat1[op.c] # FREE
    /\ op.slot # 0 /\ dir[op.slot] \in Clusters =>
          fat1[dir[op.slot]] = FREE \/ (op.at = "fat1" /\ op.c = dir[op.slot])

\* A handle's file has an entry that no one is removing.
HeadsLive ==
    \A h \in Handles : handle[h].head \in Clusters =>
        \E s \in 1 .. Slots : dir[s] = handle[h].head /\ s # op.slot

Kept == events = {} => Claimed /\ NothingDropped /\ HeadsLive

\* A cluster stays referred to by a write to another one's link.
LEMMA StillReferred ==
    ASSUME NEW c \in Clusters, NEW x \in Clusters, NEW v, ~Unref(c), dir' = dir,
           fat1[x] # c, \A a \in Clusters : fat1'[a] = IF a = x THEN v ELSE fat1[a]
    PROVE  ~Unref(c)'
<1>1. CASE c = Root
  BY <1>1 DEF Unref
<1>2. CASE \E a \in Clusters : fat1[a] = c
  BY <1>2 DEF Unref
<1>3. CASE \E s \in 1 .. Slots : dir[s] = c
  BY <1>3 DEF Unref
<1>4. QED
  BY <1>1, <1>2, <1>3 DEF Unref

\* The first table written: the old value of the entry was no cluster, or is
\* now held.
LEMMA WriteFat1Keeps ==
    ASSUME DiskTypeOK, NoShare, OpStage, Claimed, NothingDropped, HeadsLive, WriteFat1,
           events' = {}
    PROVE  Claimed' /\ NothingDropped' /\ HeadsLive'
<1>1. /\ op.c \in Clusters /\ op.v \in Values /\ op.next \in Values /\ op.then \in Thens
      /\ op.at = "fat1" /\ dir' = dir /\ handle' = handle
      /\ op'.at = "fat2" /\ op'.c = op.c /\ op'.v = op.v /\ op'.then = op.then
      /\ op'.next = op.next /\ op'.slot = op.slot
  BY DEF WriteFat1, DiskTypeOK, OpType
<1>2. \A a \in Clusters : fat1'[a] = IF a = op.c THEN op.v ELSE fat1[a]
  BY DEF WriteFat1, DiskTypeOK
<1>3. op.v # BAD /\ op.then # "done"
  BY <1>1 DEF WriteFat1, OpStage, Tables
<1>4. HeadsLive'
  BY <1>1 DEF HeadsLive
<1>5. ASSUME NEW c \in Clusters, ~Unref(c), fat1[op.c] # c
      PROVE  ~Unref(c)'
  BY <1>1, <1>2, <1>5, StillReferred
<1>6. CASE op.then = "entry"
  <2>1. op.slot = 0 /\ fat1[op.c] = FREE
    BY <1>1, <1>6 DEF OpStage, NothingDropped
  <2>2. ASSUME NEW c \in Clusters, fat1'[c] # FREE PROVE ~Unref(c)' \/ Held(c)'
    <3>1. CASE c = op.c
      BY <1>1, <1>6, <3>1 DEF Held
    <3>2. CASE c # op.c
      <4>1. fat1[c] # FREE /\ ~Held(c)
        BY <1>1, <1>2, <1>6, <2>2, <3>2 DEF Held
      <4>2. ~Unref(c)
        BY <4>1 DEF Claimed
      <4>3. QED
        BY <1>5, <2>1, <4>2, Numbers
    <3>3. QED
      BY <3>1, <3>2
  <2>3. NothingDropped'
    BY <1>1, <1>6, <2>1 DEF NothingDropped
  <2>4. QED
    BY <1>4, <2>2, <2>3 DEF Claimed
<1>7. CASE op.then = "tail"
  <2>1. /\ op.slot = 0 /\ fat1[op.c] = LAST /\ op.v = op.next /\ op.next \in Clusters
        /\ fat1[op.next] = FREE
    BY <1>1, <1>3, <1>7 DEF OpStage
  <2>2. ASSUME NEW c \in Clusters, fat1'[c] # FREE PROVE ~Unref(c)'
    <3>1. fat1[c] # FREE /\ ~Held(c)
      BY <1>1, <1>2, <1>7, <2>1, <2>2, Numbers DEF Held
    <3>2. QED
      BY <1>5, <2>1, <3>1, Numbers DEF Claimed
  <2>3. NothingDropped'
    BY <1>1, <1>2, <1>7, <2>1, Numbers DEF NothingDropped
  <2>4. QED
    BY <1>4, <2>2, <2>3 DEF Claimed
<1>8. CASE op.then = "advance"
  <2>1. op.slot = 0 /\ fat1[op.c] = FREE /\ ~Unref(op.c)
    BY <1>1, <1>8 DEF OpStage, NothingDropped
  <2>2. ASSUME NEW c \in Clusters, fat1'[c] # FREE PROVE ~Unref(c)'
    <3>1. c = op.c \/ (fat1[c] # FREE /\ ~Held(c))
      BY <1>1, <1>2, <1>8, <2>2 DEF Held
    <3>2. QED
      BY <1>5, <2>1, <3>1, Numbers DEF Claimed
  <2>3. NothingDropped'
    BY <1>1, <1>8, <2>1 DEF NothingDropped
  <2>4. QED
    BY <1>4, <2>2, <2>3 DEF Claimed
<1>9. CASE op.then = "cut"
  <2>1. op.slot = 0 /\ fat1[op.c] # FREE /\ op.next = fat1[op.c]
    BY <1>1, <1>9 DEF OpStage, NothingDropped
  <2>2. ASSUME NEW c \in Clusters, fat1'[c] # FREE PROVE ~Unref(c)' \/ Held(c)'
    <3>1. fat1[c] # FREE /\ ~Held(c)
      BY <1>1, <1>2, <1>9, <2>1, <2>2 DEF Held
    <3>2. CASE fat1[op.c] = c
      BY <1>1, <1>9, <2>1, <3>2 DEF Held
    <3>3. CASE fat1[op.c] # c
      BY <1>5, <3>1, <3>3 DEF Claimed
    <3>4. QED
      BY <3>2, <3>3
  <2>3. NothingDropped'
    BY <1>1, <1>9, <2>1 DEF NothingDropped
  <2>4. QED
    BY <1>4, <2>2, <2>3 DEF Claimed
<1>10. CASE op.then = "free"
  <2>1. op.v = FREE /\ op.next = fat1[op.c]
    BY <1>1, <1>10 DEF OpStage
  <2>2. ASSUME NEW c \in Clusters, fat1'[c] # FREE PROVE ~Unref(c)' \/ Held(c)'
    <3>1. c # op.c /\ fat1[c] # FREE /\ ~Held(c)
      BY <1>1, <1>2, <1>10, <2>1, <2>2 DEF Held
    <3>2. CASE fat1[op.c] = c
      BY <1>1, <1>10, <2>1, <3>2 DEF Held
    <3>3. CASE fat1[op.c] # c
      BY <1>5, <3>1, <3>3 DEF Claimed
    <3>4. QED
      BY <3>2, <3>3
  <2>3. NothingDropped'
    <3>1. op.slot # 0 /\ dir[op.slot] \in Clusters => fat1'[dir[op.slot]] = FREE
      BY <1>2, <2>1 DEF NothingDropped
    <3>2. QED
      BY <1>1, <1>10, <3>1 DEF NothingDropped
  <2>4. QED
    BY <1>4, <2>2, <2>3 DEF Claimed
<1>11. QED
  BY <1>1, <1>3, <1>6, <1>7, <1>8, <1>9, <1>10 DEF Thens

\* The operation goes on with what it holds.
LEMMA WriteFat2Keeps ==
    ASSUME DiskTypeOK, HandlesOK, OpStage, Claimed, NothingDropped, HeadsLive, WriteFat2
    PROVE  Claimed' /\ NothingDropped' /\ HeadsLive'
<1>1. /\ op.c \in Clusters /\ op.v \in Values /\ op.next \in Values /\ op.then \in Thens
      /\ op.slot \in 0 .. Slots /\ op.h \in Handles \cup {NoHandle}
      /\ op.at = "fat2" /\ op' = Continue /\ dir' = dir /\ fat1' = fat1
      /\ LAST \in Values /\ 0 \in 0 .. Slots /\ op \in OpType
      /\ \A t \in 1 .. Slots : t # 0
  BY FatAssumption DEF WriteFat2, DiskTypeOK, OpType, Values
<1>2. \A c : ~Unref(c) => ~Unref(c)'
  BY <1>1 DEF Unref
<1>3. fat1[op.c] = op.v /\ op.then # "done" /\ (op.slot # 0 => op.then = "free")
  BY <1>1 DEF OpStage, Tables
<1>4. \A h \in Handles : handle'[h].head = handle[h].head
  BY DEF WriteFat2, HandlesOK
<1>5. op.slot # 0 /\ dir[op.slot] \in Clusters => fat1[dir[op.slot]] = FREE
  BY <1>1 DEF NothingDropped
<1>6. ASSUME op'.slot \in {0, op.slot} PROVE HeadsLive'
  BY <1>1, <1>4, <1>6 DEF HeadsLive
<1>7. ASSUME \A c \in Clusters : Held(c) => Held(c)' PROVE Claimed'
  BY <1>1, <1>2, <1>7 DEF Claimed
<1>8. CASE op.then = "entry" /\ Continue = [op EXCEPT !.at = "entry"]
  <2>1. /\ op'.at = "entry" /\ op'.c = op.c /\ op'.then = "entry" /\ op'.slot = op.slot
    BY <1>1, <1>8 DEF OpType
  <2>2. Claimed'
    BY <1>7, <1>8, <2>1 DEF Held
  <2>3. NothingDropped'
    BY <1>3, <1>8, <2>1 DEF NothingDropped
  <2>4. QED
    BY <1>6, <2>1, <2>2, <2>3
<1>9. CASE /\ op.then = "tail" /\ op.next \in Clusters
           /\ Continue = WriteFor(op.h, op.next, LAST, "advance", LAST)
  <2>1. /\ op'.at = "fat1" /\ op'.c = op.next /\ op'.then = "advance" /\ op'.slot = 0
    BY <1>1, <1>9, WriteForFields, ThenNames
  <2>2. Claimed'
    BY <1>7, <1>9, <2>1 DEF Held
  <2>3. fat1[op.c] = op.next /\ fat1[op.next] = FREE
    BY <1>1, <1>3, <1>9 DEF OpStage, NothingDropped
  <2>4. ~Unref(op.c)'
    BY <1>1, <2>1, <2>3 DEF Unref
  <2>5. NothingDropped'
    BY <1>1, <2>1, <2>3, <2>4 DEF NothingDropped
  <2>6. QED
    BY <1>6, <2>1, <2>2, <2>5
<1>10. CASE /\ op.then \in {"cut", "free"} /\ op.next \in Clusters
            /\ Continue = FreeFrom(op.next, op.slot)
  <2>1. /\ op'.at = "fat1" /\ op'.c = op.next /\ op'.then = "free" /\ op'.slot = op.slot
    BY <1>1, <1>10, FreeFields DEF DiskTypeOK
  <2>2. Claimed'
    BY <1>1, <1>7, <1>10, <2>1 DEF Held
  <2>3. NothingDropped'
    BY <1>1, <1>5, <2>1 DEF NothingDropped
  <2>4. QED
    BY <1>6, <2>1, <2>2, <2>3
<1>11. CASE op.then = "free" /\ op.next \in {LAST, FREE} /\ Continue = Freed(op.slot)
  <2>1. /\ op'.at \in {"idle", "unentry"} /\ op'.then = "done" /\ op'.slot = op.slot
    BY <1>1, <1>11, FreedFields
  <2>2. Claimed'
    BY <1>1, <1>7, <1>11, <2>1, Numbers DEF Held
  <2>3. NothingDropped'
    BY <1>1, <1>5, <2>1 DEF NothingDropped
  <2>4. QED
    BY <1>6, <2>1, <2>2, <2>3
<1>12. CASE /\ ~(op.then = "free" /\ op.next # BAD)
            /\ ~(op.then \in {"tail", "cut"} /\ op.next \in Clusters)
            /\ op.then # "entry"
            /\ Continue = Idle
  <2>1. op'.at = "idle" /\ op'.then = "done" /\ op'.slot = 0
    BY <1>1, <1>12 DEF Idle
  <2>2. Claimed'
    BY <1>1, <1>7, <1>12, <2>1, Numbers DEF Held
  <2>3. NothingDropped'
    BY <2>1 DEF NothingDropped
  <2>4. QED
    BY <1>6, <2>1, <2>2, <2>3
<1>13. QED
  <2>1. op.then = "cut" => op.slot = 0
    BY <1>3
  <2>2. QED
    BY <1>1, <1>8, <1>9, <1>10, <1>11, <1>12, <2>1, ContinueCases

\* The cluster taken for an entry is referred to by it, or given back.
LEMMA AddEntryHolds ==
    ASSUME DiskTypeOK, HandlesOK, OpStage, Claimed, NothingDropped, HeadsLive, AddEntry,
           events' = {}
    PROVE  Claimed' /\ NothingDropped' /\ HeadsLive'
<1>1. /\ op.c \in Clusters /\ op.at = "entry" /\ op.then = "entry" /\ op.slot = 0
      /\ 0 \in 0 .. Slots /\ fat1' = fat1 /\ \A t \in 1 .. Slots : t # 0
  BY FatAssumption DEF AddEntry, DiskTypeOK, OpType, OpStage
<1>2. \A c \in Clusters : fat1[c] # FREE => ~Unref(c) \/ c = op.c
  BY <1>1 DEF Claimed, Held
<1>3. CASE /\ op' = Idle /\ \E s \in VacantSlots : dir' = [dir EXCEPT ![s] = op.c]
           /\ handle' = IF op.h = NoHandle THEN handle
                        ELSE [handle EXCEPT ![op.h] = [head |-> op.c, current |-> op.c]]
  <2>1. PICK s \in 1 .. Slots : /\ dir[s] = Vacant
                                /\ \A t \in 1 .. Slots :
                                      dir'[t] = IF t = s THEN op.c ELSE dir[t]
    BY <1>3 DEF VacantSlots, Live, DiskTypeOK
  <2>2. op'.at = "idle" /\ op'.then = "done" /\ op'.slot = 0
    BY <1>3 DEF Idle
  <2>3. ASSUME NEW c \in Clusters, fat1'[c] # FREE PROVE ~Unref(c)'
    <3>1. CASE c = op.c
      BY <2>1, <3>1 DEF Unref
    <3>2. CASE c # op.c
      BY <1>1, <1>2, <2>1, <2>3, <3>2, Numbers DEF Unref
    <3>3. QED
      BY <3>1, <3>2
  <2>4. NothingDropped'
    BY <2>2 DEF NothingDropped
  <2>5. ASSUME NEW h \in Handles, handle'[h].head \in Clusters
        PROVE  \E t \in 1 .. Slots : dir'[t] = handle'[h].head /\ t # 0
    <3>1. handle'[h].head = op.c \/ handle'[h].head = handle[h].head
      BY <1>3 DEF HandlesOK
    <3>2. CASE handle'[h].head = op.c
      BY <1>1, <2>1, <3>2
    <3>3. CASE handle'[h].head = handle[h].head
      BY <1>1, <2>1, <2>5, <3>3, Numbers DEF HeadsLive
    <3>4. QED
      BY <3>1, <3>2, <3>3
  <2>6. HeadsLive'
    BY <2>2, <2>5 DEF HeadsLive
  <2>7. QED
    BY <2>3, <2>4, <2>6 DEF Claimed
<1>4. CASE op' = FreeFrom(op.c, 0) /\ dir' = dir /\ handle' = handle
  <2>1. op'.at = "fat1" /\ op'.c = op.c /\ op'.then = "free" /\ op'.slot = 0
    BY <1>1, <1>4, FreeFields DEF DiskTypeOK
  <2>2. \A c : ~Unref(c) => ~Unref(c)'
    BY <1>1, <1>4 DEF Unref
  <2>3. Claimed'
    BY <1>1, <1>2, <2>1, <2>2 DEF Claimed, Held
  <2>4. NothingDropped'
    BY <2>1 DEF NothingDropped
  <2>5. HeadsLive'
    BY <1>1, <1>4, <2>1 DEF HeadsLive
  <2>6. QED
    BY <2>3, <2>4, <2>5
<1>5. "stray" \notin events'
  OBVIOUS
<1>6. QED
  BY <1>3, <1>4, <1>5 DEF AddEntry

\* The entry that goes is of a cluster already free.
LEMMA RemoveEntryKeeps ==
    ASSUME DiskTypeOK, OpStage, Claimed, NothingDropped, HeadsLive, RemoveEntry
    PROVE  Claimed' /\ NothingDropped' /\ HeadsLive'
<1>1. /\ op.at = "unentry" /\ op.then = "done" /\ fat1' = fat1 /\ handle' = handle
      /\ op' = Idle /\ op'.at = "idle" /\ op'.then = "done" /\ op'.slot = 0
      /\ \A t \in 1 .. Slots : t # 0
  BY DEF RemoveEntry, OpStage, Idle
<1>2. \A t \in 1 .. Slots : dir'[t] = IF t = op.slot THEN Vacant ELSE dir[t]
  BY DEF RemoveEntry, DiskTypeOK
<1>3. ASSUME NEW c \in Clusters, fat1'[c] # FREE PROVE ~Unref(c)'
  <2>1. ~Unref(c)
    BY <1>1, <1>3 DEF Claimed, Held
  <2>2. op.slot # 0 => dir[op.slot] # c
    BY <1>1, <1>3 DEF NothingDropped
  <2>3. QED
    BY <1>1, <1>2, <2>1, <2>2 DEF Unref
<1>4. NothingDropped'
  BY <1>1 DEF NothingDropped
<1>5. HeadsLive'
  BY <1>1, <1>2 DEF HeadsLive
<1>6. QED
  BY <1>3, <1>4, <1>5 DEF Claimed

\* A request holds nothing yet.
LEMMA BeginsKeep ==
    ASSUME Claimed, HeadsLive, op = Idle, UNCHANGED disk,
           \A h \in Handles : handle'[h].head \in Clusters =>
              \E s \in 1 .. Slots : dir[s] = handle'[h].head /\ s # op'.slot
    PROVE  Claimed' /\ HeadsLive'
<1>1. op.then = "done" /\ fat1' = fat1 /\ dir' = dir
  BY DEF Idle, disk
<1>2. \A c : ~Unref(c) => ~Unref(c)'
  BY <1>1 DEF Unref
<1>3. Claimed'
  BY <1>1, <1>2 DEF Claimed, Held
<1>4. HeadsLive'
  BY <1>1 DEF HeadsLive
<1>5. QED
  BY <1>3, <1>4

\* Where a walk from a handle's head cuts the chain, the cluster is in use.
LEMMA CutIsInUse ==
    ASSUME DiskTypeOK, FreeIsUnref, HeadsLive, op = Idle, NEW h \in Handles,
           NEW k \in 0 .. MaxHops, NEW c \in Clusters, c = Walk(handle[h].head, k)
    PROVE  fat1[c] # FREE
<1>1. op.then = "done" /\ op.slot = 0
  BY DEF Idle
<1>2. PICK x \in {handle[h].head} : TRUE
  OBVIOUS
<1>3. c = x \/ \E a \in Clusters : c = fat1[a]
  BY <1>2, WalkLands, Numbers
<1>4. CASE c = x
  BY <1>1, <1>2, <1>4 DEF HeadsLive, FreeIsUnref
<1>5. CASE \E a \in Clusters : c = fat1[a]
  BY <1>1, <1>5 DEF FreeIsUnref
<1>6. QED
  BY <1>3, <1>4, <1>5

\* Requests take free clusters, free the chain of a file no handle has, and cut
\* chains where they are in use.
LEMMA RequestKeeps ==
    ASSUME DiskTypeOK, HandlesOK, FreeIsUnref, Claimed, HeadsLive, Request,
           events' = {}
    PROVE  Claimed' /\ NothingDropped' /\ HeadsLive'
<1>1. /\ op = Idle /\ op.then = "done" /\ op.slot = 0 /\ UNCHANGED disk
      /\ fat1' = fat1 /\ dir' = dir
      /\ LAST \in Values /\ Clusters \subseteq Values /\ BAD \in Values
      /\ 0 \in 0 .. Slots /\ \A t \in 1 .. Slots : t # 0 /\ t \in 0 .. Slots
  BY FatAssumption, RequestCases DEF Idle, disk, Values
<1>2. ASSUME op'.slot = 0, \A h \in Handles : handle'[h].head = handle[h].head
      PROVE  Claimed' /\ HeadsLive'
  <2>1. \A h \in Handles : handle'[h].head \in Clusters =>
           \E s \in 1 .. Slots : dir[s] = handle'[h].head /\ s # op'.slot
    BY <1>1, <1>2 DEF HeadsLive
  <2>2. QED
    BY <1>1, <2>1, BeginsKeep
<1>3. ASSUME op' = Idle PROVE NothingDropped' /\ op'.slot = 0
  <2>1. op'.then = "done" /\ op'.slot = 0
    BY <1>3 DEF Idle
  <2>2. QED
    BY <2>1 DEF NothingDropped
<1>4. ASSUME NEW h \in Handles \cup {NoHandle}, Create(h)
      PROVE  Claimed' /\ NothingDropped' /\ HeadsLive'
  <2>1. PICK c \in FreeClusters : op' = WriteFor(h, c, LAST, "entry", LAST)
    BY <1>4 DEF Create, Found
  <2>2. c \in Clusters /\ fat1[c] = FREE /\ handle' = handle
    BY <1>4 DEF FreeClusters, Create
  <2>3. op'.at = "fat1" /\ op'.c = c /\ op'.then = "entry" /\ op'.slot = 0
    BY <1>1, <2>1, <2>2, WriteForFields, ThenNames
  <2>4. NothingDropped'
    BY <1>1, <2>2, <2>3 DEF NothingDropped
  <2>5. QED
    BY <1>2, <2>2, <2>3, <2>4
<1>5. ASSUME NEW s \in 1 .. Slots, Delete(s)
      PROVE  Claimed' /\ NothingDropped' /\ HeadsLive'
  <2>1. dir[s] \in Clusters /\ op' = FreeFrom(dir[s], s) /\ handle' = handle
    BY <1>5 DEF Delete, Live, DiskTypeOK
  <2>2. op'.at = "fat1" /\ op'.c = dir[s] /\ op'.then = "free" /\ op'.slot = s
    BY <1>1, <2>1, FreeFields DEF DiskTypeOK
  <2>3. NothingDropped'
    BY <1>1, <2>2 DEF NothingDropped
  <2>4. "removed open" \notin events'
    OBVIOUS
  <2>5. \A h \in Handles : IsOpen(h) => handle[h].head # dir[s]
    BY <1>5, <2>4 DEF Delete
  <2>6. ASSUME NEW h \in Handles, handle'[h].head \in Clusters
        PROVE  \E t \in 1 .. Slots : dir[t] = handle'[h].head /\ t # op'.slot
    <3>1. IsOpen(h)
      BY <2>1, <2>6 DEF IsOpen, Closed, Clusters, Root
    <3>2. PICK t \in 1 .. Slots : dir[t] = handle[h].head
      BY <2>1, <2>6 DEF HeadsLive
    <3>3. QED
      BY <2>1, <2>2, <2>5, <3>1, <3>2
  <2>7. QED
    BY <1>1, <2>3, <2>6, BeginsKeep
<1>6. ASSUME NEW h \in Handles, NEW s \in 1 .. Slots, Open(h, s)
      PROVE  Claimed' /\ NothingDropped' /\ HeadsLive'
  <2>1. op' = Idle
    BY <1>1, <1>6 DEF Open
  <2>2. \A g \in Handles : handle'[g].head = handle[g].head \/ handle'[g].head = dir[s]
    BY <1>6 DEF Open, HandlesOK
  <2>3. \A g \in Handles : handle'[g].head \in Clusters =>
           \E t \in 1 .. Slots : dir[t] = handle'[g].head /\ t # op'.slot
    BY <1>1, <1>3, <2>1, <2>2 DEF HeadsLive
  <2>4. QED
    BY <1>1, <1>3, <2>1, <2>3, BeginsKeep
<1>7. ASSUME NEW h \in Handles, Close(h)
      PROVE  Claimed' /\ NothingDropped' /\ HeadsLive'
  <2>1. op' = Idle
    BY <1>1, <1>7 DEF Close
  <2>2. \A g \in Handles : handle'[g].head = handle[g].head \/ handle'[g].head = 0
    BY <1>7 DEF Close, HandlesOK, Closed
  <2>3. \A g \in Handles : handle'[g].head \in Clusters =>
           \E t \in 1 .. Slots : dir[t] = handle'[g].head /\ t # op'.slot
    BY <1>1, <1>3, <2>1, <2>2, Numbers DEF HeadsLive, Vacant
  <2>4. QED
    BY <1>1, <1>3, <2>1, <2>3, BeginsKeep
<1>8. ASSUME NEW h \in Handles, ReadOn(h) \/ \E k \in 1 .. MaxHops : Seek(h, k)
      PROVE  Claimed' /\ NothingDropped' /\ HeadsLive'
  <2>1. op' = Idle /\ \A g \in Handles : handle'[g].head = handle[g].head
    BY <1>1, <1>8 DEF ReadOn, Seek, HandlesOK
  <2>2. QED
    BY <1>2, <1>3, <2>1
<1>9. ASSUME NEW h \in Handles, WriteOn(h)
      PROVE  Claimed' /\ NothingDropped' /\ HeadsLive'
  <2>1. \A g \in Handles : handle'[g].head = handle[g].head
    BY <1>9 DEF WriteOn, HandlesOK
  <2>2. CASE ReadFat(handle[h].current) = LAST
    <3>1. PICK x \in Clusters : x = handle[h].current
      BY <2>2, Numbers DEF ReadFat
    <3>2. PICK c \in FreeClusters \cup {BAD} : op' = WriteFor(h, x, c, "tail", c)
      BY <1>9, <2>2, <3>1 DEF WriteOn, Found
    <3>3. c \in Values /\ (c \in Clusters => fat1[c] = FREE)
      BY <1>1, Numbers DEF FreeClusters
    <3>4. op'.at = "fat1" /\ op'.next = c /\ op'.then = "tail" /\ op'.slot = 0
      BY <1>1, <3>2, <3>3, WriteForFields, ThenNames
    <3>5. NothingDropped'
      BY <1>1, <3>3, <3>4 DEF NothingDropped
    <3>6. QED
      BY <1>2, <2>1, <3>4, <3>5
  <2>3. CASE ReadFat(handle[h].current) # LAST
    <3>1. op' = Idle
      BY <1>1, <1>9, <2>3 DEF WriteOn
    <3>2. QED
      BY <1>2, <1>3, <2>1, <3>1
  <2>4. QED
    BY <2>2, <2>3
<1>10. ASSUME NEW h \in Handles, NEW k \in 1 .. MaxHops, Truncate(h, k)
       PROVE  Claimed' /\ NothingDropped' /\ HeadsLive'
  <2>1. PICK c \in Clusters : /\ c = Walk(handle[h].head, k - 1)
                              /\ op' = Write(c, LAST, "cut", ReadFat(c))
    BY <1>10 DEF Truncate
  <2>2. fat1[c] # FREE
    <3>1. k - 1 \in 0 .. MaxHops
      BY FatAssumption
    <3>2. QED
      BY <1>1, <2>1, <3>1, CutIsInUse
  <2>3. ReadFat(c) \in Values /\ handle' = handle
    BY <1>10 DEF Truncate, ReadFat, DiskTypeOK
  <2>4. op'.at = "fat1" /\ op'.c = c /\ op'.then = "cut" /\ op'.slot = 0
    BY <1>1, <2>1, <2>3, WriteFields, ThenNames
  <2>5. NothingDropped'
    BY <1>1, <2>2, <2>4 DEF NothingDropped
  <2>6. QED
    BY <1>2, <2>3, <2>4, <2>5
<1>11. QED
  BY <1>4, <1>5, <1>6, <1>7, <1>8, <1>9, <1>10 DEF Request

LEMMA KeptHolds == Spec => []Kept
<1>1. Init => Kept
  <2> SUFFICES ASSUME Init PROVE Claimed /\ NothingDropped /\ HeadsLive
    BY DEF Kept
  <2>1. Claimed
    BY Numbers DEF Init, Claimed, Unref
  <2>2. op.then = "done" /\ op.slot = 0
    BY DEF Init, Idle
  <2>3. NothingDropped
    BY <2>2 DEF NothingDropped
  <2>4. HeadsLive
    BY Numbers DEF Init, HeadsLive, Closed, Vacant
  <2>5. QED
    BY <2>1, <2>3, <2>4
<1>2. DiskTypeOK /\ HandlesOK /\ RefsInv /\ Kept /\ [Next]_vars => Kept'
  <2> SUFFICES ASSUME DiskTypeOK, HandlesOK, RefsInv, Kept, [Next]_vars, events' = {}
               PROVE  Claimed' /\ NothingDropped' /\ HeadsLive'
    BY DEF Kept
  <2>1. events = {}
    BY EventsGrow
  <2>2. /\ NoShare /\ FreeIsUnref /\ OpStage /\ Claimed /\ NothingDropped /\ HeadsLive
    BY <2>1 DEF RefsInv, Calm, Kept
  <2>3. CASE WriteFat1
    BY <2>2, <2>3, WriteFat1Keeps
  <2>4. CASE WriteFat2
    BY <2>2, <2>4, WriteFat2Keeps
  <2>5. CASE AddEntry
    BY <2>2, <2>5, AddEntryHolds
  <2>6. CASE RemoveEntry
    BY <2>2, <2>6, RemoveEntryKeeps
  <2>7. CASE Request
    BY <2>2, <2>7, RequestKeeps
  <2>8. CASE WriteFails \/ ReadFails \/ Crash
    <3>1. events' # {}
      BY <2>8 DEF WriteFails, ReadFails, Crash
    <3>2. QED
      BY <3>1
  <2>9. CASE UNCHANGED vars
    BY <2>2, <2>9 DEF vars, Claimed, NothingDropped, HeadsLive, Unref, Held
  <2>10. QED
    BY <2>3, <2>4, <2>5, <2>6, <2>7, <2>8, <2>9 DEF Next, Progress
<1>3. QED
  BY <1>1, <1>2, DiskTypeCorrect, HandlesKeepType, RefsInvHolds, PTL DEF Spec

\* For volumes and directories of every size and every sequence of calls: until
\* something fails, an entry goes to the wrong place, a full disk is written to
\* or an open file is removed, every allocated cluster belongs to a file or the
\* root when no operation is in progress.  What could not be entered, the rest
\* of what was cut and all of what was deleted has gone back to the free ones.
THEOREM NoClusterIsLost == Spec => []NothingLost
<1>1. DiskTypeOK /\ Kept => NothingLost
  <2> SUFFICES ASSUME DiskTypeOK, Claimed, op = Idle, NEW c \in Clusters, fat1[c] # FREE
               PROVE  \E r \in Refs : r[3] = c
    BY DEF Kept, NothingLost
  <2>1. ~Unref(c)
    BY DEF Claimed, Held, Idle
  <2>2. CASE c = Root
    <3>1. <<"head", 0, Root>> \in Refs
      BY DEF Refs, Heads
    <3>2. QED
      BY <2>2, <3>1
  <2>3. ASSUME NEW a \in Clusters, fat1[a] = c PROVE \E r \in Refs : r[3] = c
    <3>1. <<"link", a, fat1[a]>> \in Refs
      BY <2>3 DEF Refs, Links
    <3>2. QED
      BY <2>3, <3>1
  <2>4. ASSUME NEW s \in 1 .. Slots, dir[s] = c PROVE \E r \in Refs : r[3] = c
    <3>1. <<"head", s, dir[s]>> \in Refs
      BY <2>4, Numbers DEF Refs, Heads, Live
    <3>2. QED
      BY <2>4, <3>1
  <2>5. QED
    BY <2>1, <2>2, <2>3, <2>4 DEF Unref
<1>2. QED
  BY <1>1, DiskTypeCorrect, KeptHolds, PTL

----------------------------------------------------------------------------
(* The second table.                                                       *)

SectorOf(c) == c \div PerSector

\* The sector that was just written to the first table is not counted yet.
Lag ==
    /\ faults \in Nat
    /\ op.at = "fat2" => Cardinality(SectorsApart \ {SectorOf(op.c)}) <= faults
    /\ op.at # "fat2" => Cardinality(SectorsApart) <= faults

\* Finitely many sectors of the table lag, one for each differing entry at most.
LEMMA FewSectors == IsFiniteSet(SectorsApart)
<1> DEFINE D == {x \in Clusters : fat1[x] # fat2[x]}
           f == [c \in D |-> c \div PerSector]
<1>1. IsFiniteSet(Clusters)
  BY FatAssumption, FS_Interval DEF Clusters
<1>2. IsFiniteSet(D)
  BY <1>1, FS_Subset
<1>3. f \in Surjection(D, SectorsApart)
  BY DEF SectorsApart, Surjection
<1> QED
  BY <1>2, <1>3, FS_Surjection

\* Fewer sectors, no more of them.
LEMMA Fewer ==
    ASSUME NEW S, NEW T, S \subseteq T, IsFiniteSet(T)
    PROVE  Cardinality(S) \in Nat /\ Cardinality(T) \in Nat /\ Cardinality(S) <= Cardinality(T)
<1>1. IsFiniteSet(S) /\ Cardinality(S) <= Cardinality(T)
  BY FS_Subset
<1> QED
  BY <1>1, FS_CardinalityType

\* With the sector being written counted again there is one more at most.
LEMMA OneMore ==
    ASSUME NEW S, NEW x, NEW n \in Nat, IsFiniteSet(S), Cardinality(S \ {x}) <= n
    PROVE  Cardinality(S) \in Nat /\ Cardinality(S) <= n + 1
<1>1. Cardinality(S) \in Nat
  BY FS_CardinalityType
<1>2. Cardinality(S \ {x}) = IF x \in S THEN Cardinality(S) - 1 ELSE Cardinality(S)
  BY FS_RemoveElement
<1> QED
  BY <1>1, <1>2

\* What is true when no table is touched.
LEMMA LagKept ==
    ASSUME Lag, UNCHANGED <<fat1, fat2>>, op'.at # "fat2", faults' \in Nat, faults <= faults',
           op.at = "fat2" => faults + 1 <= faults'
    PROVE  Lag'
<1>1. SectorsApart' = SectorsApart
  BY DEF SectorsApart
<1>2. Cardinality(SectorsApart) <= faults'
  <2>1. CASE op.at = "fat2"
    <3>1. faults \in Nat /\ Cardinality(SectorsApart \ {SectorOf(op.c)}) <= faults
      BY <2>1 DEF Lag
    <3>2. Cardinality(SectorsApart) \in Nat /\ Cardinality(SectorsApart) <= faults + 1
      BY <3>1, FewSectors, OneMore
    <3> QED
      BY <2>1, <3>1, <3>2
  <2>2. CASE op.at # "fat2"
    <3>1. Cardinality(SectorsApart) \in Nat
      BY FewSectors, FS_CardinalityType
    <3> QED
      BY <2>2, <3>1 DEF Lag
  <2> QED
    BY <2>1, <2>2
<1> QED
  BY <1>1, <1>2 DEF Lag

\* Lag is inductive: the steps of write_fat_entry and what follows them.
LEMMA LagHolds == Spec => []Lag
<1>1. Init => Lag
  <2> SUFFICES ASSUME Init PROVE Lag
    OBVIOUS
  <2>1. SectorsApart = {}
    BY DEF Init, SectorsApart
  <2>2. Cardinality(SectorsApart) = 0
    BY <2>1, FS_EmptySet
  <2> QED
    BY <2>2 DEF Init, Idle, Lag
<1>2. DiskTypeOK /\ Lag /\ [Next]_vars => Lag'
  <2> SUFFICES ASSUME DiskTypeOK, Lag, [Next]_vars PROVE Lag'
    OBVIOUS
  <2>0. faults \in Nat /\ op.c \in Clusters /\ Idle.at = "idle"
    BY DEF Lag, DiskTypeOK, OpType, Idle
  <2>1. CASE WriteFat1
    <3>1. /\ op'.at = "fat2" /\ op'.c = op.c /\ op.at = "fat1" /\ fat2' = fat2
          /\ \A x \in Clusters : x # op.c => fat1'[x] = fat1[x]
          /\ faults' = faults
      BY <2>1 DEF WriteFat1, DiskTypeOK, OpType
    <3>2. SectorsApart' \ {SectorOf(op.c)} \subseteq SectorsApart
      BY <3>1 DEF SectorsApart, SectorOf
    <3>3. Cardinality(SectorsApart' \ {SectorOf(op.c)}) <= faults
      <4>1. Cardinality(SectorsApart) <= faults
        BY <3>1 DEF Lag
      <4> QED
        BY <2>0, <3>2, <4>1, FewSectors, Fewer
    <3> QED
      BY <2>0, <3>1, <3>3 DEF Lag, SectorOf
  <2>2. CASE WriteFat2
    <3>1. /\ op.at = "fat2" /\ fat1' = fat1 /\ faults' = faults /\ op' = Continue
          /\ \A x \in Clusters : fat2'[x] = IF SectorOf(x) = SectorOf(op.c) THEN fat1[x] ELSE fat2[x]
      BY <2>2 DEF WriteFat2, SectorOf
    <3>2. SectorsApart' \subseteq SectorsApart \ {SectorOf(op.c)}
      BY <3>1 DEF SectorsApart, SectorOf
    <3>3. IsFiniteSet(SectorsApart \ {SectorOf(op.c)})
      BY FewSectors, FS_RemoveElement
    <3>4. Cardinality(SectorsApart') <= faults
      <4>1. Cardinality(SectorsApart \ {SectorOf(op.c)}) <= faults
        BY <3>1 DEF Lag
      <4> QED
        BY <2>0, <3>2, <3>3, <4>1, Fewer
    <3>5. op'.at # "fat2"
      <4>1. /\ op.next \in Values /\ op.slot \in 0 .. Slots /\ 0 \in 0 .. Slots
            /\ op.h \in Handles \cup {NoHandle} /\ LAST \in Values
        BY FatAssumption DEF DiskTypeOK, OpType, Values
      <4>2. op.next \in Clusters => FreeFrom(op.next, 0).at = "fat1" /\ FreeFrom(op.next, op.slot).at = "fat1"
        BY <4>1, FreeFields DEF DiskTypeOK
      <4>3. op.next \in Clusters => WriteFor(op.h, op.next, LAST, "advance", LAST).at = "fat1"
        BY <4>1, WriteForFields, ThenNames
      <4>4. Freed(op.slot).at \in {"idle", "unentry"}
        BY <4>1, FreedFields
      <4>5. [op EXCEPT !.at = "entry"].at = "entry"
        BY DEF DiskTypeOK, OpType
      <4> QED
        BY <2>0, <3>1, <4>2, <4>3, <4>4, <4>5, ContinueCases
    <3> QED
      BY <2>0, <3>1, <3>4, <3>5 DEF Lag
  <2>3. CASE AddEntry
    <3>1. FreeFrom(op.c, 0).at = "fat1"
      BY <2>0, FatAssumption, FreeFields DEF DiskTypeOK
    <3>2. op'.at # "fat2" /\ op.at # "fat2" /\ UNCHANGED <<fat1, fat2, faults>>
      BY <2>0, <2>3, <3>1 DEF AddEntry
    <3> QED
      BY <2>0, <3>2, LagKept
  <2>4. CASE RemoveEntry
    <3>1. op'.at # "fat2" /\ op.at # "fat2" /\ UNCHANGED <<fat1, fat2, faults>>
      BY <2>0, <2>4 DEF RemoveEntry
    <3> QED
      BY <2>0, <3>1, LagKept
  <2>5. CASE Request
    <3>1. op = Idle /\ UNCHANGED disk /\ op'.at # "fat2"
      <4>0. /\ LAST \in Values /\ 0 \in 0 .. Slots /\ FreeClusters \subseteq Clusters
            /\ FreeClusters \cup {BAD} \subseteq Values
            /\ \A x \in Clusters : fat1[x] \in Values
        BY FatAssumption DEF FreeClusters, Values, DiskTypeOK
      <4>1. \A s \in Live : FreeFrom(dir[s], s).at = "fat1"
        <5>1. \A s \in Live : s \in 0 .. Slots /\ dir[s] \in Clusters
          BY FatAssumption DEF Live, DiskTypeOK
        <5> QED
          BY <5>1, FreeFields DEF DiskTypeOK
      <4>2. \A h \in Handles \cup {NoHandle}, c \in FreeClusters :
               WriteFor(h, c, LAST, "entry", LAST).at = "fat1"
        BY <4>0, WriteForFields, ThenNames
      <4>3. \A h \in Handles, x \in Clusters, c \in FreeClusters \cup {BAD} :
               WriteFor(h, x, c, "tail", c).at = "fat1"
        BY <4>0, WriteForFields, ThenNames
      <4>4. \A c \in Clusters : Write(c, LAST, "cut", fat1[c]).at = "fat1"
        BY <4>0, WriteFields, ThenNames
      <4> QED
        BY <2>0, <2>5, <4>1, <4>2, <4>3, <4>4, RequestCases
    <3>2. faults' = faults
      <4>1. \A h \in Handles \cup {NoHandle} : Create(h) => faults' = faults
        BY DEF Create
      <4>2. \A s \in 1 .. Slots : Delete(s) => faults' = faults
        BY DEF Delete
      <4>3. \A h \in Handles : Close(h) \/ WriteOn(h) \/ ReadOn(h) => faults' = faults
        BY DEF Close, WriteOn, ReadOn
      <4>4. \A h \in Handles, s \in 1 .. Slots : Open(h, s) => faults' = faults
        BY DEF Open
      <4>5. \A h \in Handles, k \in 1 .. MaxHops : Seek(h, k) \/ Truncate(h, k) => faults' = faults
        BY DEF Seek, Truncate
      <4> QED
        BY <2>5, <4>1, <4>2, <4>3, <4>4, <4>5 DEF Request
    <3> QED
      BY <2>0, <3>1, <3>2, LagKept DEF disk
  <2>6. CASE WriteFails
    <3>1. FreeFrom(op.c, 0).at = "fat1"
      BY <2>0, FatAssumption, FreeFields DEF DiskTypeOK
    <3>2. op'.at # "fat2" /\ UNCHANGED <<fat1, fat2>> /\ faults' = faults + 1
      BY <2>0, <2>6, <3>1 DEF WriteFails, disk
    <3> QED
      BY <2>0, <3>2, LagKept
  <2>7. CASE ReadFails
    <3>1. op.at # "fat2" /\ UNCHANGED <<fat1, fat2>> /\ faults' = faults + 1
      BY <2>0, <2>7 DEF ReadFails, disk
    <3>2. op'.at # "fat2"
      <4>0. /\ LAST \in Values /\ FreeClusters \subseteq Clusters
            /\ FreeClusters \cup {BAD} \subseteq Values /\ op.h \in Handles \cup {NoHandle}
        BY DEF FreeClusters, Values, DiskTypeOK, OpType
      <4>1. \A c \in FreeClusters : WriteFor(op.h, c, LAST, "entry", LAST).at = "fat1"
        BY <4>0, WriteForFields, ThenNames
      <4>2. \A c \in (FreeClusters \ {op.c}) \cup {BAD} : WriteFor(op.h, op.c, c, "tail", c).at = "fat1"
        BY <2>0, <4>0, WriteForFields, ThenNames
      <4>3. [op EXCEPT !.next = BAD].at = op.at
        BY DEF DiskTypeOK, OpType
      <4> QED
        BY <2>7, <3>1, <4>1, <4>2, <4>3, ReadFailsCases
    <3> QED
      BY <2>0, <3>1, <3>2, LagKept
  <2>8. CASE Crash
    <3>1. op'.at # "fat2" /\ UNCHANGED <<fat1, fat2>> /\ faults' = faults + 1
      BY <2>0, <2>8 DEF Crash, disk
    <3> QED
      BY <2>0, <3>1, LagKept
  <2>9. CASE UNCHANGED vars
    BY <2>9 DEF vars, Lag, SectorsApart
  <2> QED
    BY <2>1, <2>2, <2>3, <2>4, <2>5, <2>6, <2>7, <2>8, <2>9 DEF Next, Progress
<1> QED
  BY <1>1, <1>2, DiskTypeCorrect, PTL DEF Spec

\* For volumes of every size: wherever transfers fail and the machine stops, each
\* such event leaves at most one more sector of the second table behind, and
\* the write in progress one.
THEOREM MirrorLagsBySectors == Spec => []MirrorLag
<1>1. Lag => MirrorLag
  <2> SUFFICES ASSUME Lag PROVE MirrorLag
    OBVIOUS
  <2>1. CASE op.at = "fat2"
    <3>1. faults \in Nat /\ Cardinality(SectorsApart \ {SectorOf(op.c)}) <= faults
      BY <2>1 DEF Lag
    <3>2. Cardinality(SectorsApart) <= faults + 1
      BY <3>1, FewSectors, OneMore
    <3> QED
      BY <2>1, <3>2 DEF MirrorLag
  <2>2. CASE op.at # "fat2"
    <3>1. faults \in Nat /\ Cardinality(SectorsApart) <= faults
      BY <2>2 DEF Lag
    <3>2. Cardinality(SectorsApart) \in Nat
      BY FewSectors, FS_CardinalityType
    <3> QED
      BY <2>2, <3>1, <3>2 DEF MirrorLag
  <2> QED
    BY <2>1, <2>2
<1> QED
  BY <1>1, LagHolds, PTL
=============================================================================
