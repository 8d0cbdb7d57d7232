----------------------------- MODULE IdeProofs -----------------------------
(***************************************************************************)
(* Proofs about Ide: the drives only write what some call asked for,       *)
(* whatever waits run out, and without that the calls that report success  *)
(* have moved the sectors they were asked to move.                         *)
(***************************************************************************)
EXTENDS Ide, TLAPS

master == drive["master"]
slave == drive["slave"]
AnyBusy == master.busy \/ slave.busy

\* Before the command register is written.
Asking == {"select", "params", "command"}

DriveTypes ==
    [busy : BOOLEAN, drq : BOOLEAN, err : BOOLEAN,
     cmd : {"none", "read", "write", "flush"},
     lba : Lbas, left : 0 .. MaxSectors, latch : Values \cup {NoData}]

CallRecords ==
    [kind : {"read", "write"}, lba : Lbas, n : 1 .. MaxSectors,
     data : Seq(Values \cup {NoData}), done : 0 .. MaxSectors,
     got : Seq(Contents \cup {NoData})]

\* The fields of a call, and that its sectors exist.
CallOk ==
    /\ call \in CallRecords
    /\ call.lba + call.n - 1 <= LastLba
    /\ Len(call.data) = call.n
    /\ Len(call.got) = IF call.kind = "read" THEN call.done ELSE 0
    /\ call.done <= call.n
    /\ call.kind = "write" =>
          \A i \in 1 .. call.n : /\ call.data[i] \in Values
                                 /\ <<call.lba + i - 1, call.data[i]>> \in asked

CallInv ==
    /\ pc \in {"idle", "ready", "select", "params", "command", "drq", "flush", "settle"}
    /\ polls \in 0 .. Timeout
    /\ result \in {"none", "ok", "failed"}
    /\ \/ call = NoCall /\ pc = "idle" /\ result = "none"
       \/ CallOk
    /\ pc \in Asking \cup {"ready"} => call.done = 0 /\ call.got = <<>>
    /\ pc = "drq" => call.done < call.n
    /\ pc \in {"flush", "settle"} => call.kind = "write" /\ call.done = call.n
    /\ pc = "idle" /\ result = "ok" => call.done = call.n

\* What a drive's bits say of its command; only the selected drive is at work.
DriveOk(d, r) ==
    /\ r \in DriveTypes
    /\ r.err => r = Erred
    /\ r.drq => r.cmd \in {"read", "write"} /\ ~r.busy
    /\ r.cmd \in {"read", "write"} => r.left >= 1 /\ r.lba + r.left - 1 <= LastLba
    /\ r.busy => d = selected /\ regs.count >= 1 /\ r.cmd # "none"
    /\ r.latch # NoData => d = "master" /\ r.busy /\ r.cmd = "write"

DriveInv ==
    /\ drive \in [Drives -> DriveTypes]
    /\ selected \in Drives
    /\ regs \in [lba : Lbas, count : 0 .. MaxSectors]
    /\ regs.lba + regs.count - 1 <= LastLba
    /\ \A d \in Drives : DriveOk(d, drive[d])
    /\ pc \in {"command", "drq", "flush", "settle"} => regs.count >= 1

\* A write begins with both drives at rest, and its command is the one given.
WriteInv ==
    call.kind = "write" =>
      /\ pc \in Asking => ~AnyBusy
      /\ pc \in {"params", "command", "drq", "flush", "settle"} => selected = "master"
      /\ pc = "command" => regs = [lba |-> call.lba, count |-> call.n]
      /\ pc = "drq" =>
           \/ master.err
           \/ /\ master.cmd = "write"
              /\ IF master.latch = NoData
                 THEN /\ master.lba = call.lba + call.done
                      /\ master.left = call.n - call.done
                 ELSE /\ call.done >= 1 /\ master.latch = call.data[call.done]
                      /\ master.lba = call.lba + call.done - 1
                      /\ master.left = call.n - call.done + 1

MediumInv ==
    /\ medium \in [Drives -> [Lbas -> Contents]]
    /\ asked \subseteq Lbas \X Values
    /\ OnlyAskedWritten
    /\ master.latch # NoData => <<master.lba, master.latch>> \in asked

\* As long as no wait runs out, no command meets a busy drive, and a read is
\* served by the command it gave.
ReadInv ==
    "timeout" \notin events =>
      /\ pc \in Asking \cup {"idle", "ready"} => ~AnyBusy
      /\ call.kind = "read" =>
           /\ pc \in {"params", "command", "drq"} => selected = "slave"
           /\ pc = "command" => regs = [lba |-> call.lba, count |-> call.n]
           /\ pc = "drq" =>
                \/ slave.err
                \/ /\ slave.cmd = "read"
                   /\ slave.lba = call.lba + call.done
                   /\ slave.left = call.n - call.done
           /\ call.got = [i \in 1 .. call.done |-> <<"slave", call.lba + i - 1>>]

Stored(k) == \A i \in 1 .. k : medium["master"][call.lba + i - 1] = call.data[i]

\* What a write has handed over is on the medium or in the drive's hands.
StoredInv ==
    events = {} /\ call.kind = "write" =>
      /\ pc = "drq" /\ ~master.err =>
           Stored(IF master.latch = NoData THEN call.done ELSE call.done - 1)
      /\ pc \in {"flush", "settle"} =>
           /\ ~master.err
           /\ IF master.latch = NoData
              THEN Stored(call.n) /\ (master.busy => master.cmd = "flush")
              ELSE /\ Stored(call.n - 1)
                   /\ master.left = 1 /\ master.latch = call.data[call.n]
                   /\ master.lba = call.lba + call.n - 1
      /\ Returned("write") => Stored(call.n)

EventsInv == events \subseteq {"timeout", "unreported"}

IInv == EventsInv /\ CallInv /\ DriveInv /\ WriteInv /\ MediumInv /\ ReadInv /\ StoredInv

----------------------------------------------------------------------------
(* What callers may ask for.                                               *)

LEMMA CallsFit ==
    ASSUME Calls
    PROVE  \E kind \in {"read", "write"}, lba \in Lbas, data \in Seq(Values \cup {NoData}) :
              /\ Call(kind, lba, data)
              /\ Len(data) \in 1 .. MaxSectors /\ lba + Len(data) - 1 <= LastLba
              /\ kind = "write" => data \in Seq(Values)
<1>1. ASSUME NEW l \in Lbas, NEW n \in 1 .. MaxSectors, l + n - 1 <= LastLba,
             Call("read", l, [i \in 1 .. n |-> NoData])
      PROVE  \E kind \in {"read", "write"}, lba \in Lbas, data \in Seq(Values \cup {NoData}) :
                /\ Call(kind, lba, data)
                /\ Len(data) \in 1 .. MaxSectors /\ lba + Len(data) - 1 <= LastLba
                /\ kind = "write" => data \in Seq(Values)
  <2> DEFINE none == [i \in 1 .. n |-> NoData]
  <2>1. none \in Seq(Values \cup {NoData}) /\ Len(none) = n
    BY IdeAssumption
  <2> QED
    BY <1>1, <2>1
<1>2. ASSUME NEW l \in Lbas, NEW buffer \in Buffers, l + Len(buffer) - 1 <= LastLba,
             Call("write", l, buffer)
      PROVE  \E kind \in {"read", "write"}, lba \in Lbas, data \in Seq(Values \cup {NoData}) :
                /\ Call(kind, lba, data)
                /\ Len(data) \in 1 .. MaxSectors /\ lba + Len(data) - 1 <= LastLba
                /\ kind = "write" => data \in Seq(Values)
  <2>1. buffer \in Seq(Values) /\ buffer \in Seq(Values \cup {NoData})
    BY IdeAssumption
  <2> QED
    BY <1>2, <2>1, IdeAssumption
<1> QED
  BY <1>1, <1>2 DEF Calls

----------------------------------------------------------------------------
LEMMA InCall == CallInv /\ pc # "idle" => CallOk
BY DEF CallInv

LEMMA CallStep == CallInv /\ DriveInv /\ MediumInv /\ [Next]_vars => CallInv'
<1> SUFFICES ASSUME CallInv, DriveInv, MediumInv, [Next]_vars
             PROVE  CallInv'
  OBVIOUS
<1> USE IdeAssumption
<1>1. CASE Calls
  <2>1. PICK kind \in {"read", "write"}, lba \in Lbas, data \in Seq(Values \cup {NoData}) :
              /\ Call(kind, lba, data)
              /\ Len(data) \in 1 .. MaxSectors /\ lba + Len(data) - 1 <= LastLba
              /\ kind = "write" => data \in Seq(Values)
    BY <1>1, CallsFit
  <2>2. /\ call' = [kind |-> kind, lba |-> lba, n |-> Len(data), data |-> data,
                    done |-> 0, got |-> <<>>]
        /\ pc' = "ready" /\ polls' = Timeout /\ result' = "none"
    BY <2>1 DEF Call, Enter
  <2>3. kind = "write" => \A i \in 1 .. Len(data) :
            data[i] \in Values /\ <<lba + i - 1, data[i]>> \in asked'
    BY <2>1 DEF Call
  <2>4. call' \in CallRecords
    BY <2>1, <2>2 DEF CallRecords
  <2>5. CallOk'
    BY <2>1, <2>2, <2>3, <2>4 DEF CallOk
  <2> QED
    BY <2>2, <2>5 DEF CallInv, Asking
<1>2. CASE Poll \/ NotReady \/ IsReady \/ Select \/ Params \/ Command \/ NoDrq \/ Flush
  <2>1. call' = call /\ asked' = asked /\ pc # "idle"
    BY <1>2 DEF Poll, NotReady, IsReady, Select, Params, Command, NoDrq, Flush
  <2>2. CallOk /\ CallOk'
    BY <2>1, InCall DEF CallOk
  <2>3. CASE Poll
    BY <2>1, <2>2, <2>3 DEF CallInv, Poll, Asking
  <2>4. CASE NotReady
    <3>1. pc = "settle" \/ (pc = "ready" /\ call.kind \in {"read", "write"})
      BY <2>2, <2>4 DEF NotReady, CallOk, CallRecords
    <3>2. \/ pc' = "idle" /\ polls' = 0 /\ result' = "ok" /\ pc = "settle"
          \/ pc' = "idle" /\ polls' = 0 /\ result' = "failed"
          \/ pc' = "select" /\ polls' = Timeout /\ result' = result /\ pc = "ready"
      BY <2>4, <3>1 DEF NotReady, Enter, Return
    <3> QED
      BY <2>1, <2>2, <3>2 DEF CallInv, Asking
  <2>5. CASE IsReady
    BY <2>1, <2>2, <2>5 DEF CallInv, IsReady, Enter, Return, Asking
  <2>6. CASE Select \/ Params \/ Command
    BY <2>1, <2>2, <2>6 DEF CallInv, Select, Params, Command, Enter, Asking, CallOk, CallRecords
  <2>7. CASE NoDrq
    BY <2>1, <2>2, <2>7 DEF CallInv, NoDrq, Return, Asking
  <2>8. CASE Flush
    BY <2>1, <2>2, <2>8 DEF CallInv, Flush, Enter, Asking
  <2> QED
    BY <1>2, <2>3, <2>4, <2>5, <2>6, <2>7, <2>8
<1>3. CASE ReadData
  <2> DEFINE word == IF Status.cmd = "read" THEN medium[selected][Status.lba] ELSE NoData
             more == Append(call.got, word)
  <2>1. CallOk /\ call.done < call.n /\ call.kind = "read"
    BY <1>3, InCall DEF CallInv, ReadData
  <2>2. word \in Contents \cup {NoData}
    BY DEF DriveInv, DriveTypes, MediumInv, Status
  <2>3. more \in Seq(Contents \cup {NoData}) /\ Len(more) = call.done + 1
    <3>1. call.got \in Seq(Contents \cup {NoData}) /\ Len(call.got) = call.done
      BY <2>1 DEF CallOk, CallRecords
    <3> QED
      BY <2>2, <3>1
  <2>4. call' = [call EXCEPT !.done = @ + 1, !.got = more] /\ asked' = asked
    BY <1>3 DEF ReadData
  <2> HIDE DEF more
  <2>5. CallOk' /\ call'.done = call.done + 1 /\ call'.n = call.n
    <3>1. call.done + 1 \in 0 .. MaxSectors /\ call.done + 1 <= call.n
      BY <2>1 DEF CallOk, CallRecords
    <3> QED
      BY <2>1, <2>3, <2>4, <3>1 DEF CallOk, CallRecords
  <2>6. CASE call.done + 1 = call.n
    BY <1>3, <2>5, <2>6 DEF CallInv, ReadData, Return, Asking
  <2>7. CASE call.done + 1 # call.n
    <3>1. call'.done < call'.n
      BY <2>1, <2>5, <2>7 DEF CallOk, CallRecords
    <3> QED
      BY <1>3, <2>5, <2>7, <3>1 DEF CallInv, ReadData, Enter, Asking
  <2> QED
    BY <2>6, <2>7
<1>4. CASE WriteData
  <2>1. CallOk /\ call.done < call.n /\ call.kind = "write"
    BY <1>4, InCall DEF CallInv, WriteData
  <2>2. call' = [call EXCEPT !.done = @ + 1] /\ asked' = asked /\ result' = result
    BY <1>4 DEF WriteData
  <2>3. CallOk' /\ call'.done = call.done + 1 /\ call'.n = call.n /\ call'.kind = "write"
    <3>1. call.done + 1 \in 0 .. MaxSectors /\ call.done + 1 <= call.n
      BY <2>1 DEF CallOk, CallRecords
    <3> QED
      BY <2>1, <2>2, <3>1 DEF CallOk, CallRecords
  <2>4. call.done + 1 # call.n => call'.done < call'.n
    BY <2>1, <2>3 DEF CallOk, CallRecords
  <2> QED
    BY <1>4, <2>2, <2>3, <2>4 DEF CallInv, WriteData, Enter, Asking
<1>5. CASE Hardware
  BY <1>5 DEF CallInv, CallOk, Hardware, Serve, Store, Fail, Asking
<1>6. CASE UNCHANGED vars
  BY <1>6 DEF CallInv, CallOk, vars, Asking
<1> QED
  BY <1>1, <1>2, <1>3, <1>4, <1>5, <1>6 DEF Next, Driver

\* A step of one drive, or of the driver with it.
LEMMA OneDrive ==
    ASSUME DriveInv, UNCHANGED <<selected, regs>>,
           NEW d \in Drives, NEW new, DriveOk(d, new), drive' = [drive EXCEPT ![d] = new],
           pc' = pc \/ pc' = "idle" \/ pc \in {"command", "drq", "flush", "settle"}
    PROVE  DriveInv'
<1>1. drive' \in [Drives -> DriveTypes]
  BY DEF DriveInv, DriveOk
<1>2. \A e \in Drives : DriveOk(e, drive'[e])
  BY DEF DriveInv
<1>3. \A e \in Drives : DriveOk(e, drive[e])'
  BY <1>2 DEF DriveOk
<1>4. pc' \in {"command", "drq", "flush", "settle"} => regs.count >= 1
  BY DEF DriveInv
<1> QED
  BY <1>1, <1>3, <1>4 DEF DriveInv

LEMMA DriveStep == CallInv /\ DriveInv /\ WriteInv /\ [Next]_vars => DriveInv'
<1> SUFFICES ASSUME CallInv, DriveInv, WriteInv, [Next]_vars
             PROVE  DriveInv'
  OBVIOUS
<1> USE IdeAssumption
<1>0. \A d \in Drives : DriveOk(d, Quiet) /\ DriveOk(d, Erred)
  <2>1. Quiet \in DriveTypes /\ Erred \in DriveTypes
    <3>1. 0 \in Lbas /\ 0 \in 0 .. MaxSectors
      BY DEF Lbas
    <3>2. Quiet \in DriveTypes
      BY <3>1 DEF Quiet, DriveTypes
    <3> QED
      BY <3>2 DEF Erred, DriveTypes
  <2>2. /\ ~Quiet.err /\ ~Quiet.drq /\ ~Quiet.busy /\ Quiet.cmd = "none" /\ Quiet.latch = NoData
        /\ ~Erred.drq /\ ~Erred.busy /\ Erred.cmd = "none" /\ Erred.latch = NoData
    BY DEF Quiet, Erred
  <2> QED
    BY <2>1, <2>2 DEF DriveOk
<1>1. CASE Calls
  <2>1. UNCHANGED <<drive, selected, regs>> /\ pc' = "ready"
    BY <1>1 DEF Calls, Call, Enter
  <2> QED
    BY <2>1 DEF DriveInv, DriveOk
<1>2. CASE Poll \/ NotReady \/ IsReady \/ NoDrq
  <2>1. UNCHANGED <<drive, selected, regs>> /\ (pc' = pc \/ pc' \in {"idle", "select"})
    <3>1. pc # "idle" => call.kind \in {"read", "write"}
      BY InCall DEF CallOk, CallRecords
    <3>2. CASE NotReady
      BY <3>1, <3>2 DEF NotReady, Enter, Return
    <3> QED
      BY <1>2, <3>2 DEF Poll, IsReady, NoDrq, Enter, Return
  <2> QED
    BY <2>1 DEF DriveInv, DriveOk
<1>3. CASE Select
  <2>1. selected' = selected \/ (~drive[selected].busy /\ selected' \in Drives)
    BY <1>3 DEF Select, Status, Drives
  <2>2. UNCHANGED <<drive, regs>> /\ pc' = "params"
    BY <1>3 DEF Select, Enter
  <2>3. selected' \in Drives
    BY <2>1 DEF DriveInv
  <2>4. \A d \in Drives : DriveOk(d, drive[d])'
    BY <2>1, <2>2 DEF DriveInv, DriveOk
  <2> QED
    BY <2>2, <2>3, <2>4 DEF DriveInv
<1>4. CASE Params
  <2>1. CallOk
    BY <1>4, InCall DEF Params
  <2>2. UNCHANGED <<drive, selected>> /\ pc' = "command"
    BY <1>4 DEF Params, Enter
  <2>3. (regs' = regs /\ drive[selected].busy) \/ regs' = [lba |-> call.lba, count |-> call.n]
    BY <1>4 DEF Params, Status
  <2>4. /\ regs' \in [lba : Lbas, count : 0 .. MaxSectors]
        /\ regs'.lba + regs'.count - 1 <= LastLba /\ regs'.count >= 1
    BY <2>1, <2>3 DEF DriveInv, CallOk, CallRecords, DriveOk
  <2>5. \A d \in Drives : DriveOk(d, drive[d])'
    BY <2>2, <2>4 DEF DriveInv, DriveOk
  <2> QED
    BY <2>2, <2>4, <2>5 DEF DriveInv
<1>5. ASSUME NEW c \in {"read", "write", "flush"}, drive' = Started(c),
             UNCHANGED <<selected, regs>>, pc \in {"command", "flush"}
      PROVE  DriveInv'
  <2> DEFINE new == [Quiet EXCEPT !.busy = TRUE, !.cmd = c, !.lba = regs.lba, !.left = regs.count]
  <2>1. DriveOk(selected, new)
    BY <1>5 DEF DriveInv, DriveTypes, Quiet, DriveOk
  <2>2. drive' = drive \/ drive' = [drive EXCEPT ![selected] = new]
    BY <1>5 DEF Started, Status
  <2>3. drive = [drive EXCEPT ![selected] = drive[selected]] /\ selected \in Drives
    BY DEF DriveInv
  <2> HIDE DEF new
  <2> QED
    BY <1>5, <2>1, <2>2, <2>3, OneDrive DEF DriveInv
<1>6. CASE Command
  <2>1. call.kind \in {"read", "write"}
    BY <1>6, InCall DEF Command, CallOk, CallRecords
  <2> QED
    BY <1>5, <1>6, <2>1 DEF Command
<1>7. CASE Flush
  BY <1>5, <1>7 DEF Flush
<1>8. CASE ReadData
  <2>1. DriveOk(selected, Status) /\ selected \in Drives
    BY DEF DriveInv, Status
  <2>2. Status.cmd = "read" => DriveOk(selected, Taken)
    <3>1. Status \in DriveTypes /\ regs.count >= 1 /\ ~Status.err /\ Status.latch = NoData
      BY <1>8, <2>1 DEF ReadData, DriveInv, DriveOk
    <3>2. CASE Status.cmd = "read" /\ Status.left # 1
      <4> DEFINE r == [Status EXCEPT !.busy = TRUE, !.drq = FALSE, !.lba = @ + 1, !.left = @ - 1]
      <4>1. /\ Status.lba + 1 \in Lbas /\ Status.left - 1 \in 0 .. MaxSectors
            /\ Status.left - 1 >= 1 /\ (Status.lba + 1) + (Status.left - 1) - 1 <= LastLba
        BY <2>1, <3>1, <3>2 DEF DriveOk, DriveTypes, Lbas
      <4>2. /\ r \in DriveTypes /\ r.lba = Status.lba + 1 /\ r.left = Status.left - 1
            /\ r.err = Status.err /\ ~r.drq /\ r.cmd = "read" /\ r.latch = NoData
        BY <3>1, <3>2, <4>1 DEF DriveTypes
      <4> HIDE DEF r
      <4>3. DriveOk(selected, r)
        BY <3>1, <4>1, <4>2 DEF DriveOk
      <4> QED
        BY <3>2, <4>3 DEF Taken, r
    <3>3. CASE Status.left = 1
      BY <1>0, <2>1, <3>3 DEF Taken
    <3> QED
      BY <3>2, <3>3
  <2>3. drive' = [drive EXCEPT ![selected] = IF Status.cmd = "read" THEN Taken ELSE Status]
    BY <1>8 DEF ReadData, DriveInv, Status
  <2>4. UNCHANGED <<selected, regs>> /\ pc = "drq"
    BY <1>8 DEF ReadData
  <2> QED
    BY <2>1, <2>2, <2>3, <2>4, OneDrive
<1>9. CASE WriteData
  <2>1. CallOk /\ call.done + 1 \in 1 .. call.n /\ call.kind = "write"
    BY <1>9, InCall DEF WriteData, CallInv, CallOk, CallRecords
  <2>2. call.data[call.done + 1] \in Values
    BY <2>1 DEF CallOk
  <2>3. selected = "master" /\ Status.cmd = "write" /\ DriveOk("master", Status)
    BY <1>9 DEF WriteData, WriteInv, Status, master, DriveInv, Drives
  <2> DEFINE new == [Status EXCEPT !.busy = TRUE, !.drq = FALSE,
                                   !.latch = call.data[call.done + 1]]
  <2>4. DriveOk(selected, new)
    BY <1>9, <2>2, <2>3 DEF WriteData, DriveOk, DriveTypes, DriveInv
  <2>5. drive' = [drive EXCEPT ![selected] = new] /\ UNCHANGED <<selected, regs>> /\ pc = "drq"
    BY <1>9 DEF WriteData, Status
  <2> HIDE DEF new
  <2> QED
    BY <2>4, <2>5, OneDrive DEF DriveInv
<1>10. CASE Hardware
  <2>1. PICK d \in Drives : Serve(d) \/ Store(d) \/ Fail(d)
    BY <1>10 DEF Hardware
  <2>2. DriveOk(d, drive[d]) /\ drive[d].busy /\ UNCHANGED <<selected, regs, pc>>
    BY <2>1 DEF DriveInv, Serve, Store, Fail
  <2> DEFINE served == IF drive[d].cmd = "flush" THEN Quiet
                       ELSE [drive[d] EXCEPT !.busy = FALSE, !.drq = TRUE]
  <2>3. CASE Serve(d)
    <3>1. DriveOk(d, served)
      <4>1. CASE drive[d].cmd # "flush"
        <5>1. drive[d] \in DriveTypes /\ drive[d].latch = NoData /\ ~drive[d].err
              /\ drive[d].cmd \in {"read", "write"}
          BY <2>2, <2>3, <4>1 DEF Serve, DriveOk, DriveTypes, Erred, Quiet
        <5> DEFINE r == [drive[d] EXCEPT !.busy = FALSE, !.drq = TRUE]
        <5>2. /\ r \in DriveTypes /\ r.lba = drive[d].lba /\ r.left = drive[d].left
              /\ ~r.err /\ ~r.busy /\ r.cmd = drive[d].cmd /\ r.latch = NoData
          BY <5>1 DEF DriveTypes
        <5> HIDE DEF r
        <5>3. DriveOk(d, r)
          BY <2>2, <5>1, <5>2 DEF DriveOk
        <5> QED
          BY <4>1, <5>3 DEF r
      <4> QED
        BY <1>0, <4>1
    <3> QED
      <4>1. drive' = [drive EXCEPT ![d] = served]
        BY <2>3 DEF Serve
      <4> HIDE DEF served
      <4> QED
        BY <2>2, <3>1, <4>1, OneDrive
  <2>4. CASE Store(d)
    <3>1. DriveOk(d, Onward(drive[d]))
      <4>1. CASE drive[d].left # 1
        <5>1. drive[d] \in DriveTypes /\ ~drive[d].err /\ drive[d].cmd = "write"
          BY <2>2, <2>4 DEF Store, DriveOk, Erred, Quiet
        <5>2. /\ drive[d].lba + 1 \in Lbas /\ drive[d].left - 1 \in 0 .. MaxSectors
              /\ drive[d].left - 1 >= 1
              /\ (drive[d].lba + 1) + (drive[d].left - 1) - 1 <= LastLba
          BY <2>2, <4>1, <5>1 DEF DriveOk, DriveTypes, Lbas
        <5> DEFINE r == [drive[d] EXCEPT !.busy = FALSE, !.drq = TRUE, !.latch = NoData,
                                         !.lba = drive[d].lba + 1, !.left = drive[d].left - 1]
        <5>3. /\ r \in DriveTypes /\ r.lba = drive[d].lba + 1 /\ r.left = drive[d].left - 1
              /\ ~r.err /\ ~r.busy /\ r.cmd = "write" /\ r.latch = NoData
          BY <5>1, <5>2 DEF DriveTypes
        <5> HIDE DEF r
        <5>4. DriveOk(d, r)
          BY <5>2, <5>3 DEF DriveOk
        <5> QED
          BY <4>1, <5>4 DEF r, Onward
      <4> QED
        BY <1>0, <4>1 DEF Onward
    <3> QED
      BY <2>2, <2>4, <3>1, OneDrive DEF Store
  <2>5. CASE Fail(d)
    BY <1>0, <2>2, <2>5, OneDrive DEF Fail
  <2> QED
    BY <2>1, <2>3, <2>4, <2>5
<1>11. CASE UNCHANGED vars
  BY <1>11 DEF vars, DriveInv, DriveOk
<1> QED
  BY <1>1, <1>2, <1>3, <1>4, <1>6, <1>7, <1>8, <1>9, <1>10, <1>11 DEF Next, Driver

----------------------------------------------------------------------------
(* What a step of a drive does to the others' business.                    *)

\* Drives only ever come to rest by themselves; what a drive that a write has
\* given its command goes on to be.
LEMMA HardwareStep ==
    ASSUME DriveInv, Hardware
    PROVE  /\ UNCHANGED <<selected, regs, pc, polls, call, result, asked>>
           /\ AnyBusy' => AnyBusy
           /\ events \subseteq events'
           /\ \/ master' = master
              \/ /\ master.busy /\ master.latch = NoData
                 /\ \/ master.cmd = "flush" /\ master' = Quiet
                    \/ /\ master.cmd # "flush"
                       /\ master' = [master EXCEPT !.busy = FALSE, !.drq = TRUE]
                 /\ medium' = medium
              \/ master.latch # NoData /\ master' = Onward(master) /\ Store("master")
              \/ /\ master.busy /\ master' = Erred /\ medium' = medium
                 /\ master.cmd = "flush" \/ (master.latch # NoData /\ master.left = 1) =>
                       "unreported" \in events'
           /\ \/ slave' = slave
              \/ slave.busy /\ slave.cmd = "flush" /\ slave' = Quiet
              \/ slave.busy /\ slave.cmd # "flush" /\ slave' = [slave EXCEPT !.busy = FALSE, !.drq = TRUE]
              \/ slave' = Erred
           /\ medium' = medium \/ Store("master")
<1>1. PICK d \in Drives : Serve(d) \/ Store(d) \/ Fail(d)
  BY DEF Hardware
<1>2. drive \in [Drives -> DriveTypes] /\ d \in {"master", "slave"}
  BY DEF DriveInv, Drives
<1>3. UNCHANGED <<selected, regs, pc, polls, call, result, asked>> /\ events \subseteq events'
  BY <1>1 DEF Serve, Store, Fail
<1>4. CASE Serve(d)
  <2> DEFINE served == IF drive[d].cmd = "flush" THEN Quiet
                       ELSE [drive[d] EXCEPT !.busy = FALSE, !.drq = TRUE]
  <2>1. drive' = [drive EXCEPT ![d] = served] /\ medium' = medium
        /\ drive[d].busy /\ drive[d].latch = NoData
    BY <1>4 DEF Serve
  <2>2. ~served.busy
    BY <1>2 DEF Quiet, DriveTypes
  <2> HIDE DEF served
  <2>3. drive'["master"] = (IF d = "master" THEN served ELSE drive["master"])
        /\ drive'["slave"] = (IF d = "slave" THEN served ELSE drive["slave"])
    BY <1>2, <2>1 DEF Drives
  <2> QED
    BY <1>2, <1>3, <2>1, <2>2, <2>3 DEF master, slave, AnyBusy, served
<1>5. CASE Store(d)
  <2>1. d = "master"
    BY <1>2, <1>5 DEF Store, DriveInv, DriveOk
  <2>2. ~Onward(drive[d]).busy
    BY <1>2 DEF Onward, Quiet, DriveTypes
  <2>3. drive'["master"] = Onward(drive["master"]) /\ drive'["slave"] = drive["slave"]
        /\ drive["master"].latch # NoData
    BY <1>2, <1>5, <2>1 DEF Store, Drives
  <2> QED
    BY <1>3, <1>5, <2>1, <2>2, <2>3 DEF master, slave, AnyBusy
<1>6. CASE Fail(d)
  <2>1. ~Erred.busy
    BY DEF Erred, Quiet
  <2>2. drive'["master"] = (IF d = "master" THEN Erred ELSE drive["master"])
        /\ drive'["slave"] = (IF d = "slave" THEN Erred ELSE drive["slave"])
        /\ medium' = medium /\ drive[d].busy
        /\ (drive[d].cmd = "flush" \/ (drive[d].latch # NoData /\ drive[d].left = 1) =>
                "unreported" \in events')
    BY <1>2, <1>6 DEF Fail, Drives
  <2> QED
    BY <1>2, <1>3, <2>1, <2>2 DEF master, slave, AnyBusy
<1> QED
  BY <1>1, <1>4, <1>5, <1>6

\* The command register, for a selected drive that is not busy.
LEMMA StartedAfresh ==
    ASSUME DriveInv, NEW c \in {"read", "write", "flush"}, ~Status.busy, drive' = Started(c)
    PROVE  /\ drive'[selected].cmd = c /\ ~drive'[selected].err
           /\ drive'[selected].lba = regs.lba /\ drive'[selected].left = regs.count
           /\ drive'[selected].latch = NoData
           /\ \A d \in Drives : d # selected => drive'[d] = drive[d]
BY DEF DriveInv, Started, Status, Quiet

----------------------------------------------------------------------------
LEMMA WriteStep == CallInv /\ DriveInv /\ WriteInv /\ [Next]_vars => WriteInv'
<1> SUFFICES ASSUME CallInv, DriveInv, WriteInv, [Next]_vars, call'.kind = "write"
             PROVE  WriteInv'
  BY DEF WriteInv
<1> USE IdeAssumption
<1>1. CASE Calls
  BY <1>1 DEF WriteInv, Calls, Call, Enter, Asking
<1>2. CASE Poll \/ NotReady \/ NoDrq
  <2>1. UNCHANGED <<drive, selected, regs, call>> /\ (pc' = pc \/ pc' = "idle")
    BY <1>2 DEF Poll, NotReady, NoDrq, Enter, Return
  <2> QED
    BY <2>1 DEF WriteInv, master, slave, AnyBusy, Asking
<1>3. CASE IsReady
  <2>1. UNCHANGED <<drive, selected, regs, call>> /\ (pc' = "select" \/ pc' = "idle")
        /\ ~Status.busy
    BY <1>3 DEF IsReady, Enter, Return
  <2>2. ~AnyBusy
    BY <2>1 DEF DriveInv, DriveOk, Drives, Status, AnyBusy, master, slave
  <2> QED
    BY <2>1, <2>2 DEF WriteInv, master, slave, AnyBusy, Asking
<1>4. CASE Select
  <2>1. UNCHANGED <<drive, regs, call>> /\ pc' = "params" /\ pc \in Asking
    BY <1>4 DEF Select, Enter, Asking
  <2>2. ~AnyBusy
    BY <2>1 DEF WriteInv
  <2>3. selected' = "master"
    BY <1>4, <2>1, <2>2 DEF Select, DriveInv, Drives, Status, AnyBusy, master, slave
  <2> QED
    BY <2>1, <2>2, <2>3 DEF WriteInv, master, slave, AnyBusy, Asking
<1>5. CASE Params
  <2>1. UNCHANGED <<drive, selected, call>> /\ pc' = "command" /\ pc \in Asking
    BY <1>5 DEF Params, Enter, Asking
  <2>2. ~AnyBusy /\ selected = "master"
    BY <1>5, <2>1 DEF WriteInv, Params
  <2>3. regs' = [lba |-> call.lba, count |-> call.n]
    BY <1>5, <2>2 DEF Params, Status, AnyBusy, master, slave
  <2> QED
    BY <2>1, <2>2, <2>3 DEF WriteInv, master, slave, AnyBusy, Asking
<1>6. CASE Command
  <2>1. UNCHANGED <<regs, selected, call>> /\ pc' = "drq" /\ pc = "command" /\ CallOk
        /\ call.done = 0
    BY <1>6, InCall DEF Command, Enter, CallInv, Asking
  <2>2. ~AnyBusy /\ selected = "master" /\ regs = [lba |-> call.lba, count |-> call.n]
    BY <2>1 DEF WriteInv, Asking
  <2>3. drive' = Started("write") /\ ~Status.busy
    BY <1>6, <2>1, <2>2 DEF Command, Status, AnyBusy, master, slave
  <2>4. /\ drive'["master"].cmd = "write" /\ drive'["master"].lba = call.lba
        /\ drive'["master"].left = call.n /\ drive'["master"].latch = NoData
    BY <2>2, <2>3, StartedAfresh
  <2> QED
    BY <2>1, <2>2, <2>4 DEF WriteInv, master, slave, AnyBusy, Asking, CallOk, CallRecords, Lbas
<1>7. CASE ReadData
  BY <1>7, InCall DEF ReadData, CallOk, CallRecords
<1>8. CASE WriteData
  <2>1. UNCHANGED <<regs, selected>> /\ pc' \in {"drq", "flush"} /\ pc = "drq" /\ CallOk
        /\ call.done \in Nat /\ call.kind = "write" /\ call.done < call.n
    BY <1>8, InCall DEF WriteData, Enter, CallInv, CallOk, CallRecords
  <2>2. /\ selected = "master" /\ ~master.err /\ master.cmd = "write" /\ master.latch = NoData
        /\ master.lba = call.lba + call.done /\ master.left = call.n - call.done
    BY <1>8, <2>1 DEF WriteData, WriteInv, Status, master, DriveInv, DriveOk, Drives
  <2>3. /\ call'.done = call.done + 1 /\ call'.n = call.n /\ call'.lba = call.lba
        /\ call'.data = call.data
    BY <1>8, <2>1 DEF WriteData, CallOk, CallRecords
  <2>4. /\ drive'["master"].cmd = "write" /\ drive'["master"].lba = master.lba
        /\ drive'["master"].left = master.left
        /\ drive'["master"].latch = call.data[call.done + 1]
    BY <1>8, <2>2 DEF WriteData, master, DriveInv, DriveTypes, Drives
  <2>5. call.data[call.done + 1] # NoData
    <3>1. call.done + 1 \in 1 .. call.n
      BY <2>1 DEF CallOk, CallRecords
    <3>2. call.data[call.done + 1] \in Values
      BY <2>1, <3>1 DEF CallOk
    <3> QED
      BY <3>2
  <2>6. /\ call'.done >= 1 /\ call.data[call.done + 1] = call'.data[call'.done]
        /\ master.lba = call'.lba + call'.done - 1
        /\ master.left = call'.n - call'.done + 1
    BY <2>1, <2>2, <2>3 DEF CallOk, CallRecords, Lbas
  <2>7. pc' = "drq" =>
           /\ master'.cmd = "write" /\ master'.latch # NoData
           /\ call'.done >= 1 /\ master'.latch = call'.data[call'.done]
           /\ master'.lba = call'.lba + call'.done - 1
           /\ master'.left = call'.n - call'.done + 1
    BY <2>2, <2>4, <2>5, <2>6 DEF master
  <2> QED
    BY <2>1, <2>2, <2>7 DEF WriteInv, Asking
<1>9. CASE Flush
  BY <1>9 DEF Flush, Enter, WriteInv, Asking
<1>10. CASE Hardware
  <2>1. UNCHANGED <<selected, regs, pc, call>> /\ (AnyBusy' => AnyBusy)
    BY <1>10, HardwareStep
  <2>2. CASE pc = "drq" /\ ~master.err
    <3>1. /\ master.cmd = "write" /\ CallOk /\ call.done < call.n
          /\ master \in DriveTypes
          /\ IF master.latch = NoData
             THEN /\ master.lba = call.lba + call.done
                  /\ master.left = call.n - call.done
             ELSE /\ call.done >= 1 /\ master.latch = call.data[call.done]
                  /\ master.lba = call.lba + call.done - 1
                  /\ master.left = call.n - call.done + 1
      BY <2>1, <2>2, InCall DEF WriteInv, CallInv, DriveInv, master, Drives
    <3>2. CASE master' = master
      BY <2>1, <2>2, <3>2 DEF WriteInv, Asking
    <3>3. CASE master.latch = NoData /\ master' = [master EXCEPT !.busy = FALSE, !.drq = TRUE]
      <4>1. /\ master'.cmd = "write" /\ master'.lba = master.lba
            /\ master'.left = master.left /\ master'.latch = NoData
        BY <3>1, <3>3 DEF DriveTypes
      <4> QED
        BY <2>1, <2>2, <3>1, <3>3, <4>1 DEF WriteInv, Asking
    <3>4. CASE master.latch # NoData /\ master' = Onward(master)
      <4>1. master.left # 1
        BY <3>1, <3>4 DEF CallOk, CallRecords
      <4>2. /\ master'.cmd = "write" /\ master'.lba = master.lba + 1
            /\ master'.left = master.left - 1 /\ master'.latch = NoData
        BY <3>1, <3>4, <4>1 DEF DriveTypes, Onward
      <4>3. master'.lba = call.lba + call.done /\ master'.left = call.n - call.done
        BY <3>1, <3>4, <4>2 DEF CallOk, CallRecords, Lbas
      <4> QED
        BY <2>1, <2>2, <4>2, <4>3 DEF WriteInv, Asking
    <3>5. CASE master' = Erred
      BY <2>1, <2>2, <3>5 DEF WriteInv, Asking, Erred, Quiet
    <3> QED
      BY <1>10, <3>1, <3>2, <3>3, <3>4, <3>5, HardwareStep
  <2>3. CASE pc = "drq" /\ master.err
    <3>1. master' = master
      BY <1>10, <2>3, HardwareStep DEF DriveInv, DriveOk, Drives, master, Erred, Quiet
    <3> QED
      BY <2>1, <2>3, <3>1 DEF WriteInv, Asking
  <2> QED
    BY <2>1, <2>2, <2>3 DEF WriteInv, Asking
<1>11. CASE UNCHANGED vars
  BY <1>11 DEF vars, WriteInv, master, slave, AnyBusy
<1> QED
  BY <1>1, <1>2, <1>3, <1>4, <1>5, <1>6, <1>7, <1>8, <1>9, <1>10, <1>11 DEF Next, Driver

----------------------------------------------------------------------------
LEMMA MediumStep ==
    CallInv /\ DriveInv /\ WriteInv /\ MediumInv /\ [Next]_vars => MediumInv'
<1> SUFFICES ASSUME CallInv, DriveInv, WriteInv, MediumInv, [Next]_vars
             PROVE  MediumInv'
  OBVIOUS
<1> USE IdeAssumption
<1>1. CASE Calls
  <2>1. UNCHANGED <<medium, drive>> /\ asked \subseteq asked' /\ asked' \subseteq Lbas \X Values
    <3>1. PICK kind \in {"read", "write"}, lba \in Lbas, data \in Seq(Values \cup {NoData}) :
              /\ Call(kind, lba, data)
              /\ Len(data) \in 1 .. MaxSectors /\ lba + Len(data) - 1 <= LastLba
              /\ kind = "write" => data \in Seq(Values)
      BY <1>1, CallsFit
    <3>2. kind = "write" => \A i \in DOMAIN data : lba + i - 1 \in Lbas /\ data[i] \in Values
      BY <3>1 DEF Lbas
    <3> QED
      BY <3>1, <3>2 DEF Call, MediumInv
  <2> QED
    BY <2>1 DEF MediumInv, OnlyAskedWritten, master
<1>2. CASE Poll \/ NotReady \/ IsReady \/ NoDrq \/ Select \/ Params
  <2>1. UNCHANGED <<medium, drive, asked>>
    BY <1>2 DEF Poll, NotReady, IsReady, NoDrq, Select, Params
  <2> QED
    BY <2>1 DEF MediumInv, OnlyAskedWritten, master
<1>3. CASE Command \/ Flush \/ ReadData
  <2>1. UNCHANGED <<medium, asked>>
    BY <1>3 DEF Command, Flush, ReadData
  <2>2. master' = master \/ master'.latch = NoData
    <3>1. CASE Command \/ Flush
      <4>1. PICK c : drive' = Started(c)
        BY <3>1 DEF Command, Flush
      <4> QED
        BY <4>1 DEF Started, Quiet, Status, master, DriveInv, Drives
    <3>2. CASE ReadData
      <4>1. Status \in DriveTypes /\ Status.latch = NoData
        BY <3>2 DEF ReadData, DriveInv, DriveOk, Status
      <4>2. Taken.latch = NoData
        BY <4>1 DEF Taken, Quiet, DriveTypes
      <4>3. drive' = drive \/ drive' = [drive EXCEPT ![selected] = Taken]
        BY <3>2 DEF ReadData
      <4> HIDE DEF Taken
      <4> QED
        BY <4>2, <4>3 DEF master, DriveInv, Drives
    <3> QED
      BY <1>3, <3>1, <3>2
  <2> QED
    BY <2>1, <2>2 DEF MediumInv, OnlyAskedWritten
<1>4. CASE WriteData
  <2>1. UNCHANGED <<medium, asked>> /\ pc = "drq" /\ CallOk /\ call.kind = "write"
        /\ call.done + 1 \in 1 .. call.n
    BY <1>4, InCall DEF WriteData, CallInv, CallOk, CallRecords
  <2>2. /\ selected = "master" /\ ~master.err /\ master.latch = NoData
        /\ master.lba = call.lba + call.done
    BY <1>4, <2>1 DEF WriteData, WriteInv, Status, master, DriveInv, DriveOk, Drives
  <2>3. master'.lba = master.lba /\ master'.latch = call.data[call.done + 1]
    BY <1>4, <2>2 DEF WriteData, master, DriveInv, DriveTypes, Drives
  <2>4. <<call.lba + call.done, call.data[call.done + 1]>> \in asked
    <3>1. <<call.lba + (call.done + 1) - 1, call.data[call.done + 1]>> \in asked
      BY <2>1 DEF CallOk
    <3>2. call.lba + (call.done + 1) - 1 = call.lba + call.done
      BY <2>1 DEF CallOk, CallRecords, Lbas
    <3> QED
      BY <3>1, <3>2
  <2> QED
    BY <2>1, <2>2, <2>3, <2>4 DEF MediumInv, OnlyAskedWritten
<1>5. CASE Hardware
  <2>1. asked' = asked
    BY <1>5, HardwareStep
  <2>2. CASE Store("master")
    <3>1. medium' = [medium EXCEPT !["master"][master.lba] = master.latch]
          /\ <<master.lba, master.latch>> \in asked /\ master.lba \in Lbas
          /\ master.latch \in Values
      BY <2>2 DEF Store, MediumInv, master
    <3>2. /\ medium' \in [Drives -> [Lbas -> Contents]]
          /\ medium'["slave"] = medium["slave"]
          /\ \A l \in Lbas : medium'["master"][l] =
                IF l = master.lba THEN master.latch ELSE medium["master"][l]
      BY <3>1 DEF MediumInv, Drives, Contents
    <3>3. OnlyAskedWritten'
      <4>1. ASSUME NEW l \in Lbas
            PROVE  /\ medium'["slave"][l] = <<"slave", l>>
                   /\ medium'["master"][l] # <<"master", l>> => <<l, medium'["master"][l]>> \in asked'
        <5>1. CASE l = master.lba
          <6>1. medium'["master"][l] = master.latch
            BY <3>2, <5>1
          <6>2. <<l, master.latch>> \in asked'
            BY <2>1, <3>1, <5>1
          <6>3. medium'["slave"][l] = <<"slave", l>>
            BY <3>2 DEF MediumInv, OnlyAskedWritten
          <6> QED
            BY <6>1, <6>2, <6>3
        <5>2. CASE l # master.lba
          BY <2>1, <3>2, <5>2 DEF MediumInv, OnlyAskedWritten
        <5> QED
          BY <5>1, <5>2
      <4> QED
        BY <4>1 DEF OnlyAskedWritten
    <3>4. master'.latch = NoData
      <4>1. drive'["master"] = Onward(drive["master"]) /\ master \in DriveTypes
        BY <2>2 DEF Store, DriveInv, Drives, master
      <4> QED
        BY <4>1 DEF Onward, Quiet, DriveTypes, master
    <3> QED
      BY <2>1, <3>2, <3>3, <3>4 DEF MediumInv
  <2>3. CASE ~Store("master")
    <3>1. medium' = medium
      BY <1>5, <2>3, HardwareStep
    <3>2. master' = master \/ master'.latch = NoData
      <4>1. master \in DriveTypes
        BY DEF DriveInv, Drives, master
      <4> QED
        <5>1. Quiet.latch = NoData /\ Erred.latch = NoData
          BY DEF Quiet, Erred
        <5>2. master.latch = NoData => [master EXCEPT !.busy = FALSE, !.drq = TRUE].latch = NoData
          BY <4>1 DEF DriveTypes
        <5> QED
          BY <1>5, <2>3, <5>1, <5>2, HardwareStep
    <3> QED
      BY <2>1, <3>1, <3>2 DEF MediumInv, OnlyAskedWritten
  <2> QED
    BY <2>2, <2>3
<1>6. CASE UNCHANGED vars
  BY <1>6 DEF vars, MediumInv, OnlyAskedWritten, master
<1> QED
  BY <1>1, <1>2, <1>3, <1>4, <1>5, <1>6 DEF Next, Driver

----------------------------------------------------------------------------
LEMMA ReadStep ==
    CallInv /\ DriveInv /\ WriteInv /\ MediumInv /\ ReadInv /\ [Next]_vars => ReadInv'
<1> SUFFICES ASSUME CallInv, DriveInv, WriteInv, MediumInv, ReadInv, [Next]_vars,
                    "timeout" \notin events'
             PROVE  ReadInv'
  BY DEF ReadInv
<1> USE IdeAssumption
<1>0. "timeout" \notin events
  <2>1. CASE Hardware
    BY <2>1, HardwareStep
  <2>2. CASE Calls \/ Driver
    BY <2>2 DEF Calls, Call, Driver, Poll, NotReady, IsReady, Select, Params, Command, NoDrq,
                ReadData, WriteData, Flush
  <2>3. CASE UNCHANGED vars
    BY <2>3 DEF vars
  <2> QED
    BY <2>1, <2>2, <2>3 DEF Next
<1>1. CASE Calls
  <2>1. UNCHANGED drive /\ pc = "idle" /\ pc' = "ready"
    BY <1>1 DEF Calls, Call, Enter
  <2>2. call'.done = 0 /\ call'.got = <<>>
    BY <1>1 DEF Calls, Call
  <2>3. call'.got = [i \in 1 .. call'.done |-> <<"slave", call'.lba + i - 1>>]
    BY <2>2
  <2> QED
    BY <1>0, <2>1, <2>3 DEF ReadInv, AnyBusy, master, slave, Asking
<1>2. CASE Poll \/ NotReady \/ NoDrq \/ IsReady
  <2>1. UNCHANGED <<drive, selected, regs, call>>
    BY <1>2 DEF Poll, NotReady, NoDrq, IsReady
  <2>2. pc' = pc \/ (pc' \in {"idle", "select"} /\ ~Status.busy)
    <3>1. call.kind \in {"read", "write"}
      BY <1>2, InCall DEF Poll, NotReady, NoDrq, IsReady, CallOk, CallRecords
    <3>2. CASE Poll \/ IsReady
      BY <3>2 DEF Poll, IsReady, Enter, Return
    <3>3. CASE NotReady
      <4>1. ~Status.busy
        BY <3>3 DEF NotReady
      <4> QED
        BY <3>1, <3>3, <4>1 DEF NotReady, Enter, Return
    <3>4. CASE NoDrq
      <4>1. Status.err
        BY <3>4 DEF NoDrq
      <4>2. ~Status.busy
        BY <4>1 DEF DriveInv, DriveOk, Status, Erred, Quiet
      <4> QED
        BY <3>4, <4>2 DEF NoDrq, Return
    <3> QED
      BY <1>2, <3>2, <3>3, <3>4
  <2>3. ~Status.busy => ~AnyBusy
    BY DEF DriveInv, DriveOk, Drives, Status, AnyBusy, master, slave
  <2> QED
    BY <1>0, <2>1, <2>2, <2>3 DEF ReadInv, AnyBusy, master, slave, Asking
<1>3. CASE Select
  <2>1. UNCHANGED <<drive, regs, call>> /\ pc' = "params" /\ pc \in Asking
    BY <1>3 DEF Select, Enter, Asking
  <2>2. ~AnyBusy
    BY <1>0, <2>1 DEF ReadInv
  <2>3. call.kind = "read" => selected' = "slave"
    BY <1>3, <2>2 DEF Select, DriveInv, Drives, Status, AnyBusy, master, slave
  <2> QED
    BY <1>0, <2>1, <2>2, <2>3 DEF ReadInv, master, slave, AnyBusy, Asking
<1>4. CASE Params
  <2>1. UNCHANGED <<drive, selected, call>> /\ pc' = "command" /\ pc = "params"
    BY <1>4 DEF Params, Enter
  <2>2. ~AnyBusy
    BY <1>0, <2>1 DEF ReadInv, Asking
  <2>3. regs' = [lba |-> call.lba, count |-> call.n]
    BY <1>4, <2>2 DEF Params, Status, AnyBusy, master, slave, DriveInv, Drives
  <2> QED
    BY <1>0, <2>1, <2>2, <2>3 DEF ReadInv, master, slave, AnyBusy, Asking
<1>5. CASE Command
  <2>1. UNCHANGED <<regs, selected, call>> /\ pc' = "drq" /\ pc = "command" /\ CallOk
        /\ call.done = 0
    BY <1>5, InCall DEF Command, Enter, CallInv, Asking
  <2>2. CASE call.kind = "read"
    <3>1. ~AnyBusy /\ selected = "slave" /\ regs = [lba |-> call.lba, count |-> call.n]
      BY <1>0, <2>1, <2>2 DEF ReadInv, Asking
    <3>2. drive' = Started("read") /\ ~Status.busy
      BY <1>5, <2>2, <3>1 DEF Command, Status, AnyBusy, master, slave
    <3>3. slave'.cmd = "read" /\ slave'.lba = call.lba /\ slave'.left = call.n
      BY <3>1, <3>2, StartedAfresh DEF slave
    <3>4. slave'.lba = call.lba + call.done /\ slave'.left = call.n - call.done
      BY <2>1, <3>3 DEF CallOk, CallRecords, Lbas
    <3> QED
      BY <1>0, <2>1, <3>1, <3>3, <3>4 DEF ReadInv, Asking
  <2>3. CASE call.kind # "read"
    BY <2>1, <2>3 DEF ReadInv, Asking
  <2> QED
    BY <2>2, <2>3
<1>6. CASE ReadData
  <2>1. /\ pc = "drq" /\ call.kind = "read" /\ CallOk /\ selected = "slave" /\ selected' = selected
        /\ call.done \in Nat /\ call.n \in Nat /\ call.lba \in Nat /\ call.done < call.n
    BY <1>0, <1>6, InCall DEF ReadData, ReadInv, CallInv, CallOk, CallRecords, Lbas
  <2>2. /\ slave.cmd = "read" /\ slave.lba = call.lba + call.done
        /\ slave.left = call.n - call.done /\ Status = slave /\ ~slave.busy /\ slave \in DriveTypes
    BY <1>0, <1>6, <2>1 DEF ReadData, ReadInv, Status, slave, DriveInv, Drives
  <2>3. drive' = [drive EXCEPT !["slave"] = Taken]
    BY <1>6, <2>1, <2>2 DEF ReadData
  <2>4. slave' = Taken /\ master' = master /\ ~master.busy
    <3>1. slave' = Taken /\ master' = master
      BY <2>3 DEF slave, master, DriveInv, Drives
    <3> QED
      BY <2>1, <3>1 DEF DriveInv, DriveOk, Drives, master
  <2>5. /\ call'.kind = "read" /\ call'.lba = call.lba /\ call'.n = call.n
        /\ call'.done = call.done + 1
        /\ call'.got = Append(call.got, medium["slave"][call.lba + call.done])
    BY <1>6, <2>1, <2>2 DEF ReadData, CallOk, CallRecords
  <2>6. call'.got = [i \in 1 .. call'.done |-> <<"slave", call'.lba + i - 1>>]
    <3>1. medium["slave"][call.lba + call.done] = <<"slave", call.lba + call.done>>
      <4>1. call.lba + call.done \in Lbas
        BY <2>1 DEF CallOk, Lbas
      <4> QED
        BY <4>1 DEF MediumInv, OnlyAskedWritten
    <3>2. call.got = [i \in 1 .. call.done |-> <<"slave", call.lba + i - 1>>]
      BY <1>0, <2>1 DEF ReadInv
    <3>3. /\ DOMAIN call'.got = 1 .. call.done + 1
          /\ \A i \in 1 .. call.done : call'.got[i] = <<"slave", call.lba + i - 1>>
          /\ call'.got[call.done + 1] = <<"slave", call.lba + call.done>>
          /\ call'.got = [i \in 1 .. call.done + 1 |-> call'.got[i]]
      <4>1. call.got \in Seq(Contents \cup {NoData}) /\ Len(call.got) = call.done
        BY <2>1 DEF CallOk, CallRecords
      <4> QED
        BY <2>1, <2>5, <3>1, <3>2, <4>1
    <3>4. \A i \in 1 .. call.done + 1 : call'.got[i] = <<"slave", call.lba + i - 1>>
      BY <2>1, <3>3
    <3> QED
      BY <2>5, <3>3, <3>4
  <2>7. CASE call.done + 1 = call.n
    <3>1. pc' = "idle" /\ Taken = Quiet
      BY <1>6, <2>1, <2>2, <2>7 DEF ReadData, Return, Taken
    <3> QED
      BY <2>4, <2>6, <3>1 DEF ReadInv, AnyBusy, Quiet, Asking
  <2>8. CASE call.done + 1 # call.n
    <3>1. pc' = "drq" /\ slave.left # 1
      BY <1>6, <2>1, <2>2, <2>8 DEF ReadData, Enter
    <3>2. slave'.cmd = "read" /\ slave'.lba = slave.lba + 1 /\ slave'.left = slave.left - 1
      BY <2>2, <2>4, <3>1 DEF Taken, DriveTypes
    <3>3. slave'.lba = call'.lba + call'.done /\ slave'.left = call'.n - call'.done
      <4>1. slave'.lba = (call.lba + call.done) + 1 /\ slave'.left = (call.n - call.done) - 1
        BY <2>2, <3>2
      <4>2. call'.lba + call'.done = call.lba + (call.done + 1)
            /\ call'.n - call'.done = call.n - (call.done + 1)
        BY <2>5
      <4> QED
        BY <2>1, <4>1, <4>2
    <3> QED
      BY <2>1, <2>6, <3>1, <3>2, <3>3 DEF ReadInv, Asking
  <2> QED
    BY <2>7, <2>8
<1>7. CASE WriteData
  <2>1. call.kind = "write" /\ CallOk /\ pc' \in {"flush", "drq"}
    BY <1>7, InCall DEF WriteData, Enter
  <2>2. call'.kind = "write"
    BY <1>7, <2>1 DEF WriteData, CallOk, CallRecords
  <2> QED
    BY <2>1, <2>2 DEF ReadInv, Asking
<1>8. CASE Flush
  BY <1>0, <1>8 DEF Flush, Enter, ReadInv, Asking
<1>9. CASE Hardware
  <2>1. UNCHANGED <<selected, regs, pc, call>> /\ (AnyBusy' => AnyBusy)
    BY <1>9, HardwareStep
  <2>2. CASE pc = "drq" /\ call.kind = "read"
    <3>1. slave.err \/ (/\ slave.cmd = "read" /\ slave.lba = call.lba + call.done
                        /\ slave.left = call.n - call.done)
      BY <1>0, <2>2 DEF ReadInv
    <3>2. slave \in DriveTypes /\ (slave.err => ~slave.busy /\ slave = Erred)
      BY DEF slave, DriveInv, DriveOk, Drives, Erred, Quiet
    <3>3. CASE slave' = [slave EXCEPT !.busy = FALSE, !.drq = TRUE] /\ slave.busy
      BY <1>0, <2>1, <2>2, <3>1, <3>2, <3>3 DEF ReadInv, DriveTypes, Asking
    <3>4. CASE slave' = Erred
      BY <1>0, <2>1, <2>2, <3>4 DEF ReadInv, Erred, Quiet, Asking
    <3>5. CASE slave' = slave
      BY <1>0, <2>1, <2>2, <3>5 DEF ReadInv, Asking
    <3> QED
      BY <1>9, <3>1, <3>2, <3>3, <3>4, <3>5, HardwareStep
  <2>3. CASE ~(pc = "drq" /\ call.kind = "read")
    BY <1>0, <2>1, <2>3 DEF ReadInv
  <2> QED
    BY <2>2, <2>3
<1>10. CASE UNCHANGED vars
  BY <1>0, <1>10 DEF vars, ReadInv, AnyBusy, master, slave
<1> QED
  BY <1>1, <1>2, <1>3, <1>4, <1>5, <1>6, <1>7, <1>8, <1>9, <1>10 DEF Next, Driver

----------------------------------------------------------------------------
\* A step that leaves the disk, the master drive and the call as they are.
LEMMA StoredStays ==
    ASSUME StoredInv, medium' = medium, master' = master, call' = call,
           events' = {} => events = {}, pc' = pc, result' = result
    PROVE  StoredInv'
BY DEF StoredInv, Stored, Returned

LEMMA StoredStep ==
    CallInv /\ DriveInv /\ WriteInv /\ MediumInv /\ ReadInv /\ StoredInv /\ [Next]_vars
        => StoredInv'
<1> SUFFICES ASSUME CallInv, DriveInv, WriteInv, MediumInv, ReadInv, StoredInv, [Next]_vars,
                    events' = {}, call'.kind = "write"
             PROVE  StoredInv'
  BY DEF StoredInv
<1> USE IdeAssumption
<1>0. events = {}
  <2>1. CASE Hardware
    BY <2>1, HardwareStep
  <2>2. CASE Calls \/ Driver
    BY <2>2 DEF Calls, Call, Driver, Poll, NotReady, IsReady, Select, Params, Command, NoDrq,
                ReadData, WriteData, Flush
  <2>3. CASE UNCHANGED vars
    BY <2>3 DEF vars
  <2> QED
    BY <2>1, <2>2, <2>3 DEF Next
<1>1. CASE Calls
  BY <1>1 DEF Calls, Call, Enter, StoredInv, Returned
<1>2. CASE Poll \/ UNCHANGED vars
  BY <1>0, <1>2, StoredStays DEF Poll, vars, master
<1>3. CASE NotReady \/ IsReady \/ NoDrq
  <2>1. UNCHANGED <<medium, drive, call>> /\ CallOk /\ call.kind = "write" /\ pc # "idle"
    BY <1>3, InCall DEF NotReady, IsReady, NoDrq
  <2>2. CASE pc = "settle"
    <3>1. selected = "master" /\ ~master.err
      BY <1>0, <2>1, <2>2 DEF WriteInv, StoredInv
    <3>2. ~master.busy
      BY <1>0, <1>3, <2>2, <3>1 DEF NotReady, IsReady, NoDrq, Status, master
    <3>3. master.latch = NoData
      BY <3>2 DEF DriveInv, DriveOk, Drives, master
    <3>4. Stored(call.n)
      BY <1>0, <2>1, <2>2, <3>3 DEF StoredInv
    <3>5. pc' = "idle"
      BY <1>3, <2>2 DEF NotReady, IsReady, NoDrq, Return
    <3> QED
      BY <2>1, <3>4, <3>5 DEF StoredInv, Stored
  <2>3. CASE pc # "settle"
    <3>1. pc' = "select" \/ (pc' = "idle" /\ result' = "failed")
      BY <1>3, <2>1, <2>3 DEF NotReady, IsReady, NoDrq, Enter, Return
    <3> QED
      BY <3>1 DEF StoredInv, Returned
  <2> QED
    BY <2>2, <2>3
<1>4. CASE Select \/ Params
  BY <1>4 DEF Select, Params, Enter, StoredInv, Returned
<1>5. CASE Command
  <2>1. pc' = "drq" /\ call' = call /\ call.done = 0 /\ pc = "command"
    BY <1>5 DEF Command, Enter, CallInv, Asking
  <2>2. /\ ~AnyBusy /\ selected = "master" /\ drive' = Started("write")
    BY <1>5, <2>1 DEF Command, WriteInv, Asking
  <2>3. master'.latch = NoData
    BY <2>2, StartedAfresh DEF master, Status, AnyBusy
  <2> QED
    BY <2>1, <2>3 DEF StoredInv, Stored, Returned
<1>6. CASE ReadData
  BY <1>6, InCall DEF ReadData, CallOk, CallRecords
<1>7. CASE WriteData
  <2>1. /\ pc = "drq" /\ CallOk /\ call.kind = "write" /\ medium' = medium
        /\ call.done \in Nat /\ call.n \in Nat /\ call.done < call.n
        /\ call.lba \in Nat
        /\ pc' = IF call.done + 1 = call.n THEN "flush" ELSE "drq"
    BY <1>7, InCall DEF WriteData, Enter, CallInv, CallOk, CallRecords, Lbas
  <2>2. /\ selected = "master" /\ ~master.err /\ master.latch = NoData
        /\ master.lba = call.lba + call.done /\ master.left = call.n - call.done
        /\ master \in DriveTypes
    BY <1>7, <2>1 DEF WriteData, WriteInv, Status, master, DriveInv, DriveOk, Drives
  <2>3. /\ call'.done = call.done + 1 /\ call'.n = call.n /\ call'.lba = call.lba
        /\ call'.data = call.data
    BY <1>7, <2>1 DEF WriteData, CallOk, CallRecords
  <2>4. /\ master'.lba = master.lba /\ master'.left = master.left /\ master'.err = master.err
        /\ master'.latch = call.data[call.done + 1]
    BY <1>7, <2>2 DEF WriteData, master, DriveInv, DriveTypes, Drives
  <2>5. call.data[call.done + 1] # NoData
    <3>1. call.done + 1 \in 1 .. call.n
      BY <2>1
    <3> QED
      BY <2>1, <3>1 DEF CallOk
  <2>6. Stored(call.done)
    BY <1>0, <2>1, <2>2 DEF StoredInv
  <2>7. \A i \in 1 .. call.done : medium'["master"][call'.lba + i - 1] = call'.data[i]
    BY <2>1, <2>3, <2>6 DEF Stored
  <2>8. CASE call.done + 1 = call.n
    <3>1. /\ master'.left = 1 /\ master'.latch = call'.data[call'.n]
          /\ master'.lba = call'.lba + call'.n - 1 /\ call'.n - 1 = call.done
      <4>1. call.n - call.done = 1 /\ call.lba + call.done = call.lba + call.n - 1
            /\ call.n - 1 = call.done
        BY <2>1, <2>8
      <4> QED
        BY <2>2, <2>3, <2>4, <2>8, <4>1
    <3> QED
      BY <2>1, <2>2, <2>4, <2>5, <2>7, <2>8, <3>1 DEF StoredInv, Stored, Returned
  <2>9. CASE call.done + 1 # call.n
    <3>1. call'.done - 1 = call.done
      BY <2>1, <2>3
    <3> QED
      BY <2>1, <2>4, <2>5, <2>7, <2>9, <3>1 DEF StoredInv, Stored, Returned
  <2> QED
    BY <2>8, <2>9
<1>8. CASE Flush
  <2>1. /\ pc = "flush" /\ pc' = "settle" /\ UNCHANGED <<medium, call>> /\ drive' = Started("flush")
        /\ selected = "master" /\ ~master.err
    BY <1>0, <1>8 DEF Flush, Enter, WriteInv, StoredInv
  <2>2. CASE master.busy
    <3>1. master' = master
      BY <2>1, <2>2 DEF Started, Status, master
    <3> QED
      BY <1>0, <2>1, <3>1 DEF StoredInv, Stored, Returned
  <2>3. CASE ~master.busy
    <3>1. master.latch = NoData
      BY <2>3 DEF DriveInv, DriveOk, Drives, master
    <3>2. master'.latch = NoData /\ ~master'.err /\ master'.cmd = "flush"
      BY <2>1, <2>3, StartedAfresh DEF Status, master
    <3> QED
      BY <1>0, <2>1, <3>1, <3>2 DEF StoredInv, Stored, Returned
  <2> QED
    BY <2>2, <2>3
<1>9. CASE Hardware
  <2>1. UNCHANGED <<pc, call, result>> /\ "unreported" \notin events' /\ master \in DriveTypes
    BY <1>9, HardwareStep DEF DriveInv, Drives, master
  <2>2. CASE master' = master /\ medium' = medium
    BY <1>0, <2>1, <2>2, StoredStays
  <2>3. CASE pc = "drq" /\ ~master.err
    <3>1. /\ CallOk /\ call.done \in Nat /\ call.n \in Nat /\ call.lba \in Nat
          /\ call.done < call.n /\ master.cmd = "write"
          /\ master.latch # NoData =>
                /\ call.done >= 1 /\ master.latch = call.data[call.done]
                /\ master.lba = call.lba + call.done - 1
                /\ master.left = call.n - call.done + 1
          /\ Stored(IF master.latch = NoData THEN call.done ELSE call.done - 1)
      BY <1>0, <2>1, <2>3, InCall DEF WriteInv, StoredInv, CallInv, CallOk, CallRecords, Lbas
    <3>2. CASE Store("master")
      <4>1. master.latch # NoData /\ master' = Onward(master)
            /\ medium' = [medium EXCEPT !["master"][master.lba] = master.latch]
        BY <3>2 DEF Store, master, DriveInv, Drives
      <4>2. master'.latch = NoData
        BY <2>1, <4>1 DEF Onward, Quiet, DriveTypes
      <4>3. ASSUME NEW i \in 1 .. call.done
            PROVE  medium'["master"][call.lba + i - 1] = call.data[i]
        <5>1. call.lba + i - 1 \in Lbas
          BY <3>1 DEF CallOk, Lbas
        <5>2. CASE i = call.done
          BY <3>1, <4>1, <5>1, <5>2 DEF MediumInv, Drives
        <5>3. CASE i # call.done
          <6>1. i \in 1 .. call.done - 1 /\ call.lba + i - 1 # master.lba
            BY <3>1, <4>1, <5>3
          <6> QED
            BY <3>1, <4>1, <5>1, <6>1 DEF MediumInv, Drives, Stored
        <5> QED
          BY <5>2, <5>3
      <4> QED
        BY <2>1, <2>3, <4>2, <4>3 DEF StoredInv, Stored, Returned
    <3>3. CASE medium' = medium /\ master.latch = NoData
               /\ master' = [master EXCEPT !.busy = FALSE, !.drq = TRUE]
      <4>1. master'.latch = NoData /\ ~master'.err
        BY <2>1, <2>3, <3>3 DEF DriveTypes
      <4> QED
        BY <2>1, <2>3, <3>1, <3>3, <4>1 DEF StoredInv, Stored, Returned
    <3>4. CASE master' = Erred
      BY <2>1, <2>3, <3>4 DEF StoredInv, Returned, Erred, Quiet
    <3> QED
      BY <1>9, <2>2, <3>1, <3>2, <3>3, <3>4, HardwareStep
  <2>4. CASE pc \in {"flush", "settle"}
    <3>1. /\ CallOk /\ call.n \in Nat \ {0} /\ call.lba \in Nat
          /\ ~master.err
          /\ master.latch = NoData => Stored(call.n) /\ (master.busy => master.cmd = "flush")
          /\ master.latch # NoData =>
                /\ Stored(call.n - 1)
                /\ master.left = 1 /\ master.latch = call.data[call.n]
                /\ master.lba = call.lba + call.n - 1
      BY <1>0, <2>1, <2>4, InCall DEF StoredInv, CallOk, CallRecords, Lbas
    <3>2. CASE Store("master")
      <4>1. master.latch # NoData /\ master' = Quiet
            /\ medium' = [medium EXCEPT !["master"][master.lba] = master.latch]
        BY <3>1, <3>2 DEF Store, master, DriveInv, Drives, Onward
      <4>2. ASSUME NEW i \in 1 .. call.n
            PROVE  medium'["master"][call.lba + i - 1] = call.data[i]
        <5>1. call.lba + i - 1 \in Lbas
          BY <3>1 DEF CallOk, Lbas
        <5>2. CASE i = call.n
          BY <3>1, <4>1, <5>1, <5>2 DEF MediumInv, Drives
        <5>3. CASE i # call.n
          <6>1. i \in 1 .. call.n - 1 /\ call.lba + i - 1 # master.lba
            BY <3>1, <4>1, <5>3
          <6> QED
            BY <3>1, <4>1, <5>1, <6>1 DEF MediumInv, Drives, Stored
        <5> QED
          BY <5>2, <5>3
      <4> QED
        BY <2>1, <2>4, <4>1, <4>2 DEF StoredInv, Stored, Returned, Quiet
    <3>3. CASE medium' = medium /\ master.busy /\ master.latch = NoData /\ master' = Quiet
      BY <2>1, <2>4, <3>1, <3>3 DEF StoredInv, Stored, Returned, Quiet
    <3> QED
      BY <1>9, <2>1, <2>2, <3>1, <3>2, <3>3, HardwareStep
  <2>5. CASE pc = "idle"
    <3>1. ~master.busy
      BY <1>0, <2>5 DEF ReadInv, AnyBusy
    <3>2. medium' = medium
      BY <1>9, <3>1, HardwareStep DEF Store, master
    <3> QED
      BY <1>0, <2>1, <2>5, <3>2 DEF StoredInv, Stored, Returned
  <2>6. CASE pc = "drq" /\ master.err
    <3>1. ~master.busy /\ master.latch = NoData
      BY <2>6 DEF DriveInv, DriveOk, Drives, master, Erred, Quiet
    <3> QED
      BY <1>9, <2>2, <3>1, HardwareStep DEF Store, master
  <2> QED
    BY <2>1, <2>3, <2>4, <2>5, <2>6 DEF StoredInv, Returned
<1> QED
  BY <1>1, <1>2, <1>3, <1>4, <1>5, <1>6, <1>7, <1>8, <1>9 DEF Next, Driver

----------------------------------------------------------------------------
LEMMA EventsStep == EventsInv /\ [Next]_vars => EventsInv'
<1> SUFFICES ASSUME EventsInv, [Next]_vars PROVE EventsInv'
  OBVIOUS
<1>1. events' \subseteq events \cup {"timeout", "unreported"}
  <2>1. CASE Hardware
    BY <2>1 DEF Hardware, Serve, Store, Fail
  <2>2. CASE Calls
    BY <2>2 DEF Calls, Call
  <2>3. CASE Driver
    BY <2>3 DEF Driver, Poll, NotReady, IsReady, Select, Params, Command, NoDrq,
                ReadData, WriteData, Flush
  <2> QED
    BY <2>1, <2>2, <2>3 DEF Next, vars
<1> QED
  BY <1>1 DEF EventsInv

LEMMA Initially == Init => IInv
<1> SUFFICES ASSUME Init PROVE IInv
  OBVIOUS
<1> USE IdeAssumption DEF Init
<1>1. 0 \in Lbas /\ 0 \in 0 .. MaxSectors
  BY DEF Lbas
<1>2. Quiet \in DriveTypes /\ ~Quiet.busy /\ ~Quiet.err /\ ~Quiet.drq /\ Quiet.cmd = "none"
      /\ Quiet.latch = NoData
  BY <1>1 DEF Quiet, DriveTypes
<1>3. CallInv
  BY <1>1 DEF CallInv, NoCall, Asking
<1>4. DriveInv
  BY <1>1, <1>2 DEF DriveInv, DriveOk, Drives
<1>5. MediumInv
  BY <1>2 DEF MediumInv, OnlyAskedWritten, Contents, Drives, master
<1>6. WriteInv /\ StoredInv /\ EventsInv
  BY DEF WriteInv, StoredInv, EventsInv, NoCall
<1>7. ReadInv
  BY <1>2 DEF ReadInv, NoCall, AnyBusy, master, slave, Drives
<1> QED
  BY <1>3, <1>4, <1>5, <1>6, <1>7 DEF IInv

LEMMA Inductive == Spec => []IInv
<1>1. IInv /\ [Next]_vars => IInv'
  BY EventsStep, CallStep, DriveStep, WriteStep, MediumStep, ReadStep, StoredStep DEF IInv
<1> QED
  BY <1>1, Initially, PTL DEF Spec

\* Types; and that no command ever leaves the drive or takes more sectors than
\* there are.
THEOREM TypeCorrect == Spec => []TypeOK
<1>1. IInv => TypeOK
  <2> SUFFICES ASSUME IInv PROVE TypeOK
    OBVIOUS
  <2>1. call.done \in 0 .. call.n
    BY IdeAssumption DEF IInv, CallInv, CallOk, CallRecords, NoCall
  <2>2. events \subseteq {"timeout", "unreported"}
    BY DEF IInv, EventsInv
  <2> QED
    BY <2>1, <2>2 DEF IInv, CallInv, DriveInv, MediumInv, DriveTypes, TypeOK
<1> QED
  BY <1>1, Inductive, PTL

\* ide.c, as a whole: nothing is written where no call asked for it, for drives
\* that are as slow as they like, fail and miss commands.
THEOREM OnlyAskedIsWritten == Spec => []OnlyAskedWritten
<1>1. IInv => OnlyAskedWritten
  BY DEF IInv, MediumInv
<1> QED
  BY <1>1, Inductive, PTL

\* ide_read_sectors: what a read that reports success has delivered, as long as
\* no wait has run out.
THEOREM GoodReadsAreTrue == Spec => []GoodReadsAreRight
<1>1. IInv => GoodReadsAreRight
  <2> SUFFICES ASSUME IInv, "timeout" \notin events, Returned("read")
               PROVE  call.got = [i \in 1 .. call.n |-> medium["slave"][call.lba + i - 1]]
    BY DEF GoodReadsAreRight
  <2>1. CallOk /\ call.done = call.n /\ call.kind = "read"
    BY DEF IInv, CallInv, Returned
  <2>2. call.got = [i \in 1 .. call.n |-> <<"slave", call.lba + i - 1>>]
    BY <2>1 DEF IInv, ReadInv
  <2>3. \A i \in 1 .. call.n : call.lba + i - 1 \in Lbas
    BY <2>1, IdeAssumption DEF CallOk, CallRecords, Lbas
  <2>4. \A i \in 1 .. call.n : medium["slave"][call.lba + i - 1] = <<"slave", call.lba + i - 1>>
    BY <2>3 DEF IInv, MediumInv, OnlyAskedWritten
  <2> QED
    BY <2>2, <2>4
<1> QED
  BY <1>1, Inductive, PTL

\* ide_write_sectors: a write that reports success is on the medium, as long as
\* no wait has run out and the drive did not fail at what is not asked about.
THEOREM GoodWritesAreThere == Spec => []GoodWritesLand
<1>1. IInv => GoodWritesLand
  BY DEF IInv, StoredInv, Stored, Returned, GoodWritesLand
<1> QED
  BY <1>1, Inductive, PTL
=============================================================================
