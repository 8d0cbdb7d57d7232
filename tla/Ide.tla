-------------------------------- MODULE Ide --------------------------------
(***************************************************************************)
(* The ATA driver of drivers/ide.c and the two drives of its channel.  The *)
(* driver polls the status register a bounded number of times and gives up; *)
(* the drives take as long as they like.  A drive that is busy takes no    *)
(* notice of what is written to its registers.                             *)
(*                                                                         *)
(* Sectors are moved whole.  The driver selects the slave to read          *)
(* (defult_device, 0xF0) and the master to write (0xE0), as the code does. *)
(***************************************************************************)
EXTENDS Integers, Sequences

CONSTANTS
    LastLba,        \* highest sector of a drive
    MaxSectors,     \* most sectors in a call
    Values,         \* what a sector may be given to hold
    Buffers,        \* the buffers callers write from: sequences of Values
    Timeout         \* polls that may be in vain before the last one (99999)

NoData == "no data"

ASSUME IdeAssumption ==
    /\ LastLba \in Nat /\ MaxSectors \in Nat \ {0} /\ Timeout \in Nat
    /\ \A data \in Buffers : /\ data \in Seq(Values)
                             /\ Len(data) \in 1 .. MaxSectors
    /\ NoData \notin Values

VARIABLES
    medium,         \* medium[d][lba]: what the drives hold
    drive,          \* drive[d]: its status bits and the command it is at
    selected,       \* the drive the head register selects
    regs,           \* sector address and count registers
    pc,             \* where the driver is
    polls,          \* what is left of timeout
    call,           \* the call the driver is in, or was in last
    result,         \* what that call returned
    asked,          \* pairs of sector and value that were to be written
    events          \* what happened that the driver does not cope with

vars == <<medium, drive, selected, regs, pc, polls, call, result, asked, events>>

Lbas == 0 .. LastLba
Drives == {"master", "slave"}

\* A drive with nothing to do.  latch: the sector it was given to write.
Quiet == [busy |-> FALSE, drq |-> FALSE, err |-> FALSE, cmd |-> "none",
          lba |-> 0, left |-> 0, latch |-> NoData]

NoCall == [kind |-> "none", lba |-> 0, n |-> 0, data |-> <<>>, done |-> 0, got |-> <<>>]

Status == drive[selected]

----------------------------------------------------------------------------
(* The drives.                                                             *)

Erred == [Quiet EXCEPT !.err = TRUE]

\* The next sector of a read is ready to be taken, the next one of a write may
\* be given, a flush is done.
Serve(d) ==
    /\ drive[d].busy /\ drive[d].latch = NoData
    /\ drive' = [drive EXCEPT ![d] = IF @.cmd = "flush" THEN Quiet
                                     ELSE [@ EXCEPT !.busy = FALSE, !.drq = TRUE]]
    /\ UNCHANGED <<medium, selected, regs, pc, polls, call, result, asked, events>>

\* What drive r has to do once it has stored a sector: take the next one.
Onward(r) ==
    IF r.left = 1 THEN Quiet
    ELSE [r EXCEPT !.busy = FALSE, !.drq = TRUE, !.latch = NoData,
                   !.lba = r.lba + 1, !.left = r.left - 1]

\* The sector given is on the medium.
Store(d) ==
    /\ drive[d].busy /\ drive[d].latch # NoData
    /\ medium' = [medium EXCEPT ![d][drive[d].lba] = drive[d].latch]
    /\ drive' = [drive EXCEPT ![d] = Onward(drive[d])]
    /\ UNCHANGED <<selected, regs, pc, polls, call, result, asked, events>>

\* The drive fails at what it is doing.  Nobody looks at the outcome of the
\* last sector of a write, nor of a flush.
Fail(d) ==
    /\ drive[d].busy
    /\ drive' = [drive EXCEPT ![d] = Erred]
    /\ events' = IF drive[d].cmd = "flush" \/ (drive[d].latch # NoData /\ drive[d].left = 1)
                 THEN events \cup {"unreported"} ELSE events
    /\ UNCHANGED <<medium, selected, regs, pc, polls, call, result, asked>>

\* Command c is written to the command register.
Started(c) ==
    IF Status.busy THEN drive
    ELSE [drive EXCEPT ![selected] =
             [Quiet EXCEPT !.busy = TRUE, !.cmd = c, !.lba = regs.lba, !.left = regs.count]]

----------------------------------------------------------------------------
(* The driver.                                                             *)

Enter(where) == pc' = where /\ polls' = Timeout

Return(r) == pc' = "idle" /\ result' = r /\ polls' = 0

Call(kind, lba, data) ==
    /\ pc = "idle"
    /\ call' = [kind |-> kind, lba |-> lba, n |-> Len(data), data |-> data,
                done |-> 0, got |-> <<>>]
    /\ asked' = IF kind = "write"
                THEN asked \cup {<<lba + i - 1, data[i]>> : i \in DOMAIN data} ELSE asked
    /\ result' = "none"
    /\ Enter("ready")
    /\ UNCHANGED <<medium, drive, selected, regs, events>>

\* Mutant: the loops poll until something happens.
PollForever ==
    /\ \/ pc \in {"ready", "settle"} /\ Status.busy
       \/ pc = "drq" /\ ~Status.err /\ (Status.busy \/ ~Status.drq)
    /\ UNCHANGED vars

\* A poll of ide_wait_ready or ide_wait_drq that learns nothing.
Poll ==
    /\ \/ pc \in {"ready", "settle"} /\ Status.busy
       \/ pc = "drq" /\ ~Status.err /\ (Status.busy \/ ~Status.drq)
    /\ polls > 0
    /\ polls' = polls - 1
    /\ UNCHANGED <<medium, drive, selected, regs, pc, call, result, asked, events>>

\* Mutant: a write does not look at the answer of ide_wait_ready either.
NotReadyIgnored ==
    /\ pc \in {"ready", "settle"}
    /\ IF Status.busy THEN polls = 0 ELSE Status.err
    /\ IF pc = "settle" THEN Return("ok") ELSE Enter("select") /\ UNCHANGED result
    /\ events' = IF Status.busy THEN events \cup {"timeout"} ELSE events
    /\ UNCHANGED <<medium, drive, selected, regs, call, asked>>

\* ide_wait_ready gives up or finds an error.  A write fails; a read goes on;
\* after a flush it makes no difference.
NotReady ==
    /\ pc \in {"ready", "settle"}
    /\ IF Status.busy THEN polls = 0 ELSE Status.err
    /\ CASE pc = "settle" -> Return("ok")
         [] pc = "ready" /\ call.kind = "read" -> Enter("select") /\ UNCHANGED result
         [] pc = "ready" /\ call.kind = "write" -> Return("failed")
    /\ events' = IF Status.busy THEN events \cup {"timeout"} ELSE events
    /\ UNCHANGED <<medium, drive, selected, regs, call, asked>>

\* ide_wait_ready finds the drive ready.
IsReady ==
    /\ pc \in {"ready", "settle"}
    /\ ~Status.busy /\ ~Status.err
    /\ IF pc = "settle" THEN Return("ok") ELSE Enter("select") /\ UNCHANGED result
    /\ UNCHANGED <<medium, drive, selected, regs, call, asked, events>>

\* The drive/head register.
Select ==
    /\ pc = "select"
    /\ selected' = IF Status.busy THEN selected
                   ELSE IF call.kind = "read" THEN "slave" ELSE "master"
    /\ Enter("params")
    /\ UNCHANGED <<medium, drive, regs, call, result, asked, events>>

\* The count and address registers.
Params ==
    /\ pc = "params"
    /\ regs' = IF Status.busy THEN regs ELSE [lba |-> call.lba, count |-> call.n]
    /\ Enter("command")
    /\ UNCHANGED <<medium, drive, selected, call, result, asked, events>>

Command ==
    /\ pc = "command"
    /\ drive' = Started(call.kind)
    /\ Enter("drq")
    /\ UNCHANGED <<medium, selected, regs, call, result, asked, events>>

\* Mutant: a wait that ends with an error ends the loop like the last sector.
NoDrqUnreported ==
    /\ pc = "drq"
    /\ Status.err \/ (polls = 0 /\ (Status.busy \/ ~Status.drq))
    /\ Return("ok")
    /\ events' = IF Status.err THEN events ELSE events \cup {"timeout"}
    /\ UNCHANGED <<medium, drive, selected, regs, call, asked>>

\* ide_wait_drq gives up or finds an error.
NoDrq ==
    /\ pc = "drq"
    /\ Status.err \/ (polls = 0 /\ (Status.busy \/ ~Status.drq))
    /\ Return("failed")
    /\ events' = IF Status.err THEN events ELSE events \cup {"timeout"}
    /\ UNCHANGED <<medium, drive, selected, regs, call, asked>>

\* The selected drive once a sector was read from it.
Taken == IF Status.left = 1 THEN Quiet
         ELSE [Status EXCEPT !.busy = TRUE, !.drq = FALSE, !.lba = @ + 1, !.left = @ - 1]

\* 256 words are read: those of a sector, or of nothing if the drive waits for
\* data itself.
ReadData ==
    /\ pc = "drq" /\ call.kind = "read"
    /\ Status.drq /\ ~Status.busy /\ ~Status.err
    /\ call' = [call EXCEPT !.done = @ + 1,
                            !.got = Append(@, IF Status.cmd = "read"
                                              THEN medium[selected][Status.lba] ELSE NoData)]
    /\ drive' = IF Status.cmd = "read" THEN [drive EXCEPT ![selected] = Taken] ELSE drive
    /\ IF call.done + 1 = call.n THEN Return("ok") ELSE Enter("drq") /\ UNCHANGED result
    /\ UNCHANGED <<medium, selected, regs, asked, events>>

\* 256 words are written; after the last ones the flush.
WriteData ==
    /\ pc = "drq" /\ call.kind = "write"
    /\ Status.drq /\ ~Status.busy /\ ~Status.err
    /\ drive' = [drive EXCEPT ![selected].busy = TRUE, ![selected].drq = FALSE,
                              ![selected].latch = call.data[call.done + 1]]
    /\ call' = [call EXCEPT !.done = @ + 1]
    /\ Enter(IF call.done + 1 = call.n THEN "flush" ELSE "drq")
    /\ UNCHANGED <<medium, selected, regs, result, asked, events>>

\* Mutant: the call returns without waiting for the flush.
FlushUnwaited ==
    /\ pc = "flush"
    /\ drive' = Started("flush")
    /\ Return("ok")
    /\ UNCHANGED <<medium, selected, regs, call, asked, events>>

\* The flush command, whether the drive is done with the last sector or not.
Flush ==
    /\ pc = "flush"
    /\ drive' = Started("flush")
    /\ Enter("settle")
    /\ UNCHANGED <<medium, selected, regs, call, result, asked, events>>

----------------------------------------------------------------------------
\* ide_init selects the slave; every sector of a drive holds something of its
\* own.
Init ==
    /\ medium = [d \in Drives |-> [l \in Lbas |-> <<d, l>>]]
    /\ drive = [d \in Drives |-> Quiet]
    /\ selected = "slave"
    /\ regs = [lba |-> 0, count |-> 0]
    /\ pc = "idle" /\ polls = 0
    /\ call = NoCall /\ result = "none"
    /\ asked = {} /\ events = {}

Driver ==
    \/ Poll \/ NotReady \/ IsReady \/ Select \/ Params \/ Command
    \/ NoDrq \/ ReadData \/ WriteData \/ Flush

Calls ==
    \E l \in Lbas :
        \/ \E n \in 1 .. MaxSectors :
              /\ l + n - 1 <= LastLba
              /\ Call("read", l, [i \in 1 .. n |-> NoData])
        \/ \E data \in Buffers :
              /\ l + Len(data) - 1 <= LastLba
              /\ Call("write", l, data)

Hardware == \E d \in Drives : Serve(d) \/ Store(d) \/ Fail(d)

Next == Calls \/ Driver \/ Hardware

Spec == Init /\ [][Next]_vars

\* The processor goes on; the drives need not.
FairSpec == Spec /\ WF_vars(Driver)

----------------------------------------------------------------------------
(* Properties.                                                             *)

Contents == Values \cup (Drives \X Lbas)

TypeOK ==
    /\ medium \in [Drives -> [Lbas -> Contents]]
    /\ drive \in [Drives -> [busy : BOOLEAN, drq : BOOLEAN, err : BOOLEAN,
                             cmd : {"none", "read", "write", "flush"},
                             lba : Lbas, left : 0 .. MaxSectors,
                             latch : Values \cup {NoData}]]
    /\ selected \in Drives
    /\ regs \in [lba : Lbas, count : 0 .. MaxSectors]
    /\ pc \in {"idle", "ready", "select", "params", "command", "drq", "flush", "settle"}
    /\ polls \in 0 .. Timeout
    /\ call.done \in 0 .. call.n
    /\ result \in {"none", "ok", "failed"}
    /\ asked \subseteq Lbas \X Values
    /\ events \subseteq {"timeout", "unreported"}

Returned(kind) == pc = "idle" /\ result = "ok" /\ call.kind = kind

\* A read that returns 0 delivered the sectors asked for, in their order,
\* whatever failed before and however often, as long as no wait ran out.
GoodReadsAreRight ==
    "timeout" \notin events /\ Returned("read") =>
        call.got = [i \in 1 .. call.n |-> medium["slave"][call.lba + i - 1]]

\* A write that returns 0 is on the medium, unless the drive failed at what
\* the driver does not ask about.
GoodWritesLand ==
    events = {} /\ Returned("write") =>
        \A i \in 1 .. call.n : medium["master"][call.lba + i - 1] = call.data[i]

\* Nothing is written that was not to be written there, and nothing at all to
\* the slave: also when waits run out, commands are not taken notice of and
\* sectors arrive late.
OnlyAskedWritten ==
    \A l \in Lbas :
        /\ medium["slave"][l] = <<"slave", l>>
        /\ medium["master"][l] # <<"master", l>> => <<l, medium["master"][l]>> \in asked

\* Every call returns, even if the drives never answer.
CallsReturn == pc # "idle" ~> pc = "idle"

=============================================================================
