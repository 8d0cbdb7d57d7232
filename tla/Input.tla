------------------------------- MODULE Input -------------------------------
(***************************************************************************)
(* Interrupts and PS/2 input: the two PICs and the dispatcher (idt.c,      *)
(* drivers/pic.c), the handlers of timer.c, drivers/keyboard.c and         *)
(* drivers/ps2_mouse.c, the start of kmain that sets them up, and the PS/2 *)
(* controller, whose one output buffer the keyboard and the mouse share.   *)
(*                                                                         *)
(* A byte is a record of where it comes from and what it says.  The second *)
(* PIC is on line 2 of the first; the mouse is its line 12.                *)
(***************************************************************************)
EXTENDS Integers, Sequences, FiniteSets, FiniteSetsExt

CONSTANTS
    Letter, CapsLock,       \* keys, with the two shift keys
    LeftShift, RightShift,
    Keys,                   \* the keys that are used
    MaxQueue                \* bound: bytes the keyboard keeps

ASSUME InputAssumption ==
    /\ Keys \subseteq {Letter, CapsLock, LeftShift, RightShift}
    /\ MaxQueue \in Nat \ {0}

VARIABLES
    \* the first processor and what it runs
    boot,           \* how far kmain is, an index of Steps
    registered,     \* interrupt_handlers: the lines that have one
    enabled,        \* the interrupt flag
    stack,          \* the handlers in progress, the innermost last
    \* the PICs
    irr, isr, masked,
    ticked,         \* pace of the timer, see Tick
    \* the PS/2 controller and its devices
    full, last,     \* the output buffer, and what it held before
    reply,          \* the controller owes its configuration
    config,
    kqueue, mqueue, held, streaming,
    \* the drivers
    shift_pressed, caps_lock, mouse_cycle, mouse_packet,
    events          \* bytes read by somebody they were not for

cpu  == <<boot, registered, enabled, stack>>
pics == <<irr, isr, masked, ticked>>
port == <<full, last, reply, config>>
devices == <<kqueue, mqueue, held, streaming>>
drivers == <<shift_pressed, caps_lock, mouse_cycle, mouse_packet>>
vars == <<cpu, pics, port, devices, drivers, events>>

Lines == {0, 1, 2, 12}
ShiftKeys == {LeftShift, RightShift}

Ack == -1                               \* the mouse answers a command

KeyBytes == [from : {"keyboard"}, key : Keys, up : BOOLEAN]
MouseBytes == [from : {"mouse"}, is : {0, 1, 2, Ack}]
Config == [from |-> "controller"]
NoByte == [from |-> "nowhere"]
Bytes == KeyBytes \cup MouseBytes \cup {Config}

\* The calls of kmain, up to sti; mouse_init in pieces, a write and the read of
\* its answer for each of its four commands.
Steps == <<"pic_remap", "timer_init", "keyboard_init", "ask", "config",
           "write", "read", "write", "read", "write", "read", "write", "read",
           "masks", "sti", "main">>
At(step) == Steps[boot] = step /\ stack = <<>>
Advance == boot' = boot + 1

----------------------------------------------------------------------------
(* The controller and the devices.                                         *)

Line(b) == IF b.from = "mouse" THEN 12 ELSE 1
Wired(b) == IF b.from = "mouse" THEN config.auxInt ELSE config.kbdInt

\* A byte reaches the empty output buffer; its line rises, and the PIC notes
\* that.  Not every controller does so for its own answers.
Loaded(b) ==
    /\ full = NoByte
    /\ full' = b
    /\ \/ irr' = IF Wired(b) THEN irr \cup {Line(b)} ELSE irr
       \/ b = Config /\ UNCHANGED irr
    /\ UNCHANGED <<cpu, isr, masked, ticked, last, config, held, streaming, drivers, events>>

LoadReply == reply /\ Loaded(Config) /\ reply' = FALSE /\ UNCHANGED <<kqueue, mqueue>>

LoadKey ==
    /\ ~reply /\ ~config.kbdOff /\ kqueue # <<>>
    /\ Loaded(Head(kqueue))
    /\ kqueue' = Tail(kqueue) /\ UNCHANGED <<reply, mqueue>>

LoadMouse ==
    /\ ~reply /\ ~config.auxOff /\ mqueue # <<>>
    /\ Loaded(Head(mqueue))
    /\ mqueue' = Tail(mqueue) /\ UNCHANGED <<reply, kqueue>>

\* A key goes down or up.
Strike(k) ==
    /\ Len(kqueue) < MaxQueue
    /\ held' = IF k \in held THEN held \ {k} ELSE held \cup {k}
    /\ kqueue' = Append(kqueue, [from |-> "keyboard", key |-> k, up |-> k \in held])
    /\ UNCHANGED <<cpu, pics, port, mqueue, streaming, drivers, events>>

MouseByte(n) == [from |-> "mouse", is |-> n]

\* The mouse moved, and has a packet to send.
Move ==
    /\ streaming /\ mqueue = <<>>
    /\ mqueue' = <<MouseByte(0), MouseByte(1), MouseByte(2)>>
    /\ UNCHANGED <<cpu, pics, port, kqueue, held, streaming, drivers, events>>

\* The timer's line.  Ticks are a millisecond apart, which is more than the
\* handlers need: whoever waits is served before the next tick but one.
Tick ==
    /\ 0 \in registered /\ ~ticked
    /\ irr' = irr \cup {0} /\ ticked' = TRUE
    /\ UNCHANGED <<cpu, isr, masked, port, devices, drivers, events>>

\* in al, 0x60: the byte in the output buffer, or the last one once more.  The
\* line falls; whether the PIC forgets a rise it had noted depends on the PIC.
Byte == IF full = NoByte THEN last ELSE full
ReadPort ==
    /\ full' = NoByte /\ last' = Byte
    /\ \/ UNCHANGED irr
       \/ full # NoByte /\ irr' = irr \ {Line(full)}

----------------------------------------------------------------------------
(* The start of kmain, with interrupts off.                                *)

PicRemap ==
    /\ At("pic_remap") /\ Advance
    /\ irr' = {} /\ isr' = {} /\ masked' = Lines
    /\ UNCHANGED <<registered, enabled, stack, ticked, port, devices, drivers, events>>

TimerInit ==
    /\ At("timer_init") /\ Advance
    /\ registered' = registered \cup {0}
    /\ UNCHANGED <<enabled, stack, pics, port, devices, drivers, events>>

KeyboardInit ==
    /\ At("keyboard_init") /\ Advance
    /\ registered' = registered \cup {1}
    /\ masked' = masked \ {1}
    /\ UNCHANGED <<enabled, stack, irr, isr, ticked, port, devices, drivers, events>>

\* mouse_init enables the mouse's port and asks for the configuration byte.
AskConfig ==
    /\ At("ask") /\ Advance
    /\ reply' = TRUE /\ config' = [config EXCEPT !.auxOff = FALSE]
    /\ UNCHANGED <<registered, enabled, stack, pics, full, last, devices, drivers, events>>

\* What is wrong with a byte read by a wait for one that says expected.
Amiss(expected) ==
    IF full = NoByte THEN {"timeout"} ELSE IF full = expected THEN {} ELSE {"stray"}

\* mouse_wait(0) ends with a byte or by its bound, and port 0x60 is read; the
\* byte comes back as the configuration, with the mouse's interrupt on.
GetConfig ==
    /\ At("config") /\ Advance
    /\ ReadPort
    /\ IF Byte = Config
       THEN config' = [config EXCEPT !.auxInt = TRUE]
       ELSE config' \in [kbdInt : BOOLEAN, auxInt : {TRUE}, kbdOff : BOOLEAN, auxOff : BOOLEAN]
    /\ events' = events \cup Amiss(Config)
    /\ UNCHANGED <<registered, enabled, stack, isr, masked, ticked, reply, devices, drivers>>

\* mouse_write.  After the last command the mouse sends packets.
MouseWrite ==
    /\ At("write") /\ Advance
    /\ mqueue' = Append(mqueue, MouseByte(Ack))
    /\ streaming' = (Steps[boot + 2] = "masks")
    /\ UNCHANGED <<registered, enabled, stack, pics, port, kqueue, held, drivers, events>>

\* mouse_read.
MouseRead ==
    /\ At("read") /\ Advance
    /\ ReadPort
    /\ events' = events \cup Amiss(MouseByte(Ack))
    /\ UNCHANGED <<registered, enabled, stack, isr, masked, ticked, reply, config, devices, drivers>>

\* The end of mouse_init.
SetMasks ==
    /\ At("masks") /\ Advance
    /\ masked' = {0}
    /\ registered' = registered \cup {12}
    /\ UNCHANGED <<enabled, stack, irr, isr, ticked, port, devices, drivers, events>>

\* Mutant: the line of the second PIC stays masked.
StiNoCascade ==
    /\ At("sti") /\ Advance
    /\ masked' = {2} /\ enabled' = TRUE
    /\ UNCHANGED <<registered, stack, irr, isr, ticked, port, devices, drivers, events>>

\* kmain sets its own masks, and sti.
Sti ==
    /\ At("sti") /\ Advance
    /\ masked' = {} /\ enabled' = TRUE
    /\ UNCHANGED <<registered, stack, irr, isr, ticked, port, devices, drivers, events>>

----------------------------------------------------------------------------
(* Interrupts.                                                             *)

\* The lines the PICs would interrupt for: noted, not masked, and nothing as
\* urgent in service.
Pending ==
    {i \in irr \ masked : /\ i = 12 => 2 \notin masked
                          /\ \A j \in isr : i < j}

Top == stack[Len(stack)]
Own(irq) == CASE irq = 12 -> {2, 12} [] irq = 15 -> {2} [] irq = 7 -> {} [] OTHER -> {irq}

\* Mutant: the gates of idt_init are trap gates, which leave interrupts on.
TakeNested(i) ==
    /\ enabled /\ Pending # {} /\ i = Min(Pending)
    /\ irr' = irr \ {i} /\ isr' = isr \cup Own(i)
    /\ stack' = Append(stack, [irq |-> i, at |-> "handler"])
    /\ ticked' = (i = 0 /\ Pending # {0})
    /\ UNCHANGED <<boot, registered, enabled, masked, port, devices, drivers, events>>

\* The processor takes the most urgent interrupt, through an interrupt gate,
\* which turns interrupts off.
Take(i) ==
    /\ enabled /\ Pending # {} /\ i = Min(Pending)
    /\ irr' = irr \ {i} /\ isr' = isr \cup Own(i)
    /\ stack' = Append(stack, [irq |-> i, at |-> "handler"])
    /\ ticked' = (i = 0 /\ Pending # {0})
    /\ enabled' = FALSE
    /\ UNCHANGED <<boot, registered, masked, port, devices, drivers, events>>

\* A line fell too early: its PIC names its last line, 7 or 15, and has nothing
\* in service.
Spurious(i) ==
    /\ enabled /\ Pending = {}
    /\ isr' = isr \cup Own(i)
    /\ stack' = Append(stack, [irq |-> i, at |-> "handler"])
    /\ enabled' = FALSE
    /\ UNCHANGED <<boot, registered, irr, masked, ticked, port, devices, drivers, events>>

Running(irq) == stack # <<>> /\ Top = [irq |-> irq, at |-> "handler"] /\ irq \in registered
Handled == stack' = [stack EXCEPT ![Len(stack)].at = "eoi"]

\* An end-of-interrupt command ends the most urgent service of the PIC.
EndedByMaster(s) == s \ (IF s \cap {0, 1, 2} = {} THEN {} ELSE {Min(s \cap {0, 1, 2})})
EndedBySlave(s) == s \ {12}

\* timer_callback has a command of its own.
TimerCallback ==
    /\ Running(0) /\ Handled
    /\ isr' = EndedByMaster(isr)
    /\ UNCHANGED <<boot, registered, enabled, irr, masked, ticked, port, devices, drivers, events>>

\* Mutant: letting go of the right shift key is not noticed.
DecodeLeftOnly(key, up) ==
    /\ shift_pressed' = IF key \in ShiftKeys /\ ~up THEN TRUE
                        ELSE IF key = LeftShift THEN FALSE ELSE shift_pressed
    /\ caps_lock' = IF key = CapsLock /\ ~up THEN ~caps_lock ELSE caps_lock

Decode(key, up) ==
    /\ shift_pressed' = IF key \in ShiftKeys THEN ~up ELSE shift_pressed
    /\ caps_lock' = IF key = CapsLock /\ ~up THEN ~caps_lock ELSE caps_lock

\* keyboard_callback takes what the port has for a scan code.  The answers of
\* the mouse are the release of no key in its table; other bytes may be any.
KeyboardCallback ==
    /\ Running(1) /\ Handled
    /\ ReadPort
    /\ \/ Byte \in KeyBytes /\ Decode(Byte.key, Byte.up)
       \/ Byte = MouseByte(Ack) /\ UNCHANGED <<shift_pressed, caps_lock>>
       \/ /\ Byte \notin KeyBytes \cup {MouseByte(Ack)}
          /\ \E k \in Keys, up \in BOOLEAN : Decode(k, up)
    /\ events' = events \cup IF full.from = "mouse" THEN {"stolen"} ELSE {}
    /\ UNCHANGED <<boot, registered, enabled, isr, masked, ticked, reply, config, devices,
                   mouse_cycle, mouse_packet>>

\* Mutant: the status register is not looked at.
MouseHandlerUnchecked ==
    /\ Running(12) /\ Handled
    /\ ReadPort
    /\ mouse_packet' = [mouse_packet EXCEPT ![mouse_cycle + 1] = Byte]
    /\ mouse_cycle' = (mouse_cycle + 1) % 3
    /\ UNCHANGED <<boot, registered, enabled, isr, masked, ticked, reply, config, devices,
                   shift_pressed, caps_lock, events>>

\* mouse_handler: a byte, if there is one and it is the mouse's.
MouseHandler ==
    /\ Running(12) /\ Handled
    /\ IF full.from = "mouse"
       THEN /\ ReadPort
            /\ mouse_packet' = [mouse_packet EXCEPT ![mouse_cycle + 1] = full]
            /\ mouse_cycle' = (mouse_cycle + 1) % 3
       ELSE UNCHANGED <<irr, full, last, mouse_packet, mouse_cycle>>
    /\ UNCHANGED <<boot, registered, enabled, isr, masked, ticked, reply, config, devices,
                   shift_pressed, caps_lock, events>>

\* idt_handler finds no handler.
Unhandled ==
    /\ stack # <<>> /\ Top.at = "handler" /\ Top.irq \notin registered
    /\ Handled
    /\ UNCHANGED <<boot, registered, enabled, pics, port, devices, drivers, events>>

\* Mutant: only the first PIC is told.
SendEoiToMaster ==
    /\ stack # <<>> /\ Top.at = "eoi"
    /\ isr' = EndedByMaster(isr)
    /\ stack' = SubSeq(stack, 1, Len(stack) - 1)
    /\ enabled' = TRUE
    /\ UNCHANGED <<boot, registered, irr, masked, ticked, port, devices, drivers, events>>

\* send_eoi, and iretq.
SendEoi ==
    /\ stack # <<>> /\ Top.at = "eoi"
    /\ isr' = EndedByMaster(IF Top.irq >= 8 THEN EndedBySlave(isr) ELSE isr)
    /\ stack' = SubSeq(stack, 1, Len(stack) - 1)
    /\ enabled' = TRUE
    /\ UNCHANGED <<boot, registered, irr, masked, ticked, port, devices, drivers, events>>

----------------------------------------------------------------------------
\* The firmware left the keyboard and its interrupt on, the mouse quiet, and
\* masks of its own.
Init ==
    /\ boot = 1 /\ registered = {} /\ enabled = FALSE /\ stack = <<>>
    /\ irr = {} /\ isr = {} /\ masked = {} /\ ticked = FALSE
    /\ full = NoByte /\ last = NoByte /\ reply = FALSE
    /\ config = [kbdInt |-> TRUE, auxInt |-> FALSE, kbdOff |-> FALSE, auxOff |-> TRUE]
    /\ kqueue = <<>> /\ mqueue = <<>> /\ held = {} /\ streaming = FALSE
    /\ shift_pressed = FALSE /\ caps_lock = FALSE
    /\ mouse_cycle = 0 /\ mouse_packet = <<NoByte, NoByte, NoByte>>
    /\ events = {}

Boot ==
    \/ PicRemap \/ TimerInit \/ KeyboardInit \/ AskConfig \/ GetConfig
    \/ MouseWrite \/ MouseRead \/ SetMasks \/ Sti

Handlers ==
    \/ TimerCallback \/ KeyboardCallback \/ MouseHandler \/ Unhandled \/ SendEoi

Cpu == Boot \/ Handlers \/ \E i \in Lines : Take(i)

Hardware ==
    \/ LoadReply \/ LoadKey \/ LoadMouse \/ Move \/ Tick
    \/ \E k \in Keys : Strike(k)
    \/ Spurious(7) \/ Spurious(15)

Next == Cpu \/ Hardware

Spec == Init /\ [][Next]_vars

\* The processor goes on.  Nothing is asked of the devices or of the user.
FairSpec == Spec /\ WF_vars(Cpu)

----------------------------------------------------------------------------
(* Properties.                                                             *)

TypeOK ==
    /\ boot \in DOMAIN Steps /\ registered \subseteq Lines /\ enabled \in BOOLEAN
    /\ stack \in Seq([irq : Lines \cup {7, 15}, at : {"handler", "eoi"}])
    /\ irr \subseteq Lines /\ isr \subseteq Lines /\ masked \subseteq Lines
    /\ ticked \in BOOLEAN /\ reply \in BOOLEAN /\ streaming \in BOOLEAN
    /\ full \in Bytes \cup {NoByte} /\ last \in Bytes \cup {NoByte}
    /\ config \in [kbdInt : BOOLEAN, auxInt : BOOLEAN, kbdOff : BOOLEAN, auxOff : BOOLEAN]
    /\ kqueue \in Seq(KeyBytes) /\ mqueue \in Seq(MouseBytes) /\ held \subseteq Keys
    /\ shift_pressed \in BOOLEAN /\ caps_lock \in BOOLEAN
    /\ mouse_cycle \in 0 .. 2
    /\ mouse_packet \in [1 .. 3 -> Bytes \cup {NoByte}]
    /\ events \subseteq {"timeout", "stray", "stolen"}

Calm == events = {}

\* The command of timer_callback, the dispatcher's after it and the one after a
\* spurious interrupt end nobody else's service: a second command finds nothing
\* in service, since handlers do not nest.
NoForeignEoi ==
    [][\A i \in isr \ isr' : stack # <<>> /\ i \in Own(Top.irq)]_vars

\* What is in service is being handled: no line is blocked for good, also not
\* by handlers that return early.
ServiceEnds ==
    \A i \in isr : \E n \in DOMAIN stack : i \in Own(stack[n].irq)

\* The three bytes of a packet are the three the mouse sent together, however
\* keys and ticks come in between, as long as nobody took a byte that was not
\* for it.
PacketsInStep ==
    Calm => \A n \in 0 .. 2 :
              /\ mouse_packet[n + 1] \in {NoByte, MouseByte(n)}
              /\ n < mouse_cycle => mouse_packet[n + 1] = MouseByte(n)

\* With all shift keys up and all their bytes read, shift_pressed is false,
\* in whichever order two of them went down and up.
IsShift(b) == b.from = "keyboard" /\ b.key \in ShiftKeys
ShiftReleased ==
    /\ Calm /\ held \cap ShiftKeys = {} /\ ~IsShift(full)
    /\ \A n \in DOMAIN kqueue : ~IsShift(kqueue[n])
    => ~shift_pressed

\* Once interrupts are on, no byte stays in the output buffer: none is lost to
\* a line that rose while another was served, or while it was masked.
BytesAreTaken ==
    Calm /\ Steps[boot] = "main" /\ full # NoByte ~> full = NoByte \/ ~Calm

=============================================================================
