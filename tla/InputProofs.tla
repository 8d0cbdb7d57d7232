---------------------------- MODULE InputProofs ----------------------------
(***************************************************************************)
(* Proofs about Input: interrupts are served one at a time, the three ways *)
(* the code acknowledges them never end another one's service, packets     *)
(* stay in step and shift keys do not stick.                               *)
(***************************************************************************)
EXTENDS Input, TLAPS

Irqs == Lines \cup {7, 15}

\* At most one handler runs, with interrupts off, and only its own lines are
\* in service.  This is what makes the timer's second end-of-interrupt command
\* harmless: it finds an empty set.
OneAtATime ==
    /\ irr \subseteq Lines
    /\ \/ stack = <<>> /\ isr = {}
       \/ /\ enabled = FALSE
          /\ \E i \in Irqs, a \in {"handler", "eoi"} :
                /\ stack = <<[irq |-> i, at |-> a]>>
                /\ isr \subseteq Own(i)

\* What the two commands leave of a single line, or of the mouse's two.
LEMMA EoiEnds ==
    ASSUME NEW i \in Irqs, NEW s, s \subseteq Own(i)
    PROVE  EndedByMaster(IF i >= 8 THEN EndedBySlave(s) ELSE s) = {}
<1>1. \A k \in Int : Min({k}) = k
  BY DEF Min
<1>2. CASE i \in {0, 1, 2}
  <2>1. s = {} \/ s = {i}
    BY <1>2 DEF Own
  <2> QED
    BY <1>1, <1>2, <2>1 DEF EndedByMaster
<1>3. CASE i = 12
  <2>1. EndedBySlave(s) = {} \/ EndedBySlave(s) = {2}
    BY <1>3 DEF Own, EndedBySlave
  <2> QED
    BY <1>1, <1>3, <2>1 DEF EndedByMaster
<1>4. CASE i = 15
  <2>1. EndedBySlave(s) = {} \/ EndedBySlave(s) = {2}
    BY <1>4 DEF Own, EndedBySlave
  <2> QED
    BY <1>1, <1>4, <2>1 DEF EndedByMaster
<1>5. CASE i = 7
  BY <1>5 DEF Own, EndedByMaster
<1> QED
  BY <1>2, <1>3, <1>4, <1>5 DEF Irqs, Lines

LEMMA LoadsKeep ==
    OneAtATime /\ (LoadReply \/ LoadKey \/ LoadMouse) => OneAtATime'
<1> SUFFICES ASSUME OneAtATime, NEW b, Loaded(b)
             PROVE  OneAtATime'
  BY DEF LoadReply, LoadKey, LoadMouse
<1>1. irr' \subseteq Lines
  BY DEF OneAtATime, Loaded, Line, Lines
<1>2. UNCHANGED <<stack, isr, enabled>>
  BY DEF Loaded, cpu
<1> QED
  BY <1>1, <1>2 DEF OneAtATime

LEMMA PortKeepsLines == ASSUME irr \subseteq Lines, ReadPort PROVE irr' \subseteq Lines
BY DEF ReadPort

\* Every step keeps it, by kind of step.
LEMMA StepsKeep == OneAtATime /\ [Next]_vars => OneAtATime'
<1> SUFFICES ASSUME OneAtATime, [Next]_vars
             PROVE  OneAtATime'
  OBVIOUS
<1>1. CASE Boot
  <2>0. stack = <<>>
    BY <1>1 DEF Boot, PicRemap, TimerInit, KeyboardInit, AskConfig, GetConfig,
                MouseWrite, MouseRead, SetMasks, Sti, At
  <2>1. stack = <<>> /\ isr = {}
    BY <2>0 DEF OneAtATime
  <2>2. stack' = <<>> /\ isr' = {}
    BY <1>1, <2>1 DEF Boot, PicRemap, TimerInit, KeyboardInit, AskConfig, GetConfig,
                MouseWrite, MouseRead, SetMasks, Sti, At, pics
  <2>3. irr' \subseteq Lines
    BY <1>1, PortKeepsLines DEF OneAtATime, Boot, PicRemap, TimerInit, KeyboardInit,
                AskConfig, GetConfig, MouseWrite, MouseRead, SetMasks, Sti, pics
  <2> QED
    BY <2>2, <2>3 DEF OneAtATime
<1>2. ASSUME NEW i \in Irqs, Take(i) \/ Spurious(i)
      PROVE  OneAtATime'
  <2>1. stack = <<>> /\ isr = {}
    BY <1>2 DEF OneAtATime, Take, Spurious
  <2>2. stack' = <<[irq |-> i, at |-> "handler"]>>
    BY <1>2, <2>1 DEF Take, Spurious
  <2>3. isr' \subseteq Own(i) /\ enabled' = FALSE /\ irr' \subseteq Lines
    BY <1>2, <2>1 DEF Take, Spurious, OneAtATime
  <2> QED
    BY <2>2, <2>3 DEF OneAtATime
<1>3. CASE TimerCallback \/ KeyboardCallback \/ MouseHandler \/ Unhandled
  <2>1. PICK i \in Irqs, a \in {"handler", "eoi"} :
           /\ stack = <<[irq |-> i, at |-> a]>>
           /\ isr \subseteq Own(i)
    BY <1>3 DEF OneAtATime, TimerCallback, KeyboardCallback, MouseHandler, Unhandled, Running
  <2>2. Handled
    BY <1>3 DEF TimerCallback, KeyboardCallback, MouseHandler, Unhandled
  <2>3. stack' = <<[irq |-> i, at |-> "eoi"]>>
    BY <2>1, <2>2 DEF Handled
  <2>4. isr' \subseteq isr /\ enabled' = enabled
    BY <1>3 DEF TimerCallback, KeyboardCallback, MouseHandler, Unhandled, EndedByMaster, pics
  <2>5. irr' \subseteq Lines
    BY <1>3, PortKeepsLines
       DEF OneAtATime, TimerCallback, KeyboardCallback, MouseHandler, Unhandled, pics
  <2>6. enabled = FALSE
    BY <2>1 DEF OneAtATime
  <2> QED
    BY <2>1, <2>3, <2>4, <2>5, <2>6 DEF OneAtATime
<1>4. CASE SendEoi
  <2>1. PICK i \in Irqs, a \in {"handler", "eoi"} :
           /\ stack = <<[irq |-> i, at |-> a]>>
           /\ isr \subseteq Own(i)
    BY <1>4 DEF OneAtATime, SendEoi
  <2>2. stack' = <<>> /\ Top.irq = i
    BY <1>4, <2>1 DEF SendEoi, Top
  <2>3. isr' = EndedByMaster(IF i >= 8 THEN EndedBySlave(isr) ELSE isr)
    BY <1>4, <2>2 DEF SendEoi
  <2>4. isr' = {}
    BY <2>1, <2>3, EoiEnds
  <2> QED
    BY <1>4, <2>2, <2>4 DEF SendEoi, OneAtATime
<1>5. CASE LoadReply \/ LoadKey \/ LoadMouse
  BY <1>5, LoadsKeep
<1>6. CASE Move \/ Tick \/ \E k \in Keys : Strike(k)
  BY <1>6 DEF OneAtATime, Move, Tick, Strike, cpu, pics, Lines
<1>7. CASE UNCHANGED vars
  BY <1>7 DEF OneAtATime, vars, cpu, pics
<1> QED
  BY <1>1, <1>2, <1>3, <1>4, <1>5, <1>6, <1>7
     DEF Next, Cpu, Handlers, Hardware, Irqs, Lines

LEMMA InitOneAtATime == Init => OneAtATime
BY DEF Init, OneAtATime

\* Interrupts are served one at a time, whatever the devices do.
THEOREM ServedOneAtATime == Spec => []OneAtATime
<1> QED
  BY InitOneAtATime, StepsKeep, PTL DEF Spec

\* No line stays in service after its handler is left: idt_handler tells both
\* PICs, also for handlers that return early and for spurious interrupts.
THEOREM ServicesEnd == Spec => []ServiceEnds
<1>1. OneAtATime => ServiceEnds
  BY DEF OneAtATime, ServiceEnds
<1> QED
  BY <1>1, ServedOneAtATime, PTL

\* The end-of-interrupt commands, the timer's two among them, never end the
\* service of a line that is not the one being handled.
THEOREM EoiIsOwn == Spec => NoForeignEoi
<1> DEFINE Own1 == \A i \in isr \ isr' : stack # <<>> /\ i \in Own(Top.irq)
<1>1. OneAtATime /\ [Next]_vars => [Own1]_vars
  BY DEF OneAtATime, Top
<1> QED
  BY <1>1, ServedOneAtATime, PTL DEF Spec, NoForeignEoi

----------------------------------------------------------------------------
(* Types.                                                                  *)

\* Reading the port moves a byte, and no other.
LEMMA PortTypes ==
    ASSUME ReadPort, full \in Bytes \cup {NoByte}, last \in Bytes \cup {NoByte}
    PROVE  full' \in Bytes \cup {NoByte} /\ last' \in Bytes \cup {NoByte}
BY DEF ReadPort, Byte

\* The types are kept, by kind of step.
LEMMA TypeStep == TypeOK /\ OneAtATime /\ OneAtATime' /\ [Next]_vars => TypeOK'
<1> SUFFICES ASSUME TypeOK, OneAtATime, OneAtATime', [Next]_vars PROVE TypeOK'
  OBVIOUS
<1> USE DEF TypeOK
<1>a. /\ DOMAIN Steps = 1 .. 16 /\ Steps[16] = "main" /\ NoByte \in Bytes \cup {NoByte}
      /\ \A n \in {0, 1, 2, Ack} : MouseByte(n) \in MouseBytes /\ MouseByte(n) \in Bytes
      /\ Config \in Bytes
  BY DEF Steps, Bytes, MouseBytes, MouseByte
<1>b. irr' \subseteq Lines /\ stack' \in Seq([irq : Lines \cup {7, 15}, at : {"handler", "eoi"}])
  <2>1. irr' \subseteq Lines
    BY DEF OneAtATime
  <2>2. stack' = <<>> \/ \E i \in Irqs, a \in {"handler", "eoi"} : stack' = <<[irq |-> i, at |-> a]>>
    BY DEF OneAtATime
  <2> DEFINE S == [irq : Lines \cup {7, 15}, at : {"handler", "eoi"}]
  <2>3. \A i \in Irqs, a \in {"handler", "eoi"} : [irq |-> i, at |-> a] \in S
    BY DEF Irqs
  <2>4. stack' \in Seq(S)
    <3>1. <<>> \in Seq(S) /\ \A r \in S : <<r>> \in Seq(S)
      <4> HIDE DEF S
      <4> QED
        OBVIOUS
    <3>2. CASE stack' = <<>>
      BY <3>1, <3>2
    <3>3. ASSUME NEW i \in Irqs, NEW a \in {"handler", "eoi"}, stack' = <<[irq |-> i, at |-> a]>>
          PROVE  stack' \in Seq(S)
      <4>1. [irq |-> i, at |-> a] \in S
        BY <2>3
      <4> HIDE DEF S
      <4> QED
        BY <3>1, <3>3, <4>1
    <3> QED
      BY <2>2, <3>2, <3>3
  <2> QED
    BY <2>1, <2>4
<1>c. isr' \subseteq Lines
  BY DEF OneAtATime, Own, Irqs, Lines
<1>d. \A step : At(step) /\ step # "main" => boot + 1 \in DOMAIN Steps
  BY <1>a DEF At
<1>1. CASE Boot
  <2>1. boot' \in DOMAIN Steps
    BY <1>1, <1>d DEF Boot, PicRemap, TimerInit, KeyboardInit, AskConfig, GetConfig, MouseWrite,
                      MouseRead, SetMasks, Sti, Advance
  <2>2. full' \in Bytes \cup {NoByte} /\ last' \in Bytes \cup {NoByte}
    BY <1>1, PortTypes DEF Boot, PicRemap, TimerInit, KeyboardInit, AskConfig, GetConfig, MouseWrite,
                      MouseRead, SetMasks, Sti, port
  <2>3. mqueue' \in Seq(MouseBytes) /\ kqueue' \in Seq(KeyBytes) /\ held' \subseteq Keys
        /\ streaming' \in BOOLEAN
    <3>1. CASE MouseWrite
      <4>1. MouseByte(Ack) \in MouseBytes
        BY <1>a
      <4>2. mqueue' \in Seq(MouseBytes)
        BY <3>1, <4>1 DEF MouseWrite
      <4> QED
        BY <3>1, <4>2 DEF MouseWrite
    <3>2. CASE ~MouseWrite
      BY <1>1, <3>2 DEF Boot, PicRemap, TimerInit, KeyboardInit, AskConfig, GetConfig,
                        MouseRead, SetMasks, Sti, devices
    <3> QED
      BY <3>1, <3>2
  <2>4. registered' \subseteq Lines /\ enabled' \in BOOLEAN /\ masked' \subseteq Lines /\ ticked' \in BOOLEAN
    BY <1>1 DEF Boot, PicRemap, TimerInit, KeyboardInit, AskConfig, GetConfig, MouseWrite,
                MouseRead, SetMasks, Sti, pics, Lines
  <2>5. config' \in [kbdInt : BOOLEAN, auxInt : BOOLEAN, kbdOff : BOOLEAN, auxOff : BOOLEAN]
        /\ reply' \in BOOLEAN
    BY <1>1 DEF Boot, PicRemap, TimerInit, KeyboardInit, AskConfig, GetConfig, MouseWrite,
                MouseRead, SetMasks, Sti, port
  <2>6. events' \subseteq {"timeout", "stray", "stolen"} /\ UNCHANGED drivers
    BY <1>1 DEF Boot, PicRemap, TimerInit, KeyboardInit, AskConfig, GetConfig, MouseWrite,
                MouseRead, SetMasks, Sti, Amiss
  <2> QED
    BY <1>b, <1>c, <2>1, <2>2, <2>3, <2>4, <2>5, <2>6 DEF drivers
<1>2. ASSUME NEW i \in Irqs, Take(i) \/ Spurious(i) PROVE TypeOK'
  BY <1>2, <1>b, <1>c DEF Take, Spurious, port, devices, drivers
<1>3. CASE TimerCallback \/ Unhandled \/ SendEoi
  BY <1>3, <1>b, <1>c DEF TimerCallback, Unhandled, SendEoi, Handled, pics, port, devices, drivers
<1>4. CASE KeyboardCallback
  <2>1. full' \in Bytes \cup {NoByte} /\ last' \in Bytes \cup {NoByte}
    BY <1>4, PortTypes DEF KeyboardCallback
  <2>2. shift_pressed' \in BOOLEAN /\ caps_lock' \in BOOLEAN
    <3>1. \A up \in BOOLEAN : \A k : Decode(k, up) => shift_pressed' \in BOOLEAN /\ caps_lock' \in BOOLEAN
      BY DEF Decode
    <3>2. Byte \in KeyBytes => Byte.up \in BOOLEAN
      BY DEF KeyBytes
    <3> QED
      BY <1>4, <3>1, <3>2 DEF KeyboardCallback
  <2>3. events' \subseteq {"timeout", "stray", "stolen"}
    BY <1>4 DEF KeyboardCallback
  <2> QED
    BY <1>4, <1>b, <1>c, <2>1, <2>2, <2>3 DEF KeyboardCallback, devices
<1>5. CASE MouseHandler
  <2>1. full' \in Bytes \cup {NoByte} /\ last' \in Bytes \cup {NoByte}
    BY <1>5, PortTypes DEF MouseHandler
  <2>2. mouse_cycle' \in 0 .. 2 /\ mouse_packet' \in [1 .. 3 -> Bytes \cup {NoByte}]
    BY <1>5 DEF MouseHandler
  <2> QED
    BY <1>5, <1>b, <1>c, <2>1, <2>2 DEF MouseHandler, devices
<1>6. ASSUME NEW b \in Bytes, Loaded(b),
             reply' \in BOOLEAN, kqueue' \in Seq(KeyBytes), mqueue' \in Seq(MouseBytes)
      PROVE  TypeOK'
  BY <1>6, <1>b, <1>c DEF Loaded, cpu, drivers
<1>7. CASE LoadReply
  BY <1>7, <1>6, <1>a DEF LoadReply
<1>8. CASE LoadKey
  <2>1. Head(kqueue) \in Bytes /\ Tail(kqueue) \in Seq(KeyBytes)
    BY <1>8 DEF LoadKey, Bytes
  <2> QED
    BY <1>8, <1>6, <2>1 DEF LoadKey
<1>9. CASE LoadMouse
  <2>1. Head(mqueue) \in Bytes /\ Tail(mqueue) \in Seq(MouseBytes)
    BY <1>9 DEF LoadMouse, Bytes
  <2> QED
    BY <1>9, <1>6, <2>1 DEF LoadMouse
<1>10. ASSUME NEW k \in Keys, Strike(k) PROVE TypeOK'
  <2>1. [from |-> "keyboard", key |-> k, up |-> k \in held] \in KeyBytes
    BY DEF KeyBytes
  <2>2. kqueue' \in Seq(KeyBytes) /\ held' \subseteq Keys
    BY <1>10, <2>1 DEF Strike
  <2> QED
    BY <1>10, <1>b, <1>c, <2>2 DEF Strike, cpu, pics, port, drivers
<1>11. CASE Move
  BY <1>11, <1>a, <1>b, <1>c DEF Move, cpu, pics, port, drivers
<1>12. CASE Tick
  BY <1>12, <1>b, <1>c DEF Tick, cpu, port, devices, drivers
<1>13. CASE UNCHANGED vars
  BY <1>13 DEF vars, cpu, pics, port, devices, drivers
<1> QED
  BY <1>1, <1>2, <1>3, <1>4, <1>5, <1>7, <1>8, <1>9, <1>10, <1>11, <1>12, <1>13
     DEF Next, Cpu, Handlers, Hardware, Irqs, Lines

\* The initial state has the types.
LEMMA InitTypes == Init => TypeOK
<1> SUFFICES ASSUME Init PROVE TypeOK
  OBVIOUS
<1>1. /\ boot \in DOMAIN Steps /\ stack \in Seq([irq : Lines \cup {7, 15}, at : {"handler", "eoi"}])
      /\ kqueue \in Seq(KeyBytes) /\ mqueue \in Seq(MouseBytes)
  BY DEF Init, Steps
<1>2. mouse_packet \in [1 .. 3 -> Bytes \cup {NoByte}]
  BY DEF Init
<1>3. config \in [kbdInt : BOOLEAN, auxInt : BOOLEAN, kbdOff : BOOLEAN, auxOff : BOOLEAN]
  BY DEF Init
<1>4. /\ enabled \in BOOLEAN /\ ticked \in BOOLEAN
      /\ reply \in BOOLEAN /\ streaming \in BOOLEAN
      /\ shift_pressed \in BOOLEAN /\ caps_lock \in BOOLEAN
  BY DEF Init
<1>6. mouse_cycle \in 0 .. 2
  BY DEF Init
<1>7. /\ events \subseteq {"timeout", "stray", "stolen"} /\ registered \subseteq Lines
      /\ irr \subseteq Lines /\ isr \subseteq Lines /\ masked \subseteq Lines /\ held \subseteq Keys
  BY DEF Init
<1>5. full \in Bytes \cup {NoByte} /\ last \in Bytes \cup {NoByte}
  BY DEF Init
<1> QED
  BY <1>1, <1>2, <1>3, <1>4, <1>5, <1>6, <1>7 DEF TypeOK

\* The variables keep their types, whatever the devices and the user do.
THEOREM TypeCorrect == Spec => []TypeOK
<1> QED
  BY InitTypes, TypeStep, ServedOneAtATime, PTL DEF Spec
----------------------------------------------------------------------------
(* The order of bytes.                                                     *)

\* What the mouse has yet to send of a packet of which n bytes have been taken.
Rest(n) ==
    CASE n = 0 -> <<MouseByte(0), MouseByte(1), MouseByte(2)>>
      [] n = 1 -> <<MouseByte(1), MouseByte(2)>>
      [] n = 2 -> <<MouseByte(2)>>
      [] OTHER -> <<>>

\* How the mouse and the driver agree while mouse_init talks to it and after.
StreamInv ==
    /\ boot <= 6 \/ boot \in {8, 10, 12} => full.from # "mouse" /\ mqueue = <<>>
    /\ boot <= 12 => ~streaming
    /\ boot \in {7, 9, 11, 13} =>
          \/ /\ full = MouseByte(Ack)
             /\ mqueue = <<>> \/ (boot = 13 /\ mqueue = Rest(0))
          \/ full.from # "mouse" /\ mqueue = <<MouseByte(Ack)>>
    /\ boot <= 13 => mouse_cycle = 0 /\ \A n \in 1 .. 3 : mouse_packet[n] = NoByte
    /\ boot >= 14 =>
          /\ full.from = "mouse" =>
                /\ full = MouseByte(mouse_cycle)
                /\ mqueue = Rest(mouse_cycle + 1) \/ (mouse_cycle = 2 /\ mqueue = Rest(0))
          /\ full.from # "mouse" =>
                mqueue = Rest(mouse_cycle) \/ (mouse_cycle = 0 /\ mqueue = <<>>)

\* The shift key moved last decides, wherever its byte has got to.
ShiftInv ==
    held \cap ShiftKeys = {} =>
    /\ \A n \in DOMAIN kqueue :
          IsShift(kqueue[n]) /\ (\A m \in DOMAIN kqueue : m > n => ~IsShift(kqueue[m]))
          => kqueue[n].up
    /\ (\A n \in DOMAIN kqueue : ~IsShift(kqueue[n])) =>
          IF IsShift(full) THEN full.up ELSE ~shift_pressed

\* A request of the keyboard whose byte is gone: its handler will read the last
\* byte once more.
Leftover ==
    /\ 1 \in irr \/ (stack # <<>> /\ Top = [irq |-> 1, at |-> "handler"])
    /\ full.from # "keyboard"

\* That does no harm: the byte changes nothing the second time.
AgainInv ==
    /\ boot # 5 => ~reply /\ full # Config
    /\ full = Config => ~reply
    /\ boot >= 14 /\ Leftover =>
          last = MouseByte(Ack) \/ (last \in KeyBytes /\ (IsShift(last) => shift_pressed = ~last.up))
    /\ stack # <<>> /\ Top = [irq |-> 12, at |-> "handler"] /\ full.from # "keyboard" => 1 \notin irr

\* Nothing is handled before kmain is done with its preparations.
StartInv ==
    /\ boot < 16 => ~enabled /\ stack = <<>>
    /\ boot = 16 => masked = {}

\* The steps of kmain by number.
LEMMA StepNumbers ==
    ASSUME boot \in 1 .. 16
    PROVE  /\ At("pic_remap") => boot = 1
           /\ At("timer_init") => boot = 2
           /\ At("keyboard_init") => boot = 3
           /\ At("ask") => boot = 4
           /\ At("config") => boot = 5
           /\ At("write") => boot \in {6, 8, 10, 12} /\ (Steps[boot + 2] = "masks" <=> boot = 12)
           /\ At("read") => boot \in {7, 9, 11, 13}
           /\ At("masks") => boot = 14
           /\ At("sti") => boot = 15
BY DEF At, Steps

\* Handlers wait until kmain has turned interrupts on.
LEMMA StartKept == TypeOK /\ StartInv /\ OneAtATime /\ [Next]_vars => StartInv'
<1> SUFFICES ASSUME TypeOK, StartInv, OneAtATime, [Next]_vars PROVE StartInv'
  OBVIOUS
<1>0. boot \in 1 .. 16
  BY DEF TypeOK, Steps
<1>1. CASE Boot
  <2>0. Advance /\ stack = <<>> /\ stack' = stack
    BY <1>1 DEF Boot, PicRemap, TimerInit, KeyboardInit, AskConfig, GetConfig,
       MouseWrite, MouseRead, SetMasks, Sti, At
  <2>1. Advance /\ stack = <<>> /\ stack' = <<>> /\ boot <= 15
    <3>0. \/ At("pic_remap") \/ At("timer_init") \/ At("keyboard_init") \/ At("ask") \/ At("config")
          \/ At("write") \/ At("read") \/ At("masks") \/ At("sti")
      BY <1>1 DEF Boot, PicRemap, TimerInit, KeyboardInit, AskConfig, GetConfig, MouseWrite, MouseRead,
         SetMasks, Sti
    <3>1. boot <= 15
      BY <1>0, <3>0, StepNumbers
    <3> QED
      BY <2>0, <3>1
  <2>2. CASE Sti
    <3>1. boot = 15 /\ masked' = {}
      BY <1>0, <2>2, StepNumbers DEF Sti
    <3> QED
      BY <2>1, <3>1 DEF StartInv, Advance
  <2>3. CASE ~Sti
    <3>0. /\ \/ At("pic_remap") \/ At("timer_init") \/ At("keyboard_init") \/ At("ask") \/ At("config")
             \/ At("write") \/ At("read") \/ At("masks")
          /\ enabled' = enabled
      BY <1>1, <2>3 DEF Boot, PicRemap, TimerInit, KeyboardInit, AskConfig, GetConfig, MouseWrite, MouseRead,
         SetMasks
    <3>1. boot < 15
      BY <1>0, <3>0, StepNumbers
    <3> QED
      BY <1>0, <2>1, <3>0, <3>1 DEF StartInv, Advance
  <2> QED
    BY <2>2, <2>3
<1>2. ASSUME NEW i, Take(i) \/ Spurious(i) PROVE StartInv'
  BY <1>0, <1>2 DEF StartInv, Take, Spurious
<1>3. CASE Handlers
  BY <1>0, <1>3 DEF StartInv, Handlers, TimerCallback, KeyboardCallback, MouseHandler, Unhandled, SendEoi,
     Running, pics
<1>4. CASE LoadReply \/ LoadKey \/ LoadMouse
  BY <1>4 DEF StartInv, LoadReply, LoadKey, LoadMouse, Loaded, cpu
<1>5. CASE Move \/ Tick \/ \E k \in Keys : Strike(k)
  <2>1. UNCHANGED <<boot, enabled, stack, masked>>
    BY <1>5 DEF Move, Tick, Strike, cpu, pics
  <2> QED
    BY <2>1 DEF StartInv
<1>6. CASE UNCHANGED vars
  BY <1>6 DEF StartInv, vars, cpu, pics
<1> QED
  BY <1>1, <1>2, <1>3, <1>4, <1>5, <1>6 DEF Next, Cpu, Hardware

\* A byte that was read by somebody it was not for is never forgotten.
LEMMA EventsGrow == [Next]_vars => events \subseteq events'
BY DEF Next, Cpu, Hardware, Boot, Handlers, PicRemap, TimerInit, KeyboardInit, AskConfig, GetConfig,
   MouseWrite, MouseRead, SetMasks, Sti, TimerCallback, KeyboardCallback, MouseHandler, Unhandled, SendEoi,
   Take, LoadReply, LoadKey, LoadMouse, Loaded, Move, Tick, Strike, Spurious, vars

\* The stream of the mouse is kept, by kind of step.
LEMMA StreamKept ==
    TypeOK /\ StartInv /\ (Calm => StreamInv) /\ [Next]_vars => (Calm' => StreamInv')
<1> SUFFICES ASSUME TypeOK, StartInv, Calm => StreamInv, [Next]_vars, Calm' PROVE StreamInv'
  OBVIOUS
<1> DEFINE M(n) == MouseByte(n)
<1>0. boot \in 1 .. 16 /\ full \in Bytes \cup {NoByte} /\ mouse_cycle \in 0 .. 2
      /\ mouse_packet \in [1 .. 3 -> Bytes \cup {NoByte}]
  BY DEF TypeOK, Steps
<1>2. Calm /\ StreamInv
  BY EventsGrow DEF Calm
<1>3. /\ NoByte.from # "mouse" /\ Config.from # "mouse" /\ \A n : M(n).from = "mouse"
      /\ \A b \in KeyBytes : b.from # "mouse"
      /\ \A m, n \in {0, 1, 2, Ack} : M(m) = M(n) => m = n
  BY DEF NoByte, Config, MouseByte, KeyBytes
<1>4. CASE /\ UNCHANGED <<boot, full, mqueue, streaming, mouse_cycle, mouse_packet>>
  BY <1>2, <1>4 DEF StreamInv
<1>5. CASE PicRemap \/ TimerInit \/ KeyboardInit \/ AskConfig \/ SetMasks \/ Sti
  <2>1. /\ boot \in {1, 2, 3, 4, 14, 15} /\ boot' = boot + 1
        /\ UNCHANGED <<full, mqueue, streaming, mouse_cycle, mouse_packet>>
    BY <1>0, <1>5, StepNumbers DEF PicRemap, TimerInit, KeyboardInit, AskConfig, SetMasks, Sti, Advance,
       port, devices, drivers
  <2> QED
    BY <1>2, <2>1 DEF StreamInv
<1>6. CASE GetConfig
  <2>1. /\ boot = 5 /\ boot' = 6 /\ full' = NoByte
        /\ UNCHANGED <<mqueue, streaming, mouse_cycle, mouse_packet>>
    BY <1>0, <1>6, StepNumbers DEF GetConfig, Advance, ReadPort, devices, drivers
  <2> QED
    BY <1>2, <1>3, <2>1 DEF StreamInv
<1>7. CASE MouseWrite
  <2>1. /\ boot \in {6, 8, 10, 12} /\ boot' = boot + 1 /\ mqueue' = Append(mqueue, M(Ack))
        /\ streaming' = (boot = 12) /\ UNCHANGED <<full, mouse_cycle, mouse_packet>>
    BY <1>0, <1>7, StepNumbers DEF MouseWrite, Advance, port, drivers
  <2>2. mqueue = <<>> /\ full.from # "mouse"
    BY <1>2, <2>1 DEF StreamInv
  <2>3. mqueue' = <<M(Ack)>>
    BY <2>1, <2>2
  <2>4. mouse_cycle = 0 /\ \A n \in 1 .. 3 : mouse_packet[n] = NoByte
    BY <1>2, <2>1 DEF StreamInv
  <2>5. boot' \in {7, 9, 11, 13} /\ full'.from # "mouse" /\ (boot' # 13 => boot # 12)
    BY <2>1, <2>2
  <2>6. boot # 12 => ~streaming'
    BY <2>1, Zenon
  <2> QED
    BY <2>1, <2>3, <2>4, <2>5, <2>6 DEF StreamInv
<1>8. CASE MouseRead
  <2>1. /\ boot \in {7, 9, 11, 13} /\ boot' = boot + 1 /\ full' = NoByte
        /\ UNCHANGED <<mqueue, streaming, mouse_cycle, mouse_packet>>
    BY <1>0, <1>8, StepNumbers DEF MouseRead, Advance, ReadPort, devices, drivers
  <2>2. full = M(Ack)
    BY <1>8 DEF MouseRead, Amiss, Calm
  <2>3. mqueue = <<>> \/ (boot = 13 /\ mqueue = Rest(0))
    BY <1>2, <1>3, <2>1, <2>2 DEF StreamInv
  <2>4. mouse_cycle = 0
    BY <1>2, <2>1 DEF StreamInv
  <2> QED
    BY <1>2, <1>3, <2>1, <2>3, <2>4 DEF StreamInv
<1>9. CASE KeyboardCallback
  <2>1. full.from # "mouse"
    BY <1>9 DEF KeyboardCallback, Calm
  <2>2. full'.from # "mouse" /\ UNCHANGED <<boot, mqueue, streaming, mouse_cycle, mouse_packet>>
    BY <1>3, <1>9 DEF KeyboardCallback, ReadPort, devices
  <2>3. boot = 16
    BY <1>0, <1>9 DEF KeyboardCallback, Running, StartInv
  <2> QED
    BY <1>2, <2>1, <2>2, <2>3 DEF StreamInv
<1>10. CASE MouseHandler /\ full.from = "mouse"
  <2>1. /\ full' = NoByte /\ mouse_cycle' = (mouse_cycle + 1) % 3
        /\ UNCHANGED <<boot, mqueue, streaming>> /\ boot = 16
    BY <1>0, <1>10 DEF MouseHandler, ReadPort, Running, StartInv, devices
  <2>2. mqueue = Rest(mouse_cycle + 1) \/ (mouse_cycle = 2 /\ mqueue = Rest(0))
    BY <1>2, <1>10, <2>1 DEF StreamInv
  <2>3. mqueue = Rest(mouse_cycle') \/ (mouse_cycle' = 0 /\ mqueue = <<>>)
    BY <1>0, <2>1, <2>2 DEF Rest
  <2> QED
    BY <1>2, <1>3, <2>1, <2>3 DEF StreamInv
<1>11. CASE LoadMouse
  <2>1. /\ full = NoByte /\ full' = Head(mqueue) /\ mqueue' = Tail(mqueue) /\ mqueue # <<>>
        /\ UNCHANGED <<boot, streaming, mouse_cycle, mouse_packet>>
    BY <1>11 DEF LoadMouse, Loaded, cpu, drivers
  <2>2. boot \in {7, 9, 11, 13} \/ boot >= 14
    BY <1>0, <1>2, <2>1 DEF StreamInv
  <2>3. CASE boot \in {7, 9, 11, 13}
    <3>1. mqueue = <<M(Ack)>>
      BY <1>2, <1>3, <2>1, <2>3 DEF StreamInv
    <3>2. full' = M(Ack) /\ mqueue' = <<>>
      BY <2>1, <3>1
    <3> QED
      BY <1>2, <1>3, <2>1, <2>3, <3>2 DEF StreamInv
  <2>4. CASE boot >= 14
    <3>1. mqueue = Rest(mouse_cycle)
      BY <1>2, <1>3, <2>1, <2>4 DEF StreamInv
    <3>2. full' = M(mouse_cycle) /\ mqueue' = Rest(mouse_cycle + 1)
      <4>1. CASE mouse_cycle = 0
        BY <2>1, <3>1, <4>1 DEF Rest
      <4>2. CASE mouse_cycle = 1
        BY <2>1, <3>1, <4>2 DEF Rest
      <4>3. CASE mouse_cycle = 2
        BY <2>1, <3>1, <4>3 DEF Rest
      <4> QED
        BY <1>0, <4>1, <4>2, <4>3
    <3> QED
      BY <1>0, <1>2, <1>3, <2>1, <2>4, <3>2 DEF StreamInv
  <2> QED
    BY <2>2, <2>3, <2>4
<1>12. CASE LoadReply \/ LoadKey
  <2>1. /\ full.from # "mouse" /\ full'.from # "mouse"
        /\ UNCHANGED <<boot, mqueue, streaming, mouse_cycle, mouse_packet>>
    <3>1. LoadKey => Head(kqueue) \in KeyBytes
      BY DEF TypeOK, LoadKey
    <3> QED
      BY <1>3, <1>12, <3>1 DEF LoadReply, LoadKey, Loaded, cpu, drivers
  <2> QED
    BY <1>2, <1>3, <2>1 DEF StreamInv
<1>13. CASE Move
  <2>1. /\ streaming /\ mqueue = <<>> /\ mqueue' = Rest(0)
        /\ UNCHANGED <<boot, full, streaming, mouse_cycle, mouse_packet>>
    BY <1>13 DEF Move, Rest, cpu, port, drivers
  <2>2. boot >= 13
    BY <1>0, <1>2, <2>1 DEF StreamInv
  <2>3. CASE boot = 13
    BY <1>2, <2>1, <2>3 DEF StreamInv
  <2>4. CASE boot >= 14
    <3>1. full.from = "mouse" => mouse_cycle = 2
      BY <1>0, <1>2, <2>1, <2>4 DEF StreamInv, Rest
    <3>2. full.from # "mouse" => mouse_cycle = 0
      BY <1>0, <1>2, <2>1, <2>4 DEF StreamInv, Rest
    <3>3. full'.from = "mouse" => mouse_cycle = 2 /\ full' = M(mouse_cycle)
      BY <1>2, <2>1, <2>4, <3>1 DEF StreamInv
    <3>4. boot' >= 14 /\ mqueue' = Rest(0) /\ mouse_cycle' = mouse_cycle
      BY <2>1, <2>4
    <3>5. full'.from # "mouse" => mouse_cycle' = 0
      BY <2>1, <3>2
    <3> QED
      BY <1>0, <2>1, <2>4, <3>3, <3>4, <3>5 DEF StreamInv
  <2> QED
    BY <1>0, <2>2, <2>3, <2>4
<1>14. CASE TimerCallback \/ Unhandled \/ SendEoi \/ Tick \/ (MouseHandler /\ full.from # "mouse")
  BY <1>4, <1>14 DEF TimerCallback, Unhandled, SendEoi, Tick, MouseHandler, cpu, port, devices, drivers
<1>15. ASSUME NEW i, Take(i) \/ Spurious(i) PROVE StreamInv'
  BY <1>4, <1>15 DEF Take, Spurious, port, devices, drivers
<1>16. ASSUME NEW k, Strike(k) PROVE StreamInv'
  BY <1>4, <1>16 DEF Strike, cpu, port, drivers
<1>17. CASE UNCHANGED vars
  BY <1>4, <1>17 DEF vars, cpu, port, devices, drivers
<1> QED
  BY <1>5, <1>6, <1>7, <1>8, <1>9, <1>10, <1>11, <1>12, <1>13, <1>14, <1>15, <1>16, <1>17
     DEF Next, Cpu, Boot, Handlers, Hardware

\* A packet is put together in the order of the stream.
LEMMA PacketsKept ==
    TypeOK /\ StartInv /\ (Calm => StreamInv) /\ PacketsInStep /\ [Next]_vars => PacketsInStep'
<1> SUFFICES ASSUME TypeOK, StartInv, Calm => StreamInv, PacketsInStep, [Next]_vars, Calm'
             PROVE  \A n \in 0 .. 2 :
                       /\ mouse_packet'[n + 1] \in {NoByte, MouseByte(n)}
                       /\ n < mouse_cycle' => mouse_packet'[n + 1] = MouseByte(n)
  BY DEF PacketsInStep
<1>0. boot \in 1 .. 16 /\ mouse_cycle \in 0 .. 2 /\ mouse_packet \in [1 .. 3 -> Bytes \cup {NoByte}]
  BY DEF TypeOK, Steps
<1>2. Calm /\ StreamInv
  BY EventsGrow DEF Calm
<1>3. \A n \in 0 .. 2 :
         /\ mouse_packet[n + 1] \in {NoByte, MouseByte(n)}
         /\ n < mouse_cycle => mouse_packet[n + 1] = MouseByte(n)
  BY <1>2 DEF PacketsInStep
<1>4. CASE MouseHandler /\ full.from = "mouse"
  <2>1. /\ mouse_packet' = [mouse_packet EXCEPT ![mouse_cycle + 1] = full]
        /\ mouse_cycle' = (mouse_cycle + 1) % 3 /\ boot = 16
    BY <1>0, <1>4 DEF MouseHandler, Running, StartInv
  <2>2. full = MouseByte(mouse_cycle)
    BY <1>2, <1>4, <2>1 DEF StreamInv
  <2>3. \A n \in 0 .. 2 : mouse_packet'[n + 1] = IF n = mouse_cycle THEN MouseByte(n) ELSE mouse_packet[n + 1]
    BY <1>0, <2>1, <2>2
  <2>4. \A n \in 0 .. 2 : n < mouse_cycle' => n <= mouse_cycle
    BY <1>0, <2>1
  <2> QED
    BY <1>0, <1>3, <2>3, <2>4
<1>5. CASE ~(MouseHandler /\ full.from = "mouse")
  <2>1. UNCHANGED <<mouse_cycle, mouse_packet>>
    BY <1>5 DEF Next, Cpu, Hardware, Boot, Handlers, PicRemap, TimerInit, KeyboardInit, AskConfig, GetConfig,
       MouseWrite, MouseRead, SetMasks, Sti, TimerCallback, KeyboardCallback, MouseHandler, Unhandled, SendEoi,
       Take, LoadReply, LoadKey, LoadMouse, Loaded, Move, Tick, Strike, Spurious, vars, drivers
  <2> QED
    BY <1>3, <2>1
<1> QED
  BY <1>4, <1>5

\* An interrupt that is taken was asked for.
LEMMA TakenIsPending == ASSUME NEW i, irr \subseteq Lines, Take(i) PROVE i \in irr
<1>1. Pending \subseteq {0, 1, 2, 12} /\ Pending # {} /\ i = Min(Pending)
  BY DEF Pending, Lines, Take
<1>2. \E x \in Pending : \A y \in Pending : x <= y
  <2>1. CASE 0 \in Pending
    BY <1>1, <2>1
  <2>2. CASE 0 \notin Pending /\ 1 \in Pending
    BY <1>1, <2>2
  <2>3. CASE 0 \notin Pending /\ 1 \notin Pending /\ 2 \in Pending
    BY <1>1, <2>3
  <2>4. CASE 0 \notin Pending /\ 1 \notin Pending /\ 2 \notin Pending
    <3>1. Pending = {12}
      BY <1>1, <2>4
    <3> QED
      BY <3>1
  <2> QED
    BY <2>1, <2>2, <2>3, <2>4
<1>3. Min(Pending) \in Pending
  BY <1>2 DEF Min
<1> QED
  BY <1>1, <1>3 DEF Pending

\* The first handler of a line is taken when nothing more urgent is asked for.
LEMMA MostUrgent ==
    ASSUME OneAtATime, StartInv, boot = 16, Take(12) PROVE 1 \notin irr
<1>1. stack = <<>> /\ isr = {}
  BY DEF OneAtATime, Take
<1>2. Pending = irr /\ 12 = Min(Pending)
  BY <1>1 DEF Pending, StartInv, Take
<1>3. SUFFICES ASSUME 1 \in irr PROVE FALSE
  OBVIOUS
<1>4. Pending \subseteq {0, 1, 2, 12}
  BY <1>2 DEF OneAtATime, Lines
<1>5. \E x \in Pending : \A y \in Pending : x <= y
  <2>1. CASE 0 \in Pending
    BY <1>4, <2>1
  <2>2. CASE 0 \notin Pending
    BY <1>2, <1>3, <1>4, <2>2
  <2> QED
    BY <2>1, <2>2
<1>6. \A y \in Pending : Min(Pending) <= y
  BY <1>5 DEF Min
<1> QED
  BY <1>2, <1>3, <1>6

\* The keyboard's two invariants look at this only.
Seen == <<boot, reply, full, last, irr, stack, shift_pressed>>

\* Nothing is owed and nothing left over after a step of these kinds.
LEMMA AgainKept ==
    TypeOK /\ StartInv /\ OneAtATime /\ (Calm => AgainInv) /\ [Next]_vars => (Calm' => AgainInv')
<1> SUFFICES ASSUME TypeOK, StartInv, OneAtATime, Calm => AgainInv, [Next]_vars, Calm' PROVE AgainInv'
  OBVIOUS
<1>0. boot \in 1 .. 16 /\ full \in Bytes \cup {NoByte} /\ last \in Bytes \cup {NoByte}
      /\ reply \in BOOLEAN /\ shift_pressed \in BOOLEAN
  BY DEF TypeOK, Steps
<1>2. Calm /\ AgainInv
  BY EventsGrow DEF Calm
<1>3. /\ \A b \in Bytes \cup {NoByte} : /\ b.from = "keyboard" <=> b \in KeyBytes
                                        /\ b.from = "mouse" => b # Config /\ b \notin KeyBytes
      /\ NoByte.from = "nowhere" /\ NoByte # Config /\ Config.from = "controller"
      /\ \A n : MouseByte(n).from = "mouse" /\ MouseByte(n) # Config
      /\ \A b \in KeyBytes : b # Config /\ b # NoByte /\ b.from = "keyboard"
  BY DEF Bytes, KeyBytes, MouseBytes, Config, NoByte, MouseByte
<1>4. CASE UNCHANGED Seen
  BY <1>2, <1>4 DEF AgainInv, Leftover, Seen, Top
<1>5. CASE PicRemap \/ TimerInit \/ KeyboardInit \/ MouseWrite
  <2>1. boot \in {1, 2, 3, 6, 8, 10, 12} /\ boot' = boot + 1 /\ stack' = <<>>
        /\ UNCHANGED <<reply, full>>
    BY <1>0, <1>5, StepNumbers DEF PicRemap, TimerInit, KeyboardInit, MouseWrite, At, Advance, port
  <2> QED
    BY <1>2, <2>1 DEF AgainInv
<1>6. CASE AskConfig
  <2>1. boot = 4 /\ boot' = 5 /\ stack' = <<>> /\ full' = full
    BY <1>0, <1>6, StepNumbers DEF AskConfig, At, Advance
  <2> QED
    BY <1>2, <2>1 DEF AgainInv
<1>7. CASE GetConfig
  <2>1. boot = 5 /\ boot' = 6 /\ stack' = <<>> /\ full' = NoByte /\ reply' = reply
    BY <1>0, <1>7, StepNumbers DEF GetConfig, At, Advance, ReadPort
  <2>2. full = Config
    BY <1>7 DEF GetConfig, Amiss, Calm
  <2>3. ~reply
    BY <1>2, <2>2 DEF AgainInv
  <2> QED
    BY <1>3, <2>1, <2>3 DEF AgainInv
<1>8. CASE MouseRead
  <2>1. boot \in {7, 9, 11, 13} /\ boot' = boot + 1 /\ stack' = <<>> /\ full' = NoByte /\ last' = Byte
        /\ reply' = reply
    BY <1>0, <1>8, StepNumbers DEF MouseRead, At, Advance, ReadPort
  <2>2. full = MouseByte(Ack)
    BY <1>8 DEF MouseRead, Amiss, Calm
  <2>3. last' = MouseByte(Ack)
    BY <1>3, <2>1, <2>2 DEF Byte
  <2> QED
    BY <1>2, <1>3, <2>1, <2>3 DEF AgainInv
<1>9. CASE SetMasks \/ Sti
  <2>1. boot >= 14 /\ boot' = boot + 1 /\ stack = <<>> /\ stack' = <<>>
        /\ UNCHANGED <<reply, full, last, irr, shift_pressed>>
    BY <1>0, <1>9, StepNumbers DEF SetMasks, Sti, At, Advance, port, drivers
  <2> QED
    BY <1>2, <2>1 DEF AgainInv, Leftover
<1>10. ASSUME NEW i \in Irqs, Take(i) \/ (i \in {7, 15} /\ Spurious(i))
       PROVE  AgainInv'
  <2>0. stack = <<>> /\ enabled
    BY <1>10 DEF Take, Spurious, OneAtATime
  <2>a. stack' = <<[irq |-> i, at |-> "handler"]>>
    BY <1>10, <2>0 DEF Take, Spurious
  <2>b. boot = 16
    BY <1>0, <2>0 DEF StartInv
  <2>1. /\ stack = <<>> /\ stack' = <<[irq |-> i, at |-> "handler"]>> /\ Top' = [irq |-> i, at |-> "handler"]
        /\ boot = 16 /\ irr' \subseteq irr /\ UNCHANGED <<boot, reply, full, last, shift_pressed>>
    <3>1. irr' \subseteq irr /\ UNCHANGED <<boot, reply, full, last, shift_pressed>>
      BY <1>10 DEF Take, Spurious, port, drivers
    <3>2. Top' = [irq |-> i, at |-> "handler"]
      BY <2>a DEF Top
    <3> QED
      BY <2>0, <2>a, <2>b, <3>1, <3>2
  <2>2. i = 1 => 1 \in irr
    <3>1. CASE Take(i)
      BY <3>1, TakenIsPending DEF OneAtATime
    <3>2. CASE i \in {7, 15}
      BY <3>2
    <3> QED
      BY <1>10, <3>1, <3>2
  <2>3. i = 12 => 1 \notin irr
    <3>1. CASE Take(i)
      BY <2>1, <3>1, MostUrgent
    <3>2. CASE i \in {7, 15}
      BY <3>2
    <3> QED
      BY <1>10, <3>1, <3>2
  <2>4. Leftover' => Leftover
    BY <2>1, <2>2 DEF Leftover
  <2> QED
    BY <1>2, <2>1, <2>3, <2>4 DEF AgainInv
<1>11. ASSUME TimerCallback \/ MouseHandler \/ Unhandled \/ SendEoi PROVE AgainInv'
  <2>1. /\ boot' = boot /\ boot = 16 /\ UNCHANGED <<reply, shift_pressed>> /\ irr' \subseteq irr
        /\ stack' = <<>> \/ Top'.at = "eoi"
        /\ stack # <<>>
    <3>1. PICK j \in Irqs, a \in {"handler", "eoi"} : stack = <<[irq |-> j, at |-> a]>>
      BY <1>11 DEF OneAtATime, TimerCallback, MouseHandler, Unhandled, SendEoi, Running
    <3>2. Handled => Top'.at = "eoi"
      BY <3>1 DEF Handled, Top
    <3>3. SendEoi => stack' = <<>>
      BY <3>1 DEF SendEoi
    <3>4. boot' = boot /\ UNCHANGED <<reply, shift_pressed>> /\ irr' \subseteq irr
      BY <1>11 DEF TimerCallback, MouseHandler, Unhandled, SendEoi, ReadPort, pics, port, drivers
    <3>5. boot = 16
      BY <1>0, <3>1 DEF StartInv
    <3> QED
      BY <1>11, <3>1, <3>2, <3>3, <3>4, <3>5 DEF TimerCallback, MouseHandler, Unhandled
  <2>2. CASE UNCHANGED <<full, last>>
    <3>1. Leftover' => Leftover
      BY <2>1, <2>2 DEF Leftover
    <3> QED
      BY <1>2, <2>1, <2>2, <3>1 DEF AgainInv
  <2>3. CASE ~UNCHANGED <<full, last>>
    <3>1. full' = NoByte /\ MouseHandler /\ full.from = "mouse"
      BY <1>11, <2>3 DEF TimerCallback, MouseHandler, Unhandled, SendEoi, ReadPort, port
    <3>2. Top = [irq |-> 12, at |-> "handler"]
      BY <3>1 DEF MouseHandler, Running
    <3>3. 1 \notin irr
      BY <1>2, <2>1, <3>1, <3>2 DEF AgainInv
    <3>4. ~Leftover'
      BY <2>1, <3>3 DEF Leftover
    <3> QED
      BY <1>2, <1>3, <2>1, <3>1, <3>4 DEF AgainInv
  <2> QED
    BY <2>2, <2>3
<1>12. CASE KeyboardCallback
  <2>1. /\ stack # <<>> /\ Top = [irq |-> 1, at |-> "handler"] /\ Top'.at = "eoi" /\ boot = 16
        /\ boot' = boot /\ reply' = reply /\ full' = NoByte /\ last' = Byte /\ irr' \subseteq irr
    <3>1. PICK j \in Irqs, a \in {"handler", "eoi"} : stack = <<[irq |-> j, at |-> a]>>
      BY <1>12 DEF OneAtATime, KeyboardCallback, Running
    <3>2. Top'.at = "eoi"
      BY <1>12, <3>1 DEF KeyboardCallback, Handled, Top
    <3>3. boot = 16
      BY <1>0, <3>1 DEF StartInv
    <3> QED
      BY <1>12, <3>1, <3>2, <3>3 DEF KeyboardCallback, Running, ReadPort
  <2>2. full # Config /\ full.from # "mouse"
    BY <1>2, <1>12, <2>1 DEF AgainInv, KeyboardCallback, Calm
  <2>3. \A b : Decode(b.key, b.up) /\ IsShift(b) => shift_pressed' = ~b.up
    BY DEF Decode, IsShift
  <2>4. last' = MouseByte(Ack) \/ (last' \in KeyBytes /\ (IsShift(last') => shift_pressed' = ~last'.up))
    <3>1. Byte \in KeyBytes => Decode(Byte.key, Byte.up)
      BY <1>3, <1>12 DEF KeyboardCallback
    <3>2. CASE full = NoByte
      <4>1. Byte = last /\ Leftover
        BY <1>3, <2>1, <3>2 DEF Byte, Leftover
      <4>2. Byte = MouseByte(Ack) \/ Byte \in KeyBytes
        BY <1>2, <2>1, <4>1 DEF AgainInv
      <4> QED
        BY <2>1, <2>3, <3>1, <4>2
    <3>3. CASE full # NoByte
      <4>1. Byte \in KeyBytes
        BY <1>0, <2>2, <3>3 DEF Byte, Bytes, MouseBytes
      <4> QED
        BY <2>1, <2>3, <3>1, <4>1
    <3> QED
      BY <3>2, <3>3
  <2> QED
    BY <1>2, <1>3, <2>1, <2>4 DEF AgainInv
<1>13. CASE LoadReply
  <2>1. boot = 5 /\ boot' = boot /\ stack' = <<>> /\ ~reply'
    BY <1>0, <1>2, <1>13 DEF LoadReply, Loaded, AgainInv, StartInv, cpu
  <2> QED
    BY <2>1 DEF AgainInv
<1>14. CASE LoadKey
  <2>1. full' \in KeyBytes /\ UNCHANGED <<boot, reply>>
    BY <1>14 DEF TypeOK, LoadKey, Loaded, cpu
  <2> QED
    BY <1>2, <1>3, <2>1 DEF AgainInv, Leftover
<1>15. CASE LoadMouse \/ Tick
  <2>1. /\ irr' \subseteq irr \cup {0, 12} /\ UNCHANGED <<boot, reply, last, stack, shift_pressed>>
        /\ full.from # "keyboard" \/ full' = full
    <3>1. LoadMouse => Head(mqueue) \in MouseBytes
      BY DEF TypeOK, LoadMouse
    <3>2. LoadMouse => Line(Head(mqueue)) = 12
      BY <3>1 DEF MouseBytes, Line
    <3> QED
      BY <1>3, <1>15, <3>2 DEF LoadMouse, Loaded, Tick, cpu, port, drivers
  <2>2. full' # Config \/ full' = full
    <3>1. LoadMouse => Head(mqueue) \in MouseBytes
      BY DEF TypeOK, LoadMouse
    <3> QED
      BY <1>15, <3>1 DEF LoadMouse, Loaded, Tick, port, MouseBytes, Config
  <2>3. Leftover' => Leftover
    BY <2>1 DEF Leftover, Top
  <2> QED
    BY <1>2, <2>1, <2>2, <2>3 DEF AgainInv, Top
<1>16. CASE Move \/ \E k \in Keys : Strike(k)
  BY <1>4, <1>16 DEF Move, Strike, Seen, cpu, pics, port, drivers
<1>17. CASE UNCHANGED vars
  BY <1>4, <1>17 DEF vars, Seen, cpu, pics, port, drivers
<1> QED
  BY <1>5, <1>6, <1>7, <1>8, <1>9, <1>10, <1>11, <1>12, <1>13, <1>14, <1>15, <1>16, <1>17
     DEF Next, Cpu, Boot, Handlers, Hardware, Irqs, Lines

\* Only the keyboard's handler and the user move the shift state.
LEMMA ShiftKept ==
    /\ TypeOK /\ StartInv /\ (Calm => AgainInv) /\ (Calm => ShiftInv) /\ [Next]_vars
    => (Calm' => ShiftInv')
<1> SUFFICES ASSUME TypeOK, StartInv, Calm => AgainInv, Calm => ShiftInv, [Next]_vars, Calm' PROVE ShiftInv'
  OBVIOUS
<1>0. boot \in 1 .. 16 /\ full \in Bytes \cup {NoByte} /\ kqueue \in Seq(KeyBytes)
      /\ shift_pressed \in BOOLEAN
  BY DEF TypeOK, Steps
<1>2. Calm /\ AgainInv /\ ShiftInv
  BY EventsGrow DEF Calm
<1>3. /\ \A b \in MouseBytes \cup {NoByte, Config} : ~IsShift(b) /\ b \notin KeyBytes
      /\ \A n : ~IsShift(MouseByte(n))
  BY DEF KeyBytes, MouseBytes, Config, NoByte, MouseByte, IsShift
<1>4. CASE /\ UNCHANGED <<kqueue, held, shift_pressed>>
           /\ full' = full \/ (~IsShift(full) /\ ~IsShift(full'))
  BY <1>2, <1>4 DEF ShiftInv
<1>5. CASE GetConfig \/ MouseRead
  <2>1. full \in {Config, MouseByte(Ack)} /\ full' = NoByte /\ UNCHANGED <<kqueue, held, shift_pressed>>
    BY <1>5 DEF GetConfig, MouseRead, Amiss, Calm, ReadPort, devices, drivers
  <2> QED
    BY <1>3, <1>4, <2>1
<1>6. CASE MouseHandler
  <2>1. full' = full \/ (full.from = "mouse" /\ full' = NoByte)
    BY <1>6 DEF MouseHandler, ReadPort
  <2> QED
    BY <1>3, <1>4, <1>6, <2>1 DEF MouseHandler, devices, IsShift
<1>7. CASE LoadReply \/ LoadMouse
  <2>1. full = NoByte /\ full' \in MouseBytes \cup {Config} /\ UNCHANGED <<kqueue, held, shift_pressed>>
    <3>1. LoadMouse => Head(mqueue) \in MouseBytes
      BY DEF TypeOK, LoadMouse
    <3> QED
      BY <1>7, <3>1 DEF LoadReply, LoadMouse, Loaded, drivers
  <2> QED
    BY <1>3, <1>4, <2>1
<1>8. CASE LoadKey
  <2>1. /\ full = NoByte /\ full' = kqueue[1] /\ kqueue # <<>> /\ UNCHANGED <<held, shift_pressed>>
        /\ Len(kqueue') = Len(kqueue) - 1 /\ \A n \in 1 .. Len(kqueue') : kqueue'[n] = kqueue[n + 1]
        /\ Len(kqueue) \in Nat /\ DOMAIN kqueue = 1 .. Len(kqueue) /\ DOMAIN kqueue' = 1 .. Len(kqueue')
    BY <1>0, <1>8 DEF LoadKey, Loaded, drivers
  <2> SUFFICES ASSUME held \cap ShiftKeys = {}
               PROVE  /\ \A n \in DOMAIN kqueue' :
                            /\ IsShift(kqueue'[n])
                            /\ \A m \in DOMAIN kqueue' : m > n => ~IsShift(kqueue'[m])
                            => kqueue'[n].up
                      /\ (\A n \in DOMAIN kqueue' : ~IsShift(kqueue'[n])) =>
                            IF IsShift(full') THEN full'.up ELSE ~shift_pressed
    BY <2>1 DEF ShiftInv
  <2>2. ASSUME NEW n \in DOMAIN kqueue', IsShift(kqueue'[n]),
               \A m \in DOMAIN kqueue' : m > n => ~IsShift(kqueue'[m])
        PROVE  kqueue'[n].up
    <3>1. n + 1 \in DOMAIN kqueue /\ kqueue'[n] = kqueue[n + 1]
      BY <2>1
    <3>2. \A m \in DOMAIN kqueue : m > n + 1 => ~IsShift(kqueue[m])
      <4>1. \A m \in DOMAIN kqueue : m > n + 1 =>
               m - 1 \in DOMAIN kqueue' /\ m - 1 > n /\ kqueue'[m - 1] = kqueue[m]
        BY <2>1
      <4> QED
        BY <2>2, <4>1
    <3> QED
      BY <1>2, <2>2, <3>1, <3>2 DEF ShiftInv
  <2>3. ASSUME \A n \in DOMAIN kqueue' : ~IsShift(kqueue'[n])
        PROVE  IF IsShift(full') THEN full'.up ELSE ~shift_pressed
    <3>1. \A m \in DOMAIN kqueue : m > 1 => ~IsShift(kqueue[m])
      <4>1. \A m \in DOMAIN kqueue : m > 1 => m - 1 \in DOMAIN kqueue' /\ kqueue'[m - 1] = kqueue[m]
        BY <2>1
      <4> QED
        BY <2>3, <4>1
    <3>2. 1 \in DOMAIN kqueue
      BY <2>1
    <3>3. CASE IsShift(full')
      BY <1>2, <2>1, <3>1, <3>2, <3>3 DEF ShiftInv
    <3>4. CASE ~IsShift(full')
      <4>1. \A m \in DOMAIN kqueue : ~IsShift(kqueue[m])
        BY <2>1, <3>1, <3>4
      <4> QED
        BY <1>2, <1>3, <2>1, <3>4, <4>1 DEF ShiftInv
    <3> QED
      BY <3>3, <3>4
  <2> QED
    BY <2>2, <2>3
<1>9. ASSUME NEW k \in Keys, Strike(k) PROVE ShiftInv'
  <2> DEFINE b == [from |-> "keyboard", key |-> k, up |-> k \in held]
  <2>0. b \in KeyBytes /\ (IsShift(b) <=> k \in ShiftKeys) /\ (k \in held => b.up)
    <3>1. b.from = "keyboard" /\ b.key = k /\ b.up = (k \in held)
      OBVIOUS
    <3>2. b \in KeyBytes
      BY DEF KeyBytes
    <3>3. IsShift(b) <=> k \in ShiftKeys
      BY <3>1 DEF IsShift
    <3>4. k \in held => b.up
      BY <3>1, Zenon
    <3> QED
      BY <3>2, <3>3, <3>4
  <2>1. /\ UNCHANGED <<full, shift_pressed>> /\ kqueue' = Append(kqueue, b)
        /\ held' = IF k \in held THEN held \ {k} ELSE held \cup {k}
    BY <1>9 DEF Strike, port, drivers
  <2> HIDE DEF b
  <2>2. /\ Len(kqueue) \in Nat /\ DOMAIN kqueue = 1 .. Len(kqueue) /\ DOMAIN kqueue' = 1 .. (Len(kqueue) + 1)
        /\ kqueue'[Len(kqueue) + 1] = b /\ \A n \in DOMAIN kqueue : kqueue'[n] = kqueue[n]
    BY <1>0, <2>0, <2>1
  <2> SUFFICES ASSUME held' \cap ShiftKeys = {}
               PROVE  /\ \A n \in DOMAIN kqueue' :
                            /\ IsShift(kqueue'[n])
                            /\ \A m \in DOMAIN kqueue' : m > n => ~IsShift(kqueue'[m])
                            => kqueue'[n].up
                      /\ (\A n \in DOMAIN kqueue' : ~IsShift(kqueue'[n])) =>
                            IF IsShift(full) THEN full.up ELSE ~shift_pressed
    BY <2>1 DEF ShiftInv
  <2>3. CASE k \in ShiftKeys
    <3>1. k \in held
      BY <2>1, <2>3
    <3> QED
      BY <2>0, <2>2, <2>3, <3>1
  <2>4. CASE k \notin ShiftKeys
    <3>1. held \cap ShiftKeys = {}
      BY <2>1, <2>4
    <3> QED
      BY <1>2, <2>0, <2>2, <2>4, <3>1 DEF ShiftInv
  <2> QED
    BY <2>3, <2>4
<1>10. CASE KeyboardCallback
  <2>1. /\ stack # <<>> /\ Top = [irq |-> 1, at |-> "handler"] /\ boot = 16
        /\ full' = NoByte /\ UNCHANGED <<kqueue, held>>
    BY <1>0, <1>10 DEF StartInv, KeyboardCallback, Running, ReadPort, devices
  <2>2. full # Config /\ full.from # "mouse"
    BY <1>2, <1>10, <2>1 DEF AgainInv, KeyboardCallback, Calm
  <2>3. Byte \in KeyBytes => IF IsShift(Byte) THEN shift_pressed' = ~Byte.up ELSE shift_pressed' = shift_pressed
    <3>1. Byte \in KeyBytes => Decode(Byte.key, Byte.up)
      <4>1. Byte \in KeyBytes => Byte # MouseByte(Ack)
        BY DEF KeyBytes, MouseByte
      <4> QED
        BY <1>10, <4>1 DEF KeyboardCallback
    <3> QED
      BY <3>1 DEF Decode, IsShift, KeyBytes
  <2>4. CASE full = NoByte
    <3>1. Byte = last /\ Leftover
      BY <2>1, <2>4 DEF Byte, Leftover, NoByte
    <3>2. \/ Byte = MouseByte(Ack)
          \/ Byte \in KeyBytes /\ (IsShift(Byte) => shift_pressed = ~Byte.up)
      BY <1>2, <2>1, <3>1 DEF AgainInv
    <3>3. Byte = MouseByte(Ack) => shift_pressed' = shift_pressed
      <4>1. MouseByte(Ack) \notin KeyBytes
        BY DEF KeyBytes, MouseByte
      <4> QED
        BY <1>10, <4>1 DEF KeyboardCallback
    <3>4. shift_pressed' = shift_pressed
      BY <2>3, <3>2, <3>3
    <3> QED
      BY <1>4, <2>1, <2>4, <3>4
  <2>5. CASE full # NoByte
    <3>1. Byte = full /\ full \in KeyBytes
      BY <1>0, <2>2, <2>5 DEF Byte, Bytes, MouseBytes
    <3> QED
      <4>1. ~IsShift(full')
        BY <1>3, <2>1
      <4>2. CASE IsShift(full)
        BY <1>2, <2>1, <2>3, <3>1, <4>1, <4>2 DEF ShiftInv
      <4>3. CASE ~IsShift(full)
        <5>1. shift_pressed' = shift_pressed
          BY <2>3, <3>1, <4>3
        <5> QED
          BY <1>4, <2>1, <4>1, <4>3, <5>1
      <4> QED
        BY <4>2, <4>3
  <2> QED
    BY <2>4, <2>5
<1>11. CASE PicRemap \/ TimerInit \/ KeyboardInit \/ AskConfig \/ MouseWrite \/ SetMasks \/ Sti
  BY <1>4, <1>11 DEF PicRemap, TimerInit, KeyboardInit, AskConfig, MouseWrite, SetMasks, Sti, port,
     devices, drivers
<1>12. CASE TimerCallback \/ Unhandled \/ SendEoi \/ Move \/ Tick
  BY <1>4, <1>12 DEF TimerCallback, Unhandled, SendEoi, Move, Tick, port, devices, drivers
<1>13. ASSUME NEW i, Take(i) \/ Spurious(i) PROVE ShiftInv'
  BY <1>4, <1>13 DEF Take, Spurious, port, devices, drivers
<1>14. CASE UNCHANGED vars
  BY <1>4, <1>14 DEF vars, port, devices, drivers
<1> QED
  BY <1>5, <1>6, <1>7, <1>8, <1>9, <1>10, <1>11, <1>12, <1>13, <1>14
     DEF Next, Cpu, Boot, Handlers, Hardware

\* The invariant of the bytes.
BytesInv ==
    /\ TypeOK /\ StartInv /\ PacketsInStep
    /\ Calm => StreamInv /\ AgainInv /\ ShiftInv

LEMMA BytesInvHolds == Spec => []BytesInv
<1>1. Init => BytesInv
  <2> SUFFICES ASSUME Init PROVE BytesInv
    OBVIOUS
  <2>1. StartInv /\ PacketsInStep
    BY DEF Init, StartInv, PacketsInStep
  <2>2. StreamInv
    BY DEF Init, StreamInv, NoByte
  <2>3. AgainInv
    BY DEF Init, AgainInv, NoByte, Config
  <2>4. ShiftInv
    BY DEF Init, ShiftInv, NoByte, IsShift
  <2>5. TypeOK
    BY InitTypes
  <2> QED
    BY <2>1, <2>2, <2>3, <2>4, <2>5 DEF BytesInv
<1>2. BytesInv /\ OneAtATime /\ OneAtATime' /\ [Next]_vars => BytesInv'
  BY TypeStep, StartKept, StreamKept, PacketsKept, AgainKept, ShiftKept DEF BytesInv
<1> QED
  BY <1>1, <1>2, ServedOneAtATime, PTL DEF Spec

\* While nobody has read a byte that was not for it, the three bytes of a packet
\* are the three the mouse sent together.
THEOREM PacketsStayInStep == Spec => []PacketsInStep
<1> QED
  BY BytesInvHolds, PTL DEF BytesInv

\* When all shift keys are up and their bytes are read, shift_pressed is off.
THEOREM ShiftIsReleased == Spec => []ShiftReleased
<1>1. BytesInv => ShiftReleased
  BY DEF BytesInv, ShiftInv, ShiftReleased
<1> QED
  BY <1>1, BytesInvHolds, PTL
=============================================================================
