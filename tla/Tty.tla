-------------------------------- MODULE Tty --------------------------------
(***************************************************************************)
(* internal/kim1/tty.go and the gates of system.go around it: the          *)
(* teletype's keyboard (KBD) line into the KIM-1 and its printer (PTR)     *)
(* line out of it, bit by bit in CPU cycles.                               *)
(*                                                                         *)
(* The code stores the absolute cycle at which a byte started on either    *)
(* line and only ever uses its distance from now; the model stores that    *)
(* distance (age).  The age of a byte on the KBD line stops growing at the *)
(* end of its frame, beyond which the code treats all distances alike.     *)
(***************************************************************************)
EXTENDS Naturals, Sequences

CONSTANTS
    Bytes,          \* the bytes in use: functions 1 .. DataBits -> {0, 1}
    DataBits,       \* data bits of a byte (8)
    CyclesPerBit,   \* TTY.CyclesPerBit
    StepCycles,     \* the cycles one System.Step may take (2 to 7)
    MaxBytes,       \* bound: bytes queued between two resets
    MaxResets       \* bound: resets

Rubout == [i \in 1 .. DataBits |-> IF i = DataBits THEN 0 ELSE 1]

ASSUME TtyAssumption ==
    /\ DataBits \in Nat \ {0}
    /\ Bytes \subseteq [1 .. DataBits -> {0, 1}]
    /\ Rubout \in Bytes
    /\ CyclesPerBit \in Nat \ {0}
    /\ StepCycles \subseteq Nat \ {0}
    /\ StepCycles # {}
    /\ MaxBytes \in Nat
    /\ MaxResets \in Nat

VARIABLES
    kbd,        \* the KBD loop: kbdQueue, kbdBusy, kbdByte and its age
    ptr,        \* the PTR receiver: ptrState, its age, ptrBit, ptrByte;
                \* ptrFrames counts its entries into waitMark
    pb0,        \* level of Port B bit 0, the CPU's printer output
    pb5,        \* level of Port B bit 5: 1 inhibits the keyboard input
    ttySelect   \* System.TTYSelect

(* History variables, reset by System.Reset. *)
VARIABLES
    typed,      \* the bytes given to Type and Send, in order
    printed,    \* the bytes handed to OnByte, in order, until disturbed
    disturbed,  \* PB0 was low, or PB5 closed the gate on a byte in flight
    resets      \* number of resets so far

ttyVars == <<kbd, ptr, pb0, pb5, ttySelect,
             typed, printed, disturbed, resets>>

Bit == {0, 1}
FrameBits == DataBits + 2
FrameCycles == FrameBits * CyclesPerBit
NoByte == [i \in 1 .. DataBits |-> 0]
IdlePtr == [state |-> "idle", age |-> 0, bit |-> 0, byte |-> NoByte]
IdleKbd == [queue |-> <<>>, busy |-> FALSE, byte |-> NoByte, age |-> 0]

Entries(bs, paced) == [i \in DOMAIN bs |-> [b |-> bs[i], paced |-> paced]]

----------------------------------------------------------------------------
(* The KBD line as functions of its record k. *)

(* Faulty variant: the next byte may start where the stop bit does. *)
RetireEarly(k) == [k EXCEPT !.busy = @ /\ k.age < FrameCycles - CyclesPerBit]

(* kbdBitAt's side effect: a byte is over once its stop bit has passed. *)
Retire(k) == [k EXCEPT !.busy = @ /\ k.age < FrameCycles]

(* kbdBitAt's result: start bit, data bits from the lowest, stop bit. *)
KbdBit(k) ==
    LET elapsed == k.age \div CyclesPerBit
    IN  IF ~k.busy \/ elapsed > DataBits THEN 1
        ELSE IF elapsed = 0 THEN 0 ELSE k.byte[elapsed]

StartKbdByte(k) ==
    [queue |-> Tail(k.queue), busy |-> TRUE, byte |-> Head(k.queue).b, age |-> 0]

FreeWithByte(k) == ~k.busy /\ k.queue # <<>>

(* Faulty variant: pacing is ignored. *)
KbdLevelUnpaced(k) ==
    LET free == Retire(k)
    IN  IF FreeWithByte(free) THEN StartKbdByte(free) ELSE free

(* KbdLevel's effect on the line; its result is KbdBit of the outcome. *)
KbdLevel(k) ==
    LET free == Retire(k)
    IN  IF FreeWithByte(free) /\ ~Head(free.queue).paced
        THEN StartKbdByte(free) ELSE free

(* Faulty variant: a poll starts no paced byte. *)
CPUPolledUnpacedOnly(k) == KbdLevel(k)

CPUPolled(k) ==
    LET free == Retire(k)
    IN  IF FreeWithByte(free) THEN StartKbdByte(free) ELSE free

(* n cycles pass. *)
AgeKbd(k, n) ==
    [k EXCEPT !.age = IF ~k.busy THEN @
                      ELSE IF @ + n < FrameCycles THEN @ + n ELSE FrameCycles]
AgePtr(p, n) == IF p.state = "receiving" THEN [p EXCEPT !.age = @ + n] ELSE p

----------------------------------------------------------------------------
(* Faulty variant: bits are sampled where they end. *)
SampleDueAtEnd(p) == p.age >= p.bit * CyclesPerBit + CyclesPerBit

(* When ObservePtr samples, for a receiver p with its age brought up to    *)
(* now: in the middle of each bit.                                         *)
SampleDue(p) == p.age >= p.bit * CyclesPerBit + CyclesPerBit \div 2

StopSampled(p, level) ==
    p.state = "receiving" /\ SampleDue(p) /\ p.bit = DataBits + 1 /\ level = 1

(* A data bit is kept. *)
KeepBit(p, level) == [p EXCEPT !.byte = [@ EXCEPT ![p.bit] = level], !.bit = @ + 1]

(* Faulty variant: the stop bit is taken for one more data bit. *)
SampledOneMore(p, level) ==
    CASE p.bit = 0 ->
            IF level = 1 THEN IdlePtr ELSE [p EXCEPT !.bit = 1]
      [] p.bit \in 1 .. DataBits + 1 -> KeepBit(p, level)
      [] p.bit > DataBits + 1 -> IdlePtr

(* A bit is sampled: the start bit must still be there, data bits are      *)
(* kept, and at the stop bit the receiver goes back to idle, by way of     *)
(* waitMark if the line is not at mark.  What an idle receiver holds is    *)
(* never read, so the model clears it.                                     *)
Sampled(p, level) ==
    CASE p.bit = 0 ->
            IF level = 1 THEN IdlePtr ELSE [p EXCEPT !.bit = 1]
      [] p.bit \in 1 .. DataBits -> KeepBit(p, level)
      [] p.bit > DataBits ->
            IF level = 0 THEN [IdlePtr EXCEPT !.state = "waitMark"] ELSE IdlePtr

ObservePtr(p, level) ==
    CASE p.state = "idle" ->
            IF level = 0 THEN [IdlePtr EXCEPT !.state = "receiving"] ELSE p
      [] p.state = "waitMark" ->
            IF level = 1 THEN IdlePtr ELSE p
      [] p.state = "receiving" /\ ~SampleDue(p) -> p
      [] p.state = "receiving" /\ SampleDue(p) -> Sampled(p, level)

----------------------------------------------------------------------------
(* System.Step seen from the teletype: the instruction finds the line as   *)
(* k, leaves the gates' pins at b0 and b5, takes n cycles, and then the    *)
(* printer line, PA7 AND PB0, is sampled.                                  *)
StepWith(k, b0, b5, n) ==
    LET aged  == AgeKbd(k, n)
        line  == IF b5 = 0 THEN KbdLevel(aged) ELSE aged
        pa7   == IF b5 = 0 THEN KbdBit(line) ELSE 1
        level == IF b0 = 0 THEN 0 ELSE pa7
        recv  == AgePtr(ptr, n)
    IN  /\ kbd' = line
        /\ pb0' = b0
        /\ pb5' = b5
        /\ ptr' = ObservePtr(recv, level)
        /\ disturbed' = (\/ disturbed
                         \/ b0 = 0
                         \/ b5 = 1 /\ aged.busy /\ aged.age < FrameCycles)
        /\ printed' = IF StopSampled(recv, level) /\ ~disturbed'
                      THEN Append(printed, recv.byte) ELSE printed
        /\ UNCHANGED <<ttySelect, typed, resets>>

(* An instruction that reads Port A: with the input open, System.Read      *)
(* reports the poll, and then reads the pins.                              *)
StepPollsA(n) ==
    StepWith(IF pb5 = 0 THEN KbdLevel(CPUPolled(kbd)) ELSE kbd, pb0, pb5, n)

(* An instruction that writes Port B or its direction register. *)
StepWritesB(b0, b5, n) ==
    /\ <<b0, b5>> # <<pb0, pb5>>
    /\ StepWith(kbd, b0, b5, n)

(* Any other instruction, or an interrupt. *)
StepElsewhere(n) == StepWith(kbd, pb0, pb5, n)

(* broadcastState, between two steps: with the input open, its reading of  *)
(* the Port A pins for the state message can start a byte.                 *)
Refresh(line) ==
    /\ pb5 = 0
    /\ kbd' = KbdLevel(line)
    /\ UNCHANGED <<ptr, pb0, pb5, ttySelect,
                   typed, printed, disturbed, resets>>

(* That reading alone is not reported as a poll.                           *)
BroadcastReadsA == Refresh(kbd)

(* While the display shows an address at which an instruction would have   *)
(* Port A among its bytes ($1740, say), the disassembly reads it first,    *)
(* through System.Read, which takes this for a poll.                       *)
BroadcastShowsA == Refresh(CPUPolled(kbd))

----------------------------------------------------------------------------
(* The browser: keys, pasted text, the TTY/KB switch. *)
Enqueue(b, paced) ==
    /\ Len(typed) < MaxBytes
    /\ kbd' = [kbd EXCEPT !.queue = @ \o Entries(<<b>>, paced)]
    /\ typed' = Append(typed, b)
    /\ UNCHANGED <<ptr, pb0, pb5, ttySelect, printed, disturbed, resets>>

Type(b) == Enqueue(b, FALSE)
Send(b) == Enqueue(b, TRUE)

SetTTYSelect(on) ==
    /\ ttySelect' = on
    /\ UNCHANGED <<kbd, ptr, pb0, pb5, typed, printed, disturbed, resets>>

(* System.Reset: TTY.Reset and then, in TTY mode, the paced RUBOUT.  The   *)
(* RIOT's pins keep their levels.                                          *)
Reset ==
    LET first == IF ttySelect THEN <<Rubout>> ELSE <<>>
    IN  /\ resets < MaxResets
        /\ kbd' = [kbd EXCEPT !.busy = FALSE, !.queue = Entries(first, TRUE)]
        /\ ptr' = IdlePtr
        /\ typed' = first
        /\ printed' = <<>>
        /\ disturbed' = (pb0 = 0)
        /\ resets' = resets + 1
        /\ UNCHANGED <<pb0, pb5, ttySelect>>

----------------------------------------------------------------------------
(* After main's Reset: the RIOT's pins are inputs and float high. *)
InitWith(b5) ==
    /\ kbd = IdleKbd
    /\ ptr = IdlePtr
    /\ pb0 = 1
    /\ pb5 = b5
    /\ ttySelect = FALSE
    /\ typed = <<>>
    /\ printed = <<>>
    /\ disturbed = FALSE
    /\ resets = 0

Init == InitWith(1)

Terminal ==
    \/ \E b \in Bytes : Type(b) \/ Send(b)
    \/ \E on \in BOOLEAN : SetTTYSelect(on)
    \/ Reset

Poll == \E n \in StepCycles : StepPollsA(n)

CPU ==
    \/ Poll
    \/ \E n \in StepCycles, b0, b5 \in Bit : StepWritesB(b0, b5, n)
    \/ \E n \in StepCycles : StepElsewhere(n)

Refreshes == BroadcastReadsA \/ BroadcastShowsA

Next == CPU \/ Refreshes \/ Terminal

Spec == Init /\ [][Next]_ttyVars

(* The monitor waiting for input: GETCH has opened the gate, leaves Port B *)
(* alone and keeps reading Port A.  The CPU goroutine never stops stepping *)
(* and GETCH's loop is a few instructions long, so it polls again and      *)
(* again: the fairness below.  Nothing is asked of the user or the browser.*)
GetchNext == Poll \/ (\E n \in StepCycles : StepElsewhere(n)) \/ Refreshes \/ Terminal

GetchSpec == InitWith(0) /\ [][GetchNext]_ttyVars /\ WF_ttyVars(Poll)

----------------------------------------------------------------------------
(* Types. *)
TypeOK ==
    /\ kbd.queue \in Seq([b : Bytes, paced : BOOLEAN])
    /\ kbd \in [queue : {kbd.queue}, busy : BOOLEAN,
               byte : [1 .. DataBits -> Bit], age : 0 .. FrameCycles]
    /\ ptr \in [state : {"idle", "receiving", "waitMark"}, age : Nat,
               bit : 0 .. DataBits + 1, byte : [1 .. DataBits -> Bit]]
    /\ pb0 \in Bit
    /\ pb5 \in Bit
    /\ ttySelect \in BOOLEAN
    /\ typed \in Seq(Bytes)
    /\ printed \in Seq([1 .. DataBits -> Bit])
    /\ disturbed \in BOOLEAN
    /\ resets \in Nat

(* The byte on the wire that the printer has not decoded yet: from its     *)
(* start until the receiver samples its stop bit.                          *)
OnTheWire ==
    IF kbd.busy /\ (ptr.state = "receiving" \/ kbd.age < CyclesPerBit)
    THEN <<kbd.byte>> ELSE <<>>

Queued == [i \in DOMAIN kbd.queue |-> kbd.queue[i].b]

(* The receiver's margin.  It sees a start bit up to one step late and     *)
(* samples up to one step behind the middle of a bit; what is left of the  *)
(* bit by then must cover both.                                            *)
Margin == \A n \in StepCycles : CyclesPerBit \div 2 + 2 * n <= CyclesPerBit

(* The hardware echo: while the CPU keeps PB0 high and closes the gate     *)
(* only between bytes, every byte the user typed or pasted since the last  *)
(* reset is printed, on the wire or still queued -- in order, undamaged,   *)
(* none twice, none lost, and without a framing error -- although sender   *)
(* and receiver never share a clock edge: steps take several cycles each,  *)
(* bytes start at polls or in the middle of a broadcast, and the receiver  *)
(* samples whenever the CPU's instruction happens to end.                  *)
Echo ==
    ~disturbed => /\ typed = printed \o OnTheWire \o Queued
                  /\ ptr.state # "waitMark"

(* A pasted byte, or the RUBOUT after a reset, leaves the queue only when  *)
(* System.Read reads Port A with the input open: for an instruction, or -- *)
(* which Send's comment does not say -- for the disassembly of what the    *)
(* display shows.  Neither the passing of time, nor the browsers' view of  *)
(* the pins, nor an unpaced byte before it, nor opening the gate frees it. *)
PacedNeedsRead ==
    [][/\ kbd.queue # <<>>
       /\ Head(kbd.queue).paced
       /\ kbd'.queue = Tail(kbd.queue)
       => ((Poll \/ BroadcastShowsA) /\ pb5 = 0) \/ Reset]_ttyVars

(* A byte on the wire is never cut short: the next one starts only when    *)
(* the whole frame of the last, stop bit included, has passed, or after a  *)
(* reset -- also while PB5 keeps the gate closed.                          *)
WholeFrames ==
    [][kbd.busy /\ kbd'.busy /\ kbd'.age < kbd.age
       => \E n \in StepCycles : kbd.age + n >= FrameCycles]_ttyVars

(* While GETCH listens, everything typed, pasted, or queued by the reset   *)
(* reaches the printer in the end: no byte waits for ever behind another,  *)
(* paced or not, and a reset never drops the RUBOUT it queues.             *)
AllPrinted == Len(printed) < Len(typed) ~> Len(printed) = Len(typed)
=============================================================================
