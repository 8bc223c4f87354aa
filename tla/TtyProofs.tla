------------------------------ MODULE TtyProofs ------------------------------
(***************************************************************************)
(* Proofs about Tty, for bytes of any width, any bit period, any lengths   *)
(* of the CPU's steps, and any number of bytes and resets.                 *)
(***************************************************************************)
EXTENDS Tty, SequenceTheorems, TLAPS

ByteType == [1 .. DataBits -> Bit]
QueueEntry == [b : Bytes, paced : BOOLEAN]
KbdType == [queue : Seq(QueueEntry), busy : BOOLEAN, byte : ByteType, age : 0 .. FrameCycles]
PtrType == [state : {"idle", "receiving", "waitMark"}, age : Nat,
            bit : 0 .. DataBits + 1, byte : ByteType]

(***************************************************************************)
(* Arithmetic.                                                             *)
(***************************************************************************)
LEMMA Quotient ==
    ASSUME NEW a \in Nat, NEW c \in Nat \ {0}, NEW k \in Nat, k * c <= a
    PROVE  /\ a \div c >= k
           /\ a < k * c + c => a \div c = k
    OBVIOUS

LEMMA Products ==
    ASSUME NEW a \in Nat, NEW b \in Nat, NEW c \in Nat, a <= b
    PROVE  /\ a * c <= b * c
           /\ (a + 1) * c = a * c + c
           /\ a * c \in Nat
    OBVIOUS

LEMMA Constants ==
    /\ DataBits \in Nat \ {0}
    /\ CyclesPerBit \in Nat \ {0}
    /\ FrameCycles \in Nat \ {0}
    /\ CyclesPerBit < FrameCycles
    /\ FrameCycles = (DataBits + 1) * CyclesPerBit + CyclesPerBit
    /\ CyclesPerBit <= (DataBits + 1) * CyclesPerBit
    /\ CyclesPerBit \div 2 \in Nat
    /\ NoByte \in ByteType
    /\ Bytes \subseteq ByteType
<1>1. DataBits \in Nat \ {0} /\ CyclesPerBit \in Nat \ {0} /\ Bytes \subseteq ByteType
    BY TtyAssumption DEF ByteType, Bit
<1>2. FrameCycles = (DataBits + 1) * CyclesPerBit + CyclesPerBit
    BY <1>1 DEF FrameCycles, FrameBits
<1>3. 1 * CyclesPerBit <= (DataBits + 1) * CyclesPerBit /\ (DataBits + 1) * CyclesPerBit \in Nat
    BY <1>1, Products
<1>4. CyclesPerBit \div 2 \in Nat
    BY <1>1
<1>5. NoByte \in ByteType
    BY <1>1 DEF NoByte, ByteType, Bit
<1>. QED BY <1>1, <1>2, <1>3, <1>4, <1>5

(***************************************************************************)
(* The keyboard's line.                                                    *)
(***************************************************************************)
(* What KbdLevel does to the line (tty.go): a byte under way stays; else   *)
(* the line is freed and perhaps a byte is started that is not paced.      *)
LEMMA LevelCases ==
    ASSUME NEW k \in KbdType
    PROVE  \/ k.busy /\ k.age < FrameCycles /\ KbdLevel(k) = k
           \/ /\ ~k.busy \/ k.age >= FrameCycles
              /\ KbdLevel(k) = [k EXCEPT !.busy = FALSE]
           \/ /\ ~k.busy \/ k.age >= FrameCycles
              /\ k.queue # <<>>
              /\ ~Head(k.queue).paced
              /\ KbdLevel(k) = StartKbdByte(k)
<1>1. Retire(k) = [k EXCEPT !.busy = k.busy /\ k.age < FrameCycles]
    BY DEF Retire
<1>2. CASE k.busy /\ k.age < FrameCycles
    <2>1. Retire(k) = k BY <1>1, <1>2 DEF KbdType
    <2>. QED BY <2>1, <1>2 DEF KbdLevel, FreeWithByte
<1>3. CASE ~(k.busy /\ k.age < FrameCycles)
    <2>1. Retire(k) = [k EXCEPT !.busy = FALSE] BY <1>1, <1>3
    <2>2. Retire(k).queue = k.queue /\ Retire(k).busy = FALSE BY <2>1 DEF KbdType
    <2>3. StartKbdByte(Retire(k)) = StartKbdByte(k) BY <2>2 DEF StartKbdByte
    <2>4. ~k.busy \/ k.age >= FrameCycles
        BY <1>3, Constants DEF KbdType
    <2>. QED BY <2>1, <2>2, <2>3, <2>4 DEF KbdLevel, FreeWithByte
<1>. QED BY <1>2, <1>3

(* CPUPolled differs in that it starts any byte.                           *)
LEMMA PolledCases ==
    ASSUME NEW k \in KbdType
    PROVE  \/ k.busy /\ k.age < FrameCycles /\ CPUPolled(k) = k
           \/ /\ ~k.busy \/ k.age >= FrameCycles
              /\ CPUPolled(k) = [k EXCEPT !.busy = FALSE]
           \/ /\ ~k.busy \/ k.age >= FrameCycles
              /\ k.queue # <<>>
              /\ CPUPolled(k) = StartKbdByte(k)
<1>1. Retire(k) = [k EXCEPT !.busy = k.busy /\ k.age < FrameCycles]
    BY DEF Retire
<1>2. CASE k.busy /\ k.age < FrameCycles
    <2>1. Retire(k) = k BY <1>1, <1>2 DEF KbdType
    <2>. QED BY <2>1, <1>2 DEF CPUPolled, FreeWithByte
<1>3. CASE ~(k.busy /\ k.age < FrameCycles)
    <2>1. Retire(k) = [k EXCEPT !.busy = FALSE] BY <1>1, <1>3
    <2>2. Retire(k).queue = k.queue /\ Retire(k).busy = FALSE BY <2>1 DEF KbdType
    <2>3. StartKbdByte(Retire(k)) = StartKbdByte(k) BY <2>2 DEF StartKbdByte
    <2>4. ~k.busy \/ k.age >= FrameCycles
        BY <1>3, Constants DEF KbdType
    <2>. QED BY <2>1, <2>2, <2>3, <2>4 DEF CPUPolled, FreeWithByte
<1>. QED BY <1>2, <1>3

(* A byte that starts is one of those queued.                              *)
LEMMA StartedType ==
    ASSUME NEW k \in KbdType, k.queue # <<>>
    PROVE  /\ StartKbdByte(k) \in KbdType
           /\ StartKbdByte(k).queue = Tail(k.queue)
           /\ StartKbdByte(k).byte = Head(k.queue).b
           /\ StartKbdByte(k).busy /\ StartKbdByte(k).age = 0
<1>1. Head(k.queue) \in QueueEntry /\ Tail(k.queue) \in Seq(QueueEntry)
    BY HeadTailProperties DEF KbdType
<1>. QED BY <1>1, Constants DEF StartKbdByte, KbdType, QueueEntry

LEMMA LineTypes ==
    ASSUME NEW k \in KbdType, NEW n \in Nat
    PROVE  /\ KbdLevel(k) \in KbdType
           /\ CPUPolled(k) \in KbdType
           /\ AgeKbd(k, n) \in KbdType
<1>1. [k EXCEPT !.busy = FALSE] \in KbdType BY DEF KbdType
<1>2. AgeKbd(k, n) \in KbdType BY Constants, SMTT(30) DEF AgeKbd, KbdType
<1>. QED BY <1>1, <1>2, LevelCases, PolledCases, StartedType

LEMMA LevelIsBit == ASSUME NEW k \in KbdType PROVE KbdBit(k) \in Bit
<1>1. k.age \div CyclesPerBit \in Nat BY Constants DEF KbdType
<1>. QED BY <1>1, Constants DEF KbdBit, KbdType, ByteType, Bit

LEMMA PrinterTypes ==
    ASSUME NEW p \in PtrType, NEW level \in Bit
    PROVE  ObservePtr(p, level) \in PtrType
<1>1. IdlePtr \in PtrType /\ \A s \in {"receiving", "waitMark"} : [IdlePtr EXCEPT !.state = s] \in PtrType
    BY Constants DEF IdlePtr, PtrType
<1>2. ASSUME p.bit = 0 PROVE [p EXCEPT !.bit = 1] \in PtrType
    BY Constants DEF PtrType
<1>3. ASSUME p.bit \in 1 .. DataBits PROVE KeepBit(p, level) \in PtrType
    <2>1. [p.byte EXCEPT ![p.bit] = level] \in ByteType
        BY <1>3 DEF PtrType, ByteType
    <2>2. p.bit + 1 \in 0 .. DataBits + 1
        BY <1>3, Constants
    <2>. QED BY <2>1, <2>2 DEF PtrType, KeepBit
<1>4. p.bit = 0 \/ p.bit \in 1 .. DataBits \/ p.bit > DataBits
    BY Constants DEF PtrType
<1>5. p.state \in {"idle", "receiving", "waitMark"}
    BY DEF PtrType
<1>6. Sampled(p, level) \in PtrType
    <2>1. CASE p.bit = 0
        BY <2>1, <1>1, <1>2 DEF Sampled
    <2>2. CASE p.bit \in 1 .. DataBits
        <3>1. ~(p.bit = 0) /\ ~(p.bit > DataBits) BY <2>2, Constants
        <3>. QED BY <2>2, <3>1, <1>3 DEF Sampled
    <2>3. CASE p.bit > DataBits
        <3>1. ~(p.bit = 0) /\ p.bit \notin 1 .. DataBits BY <2>3, Constants DEF PtrType
        <3>. QED BY <2>3, <3>1, <1>1 DEF Sampled
    <2>. QED BY <1>4, <2>1, <2>2, <2>3
<1>. QED BY <1>1, <1>5, <1>6 DEF ObservePtr

(* TypeOK, with the two lines' types in one piece each.                    *)
LEMMA TypesOfLines ==
    TypeOK <=> /\ kbd \in KbdType
               /\ ptr \in PtrType
               /\ pb0 \in Bit
               /\ pb5 \in Bit
               /\ ttySelect \in BOOLEAN
               /\ typed \in Seq(Bytes)
               /\ printed \in Seq(ByteType)
               /\ disturbed \in BOOLEAN
               /\ resets \in Nat
    BY DEF TypeOK, KbdType, PtrType, ByteType, QueueEntry

(* A byte queued behind others (Type and Send), and what Queued says of it.*)
Names(q) == [i \in DOMAIN q |-> q[i].b]

LEMMA NamesType ==
    ASSUME NEW q \in Seq(QueueEntry)
    PROVE  Names(q) \in Seq(Bytes) /\ Len(Names(q)) = Len(q)
<1>1. DOMAIN q = 1 .. Len(q) /\ Len(q) \in Nat /\ \A i \in 1 .. Len(q) : q[i] \in QueueEntry
    BY LenProperties, ElementOfSeq
<1>2. Names(q) \in [1 .. Len(q) -> Bytes]
    BY <1>1 DEF Names, QueueEntry
<1>. QED BY <1>1, <1>2

LEMMA Singleton ==
    ASSUME NEW S, NEW x \in S
    PROVE  <<x>> \in Seq(S) /\ Len(<<x>>) = 1 /\ <<x>>[1] = x
    OBVIOUS

LEMMA OneEntry ==
    ASSUME NEW b \in Bytes, NEW paced \in BOOLEAN
    PROVE  /\ Entries(<<b>>, paced) = <<[b |-> b, paced |-> paced]>>
           /\ Entries(<<b>>, paced) \in Seq(QueueEntry)
<1>1. DOMAIN <<b>> = 1 .. 1 /\ <<b>>[1] = b
    OBVIOUS
<1>2. Entries(<<b>>, paced) = [i \in 1 .. 1 |-> [b |-> b, paced |-> paced]]
    BY <1>1 DEF Entries
<1>3. Entries(<<b>>, paced) = <<[b |-> b, paced |-> paced]>>
    BY <1>2
<1>4. [b |-> b, paced |-> paced] \in QueueEntry
    BY DEF QueueEntry
<1>. QED BY <1>3, <1>4, Singleton

LEMMA NoEntries == \A paced : Entries(<<>>, paced) = <<>>
    BY DEF Entries

(***************************************************************************)
(* Sender and receiver.  Due(b) is the age at which bit b is sampled (the  *)
(* middle of the bit), Slack what remains of a bit from there.             *)
(***************************************************************************)
Slack == CyclesPerBit - CyclesPerBit \div 2
Due(b) == b * CyclesPerBit + CyclesPerBit \div 2

(* Between two steps the receiver has either seen nothing of the byte on   *)
(* the line or all its bits but the stop bit's rest, or it follows that    *)
(* byte by at most half the slack, has kept the bits it has passed, and    *)
(* is not yet due to sample the next.                                      *)
Follows(k, p) ==
    /\ k.busy
    /\ p.age <= k.age
    /\ 2 * (k.age - p.age) <= Slack
    /\ \A i \in 1 .. DataBits : i < p.bit => p.byte[i] = k.byte[i]

InStep(k, p) ==
    \/ /\ p.state = "idle"
       /\ k.busy => k.age = 0 \/ k.age >= (DataBits + 1) * CyclesPerBit
    \/ /\ p.state = "receiving"
       /\ Follows(k, p)
       /\ p.age < Due(p.bit)

(* Within a step, when cycles have passed and the line has not been        *)
(* sampled, the receiver is late by a step that takes half the slack at    *)
(* most.                                                                   *)
InFlight(k, p) ==
    \/ /\ p.state = "idle"
       /\ k.busy => 2 * k.age <= Slack \/ k.age >= (DataBits + 1) * CyclesPerBit
    \/ /\ p.state = "receiving"
       /\ Follows(k, p)
       /\ 2 * p.age < 2 * Due(p.bit) + Slack

(* OnTheWire for any line k and receiver p. *)
Wire(k, p) ==
    IF k.busy /\ (p.state = "receiving" \/ k.age < CyclesPerBit) THEN <<k.byte>> ELSE <<>>

LEMMA SlackFacts ==
    ASSUME Margin
    PROVE  /\ Slack \in Nat
           /\ Slack < CyclesPerBit
           /\ CyclesPerBit = CyclesPerBit \div 2 + Slack
           /\ CyclesPerBit \div 2 > 0
           /\ \A n \in StepCycles : n \in Nat \ {0} /\ 2 * n <= Slack
<1>1. PICK m \in StepCycles : TRUE
    BY TtyAssumption
<1>2. m \in Nat \ {0} /\ CyclesPerBit \div 2 + 2 * m <= CyclesPerBit
    BY TtyAssumption DEF Margin
<1>3. CyclesPerBit \in Nat /\ CyclesPerBit >= 2
    BY <1>2, Constants
<1>4. CyclesPerBit \div 2 \in Nat /\ CyclesPerBit \div 2 > 0 /\ CyclesPerBit \div 2 < CyclesPerBit
    BY <1>3
<1>. QED BY <1>3, <1>4, TtyAssumption DEF Slack, Margin

LEMMA DueFacts ==
    ASSUME NEW b \in 0 .. DataBits + 1
    PROVE  /\ b * CyclesPerBit \in Nat
           /\ Due(b) \in Nat
           /\ Due(b) = b * CyclesPerBit + CyclesPerBit \div 2
           /\ Due(b + 1) = Due(b) + CyclesPerBit
           /\ b * CyclesPerBit + CyclesPerBit <= FrameCycles
<1>1. b \in Nat /\ DataBits + 1 \in Nat /\ CyclesPerBit \in Nat /\ b <= DataBits + 1
    BY Constants
<1>2. /\ b * CyclesPerBit <= (DataBits + 1) * CyclesPerBit
      /\ (b + 1) * CyclesPerBit = b * CyclesPerBit + CyclesPerBit
      /\ b * CyclesPerBit \in Nat
    BY <1>1, Products
<1>3. b * CyclesPerBit + CyclesPerBit <= FrameCycles
    BY <1>1, <1>2, Constants
<1>. QED BY <1>1, <1>2, <1>3, Constants DEF Due

(* A receiver at work hears a byte whose frame has not passed.             *)
LEMMA HeardInTime ==
    ASSUME Margin, NEW k \in KbdType, NEW p \in PtrType,
           p.state = "receiving", Follows(k, p), 2 * p.age < 2 * Due(p.bit) + Slack
    PROVE  /\ k.age < p.bit * CyclesPerBit + CyclesPerBit
           /\ k.age < FrameCycles
           /\ k.busy
<1>1. p.bit \in 0 .. DataBits + 1 /\ p.age \in Nat /\ k.age \in Nat
    BY Constants DEF KbdType, PtrType
<1>. DEFINE b == p.bit * CyclesPerBit
<1>2. b \in Nat /\ Due(p.bit) = b + CyclesPerBit \div 2 /\ b + CyclesPerBit <= FrameCycles
    BY <1>1, DueFacts
<1>3. 2 * (k.age - p.age) <= Slack /\ k.busy
    BY DEF Follows
<1>. HIDE DEF b
<1>4. k.age < b + CyclesPerBit
    BY <1>1, <1>2, <1>3, SlackFacts, Constants
<1>5. k.age < FrameCycles
    BY <1>1, <1>2, <1>4, Constants
<1>. QED BY <1>3, <1>4, <1>5 DEF b

LEMMA InStepInFlight ==
    ASSUME Margin, NEW k \in KbdType, NEW p \in PtrType, InStep(k, p)
    PROVE  InFlight(k, p)
<1>1. k.age = 0 => 2 * k.age <= Slack
    BY SlackFacts
<1>2. ASSUME p.age < Due(p.bit) PROVE 2 * p.age < 2 * Due(p.bit) + Slack
    <2>1. p.age \in Nat /\ p.bit \in 0 .. DataBits + 1
        BY DEF PtrType
    <2>2. Due(p.bit) \in Nat
        BY <2>1, DueFacts
    <2>. QED BY <1>2, <2>1, <2>2, SlackFacts
<1>. QED BY <1>1, <1>2 DEF InStep, InFlight

(* The cycles of a step pass.                                              *)
LEMMA StepAges ==
    ASSUME Margin, NEW k \in KbdType, NEW p \in PtrType, InStep(k, p), NEW n \in StepCycles
    PROVE  /\ InFlight(AgeKbd(k, n), AgePtr(p, n))
           /\ Wire(AgeKbd(k, n), AgePtr(p, n)) = Wire(k, p)
           /\ AgeKbd(k, n).queue = k.queue
           /\ AgeKbd(k, n) \in KbdType
           /\ AgePtr(p, n) \in PtrType
<1>. DEFINE k2 == AgeKbd(k, n)
            p2 == AgePtr(p, n)
<1>1. n \in Nat \ {0} /\ 2 * n <= Slack /\ Slack < CyclesPerBit /\ Slack \in Nat
    BY SlackFacts
<1>2. k2 \in KbdType
    BY <1>1, LineTypes
<1>3. p2 \in PtrType
    BY <1>1 DEF AgePtr, PtrType
<1>4. /\ k2.queue = k.queue /\ k2.busy = k.busy /\ k2.byte = k.byte
      /\ k2.age = IF ~k.busy THEN k.age ELSE IF k.age + n < FrameCycles THEN k.age + n ELSE FrameCycles
    BY DEF AgeKbd, KbdType
<1>5. /\ p2.state = p.state /\ p2.bit = p.bit /\ p2.byte = p.byte
      /\ p2.age = IF p.state = "receiving" THEN p.age + n ELSE p.age
    BY DEF AgePtr, PtrType
<1>6. k.age \in Nat /\ k2.age \in Nat /\ p.age \in Nat /\ p.bit \in 0 .. DataBits + 1
    BY <1>2 DEF KbdType, PtrType
<1>7. (DataBits + 1) * CyclesPerBit \in Nat
    BY Constants, Products
<1>. HIDE DEF k2, p2
<1>8. InFlight(k2, p2) /\ Wire(k2, p2) = Wire(k, p)
    <2>1. CASE p.state = "idle" /\ ~k.busy
        BY <2>1, <1>4, <1>5 DEF InFlight, Wire
    <2>2. CASE p.state = "idle" /\ k.busy /\ k.age = 0
        <3>1. k2.age = n /\ k2.age < CyclesPerBit /\ k.age < CyclesPerBit
            BY <2>2, <1>1, <1>4, Constants
        <3>. QED BY <2>2, <3>1, <1>1, <1>4, <1>5 DEF InFlight, Wire
    <2>3. CASE p.state = "idle" /\ k.busy /\ k.age >= (DataBits + 1) * CyclesPerBit
        <3>1. k2.age >= (DataBits + 1) * CyclesPerBit
            BY <2>3, <1>1, <1>4, <1>6, <1>7, Constants
        <3>2. ~(k.age < CyclesPerBit) /\ ~(k2.age < CyclesPerBit)
            BY <2>3, <3>1, <1>6, <1>7, Constants
        <3>. QED BY <2>3, <3>1, <3>2, <1>4, <1>5 DEF InFlight, Wire
    <2>4. CASE p.state = "receiving" /\ Follows(k, p) /\ p.age < Due(p.bit)
        <3>. DEFINE b == p.bit * CyclesPerBit
        <3>1. b \in Nat /\ Due(p.bit) = b + CyclesPerBit \div 2 /\ b + CyclesPerBit <= FrameCycles
            BY <1>6, DueFacts
        <3>2. k.busy /\ p.age <= k.age /\ 2 * (k.age - p.age) <= Slack
            BY <2>4 DEF Follows
        <3>. HIDE DEF b
        <3>3. k.age + n < FrameCycles
            BY <2>4, <3>1, <3>2, <1>1, <1>6, SlackFacts, Constants
        <3>4. k2.age = k.age + n /\ p2.age = p.age + n
            BY <2>4, <3>2, <3>3, <1>4, <1>5
        <3>5. Follows(k2, p2)
            BY <2>4, <3>4, <1>4, <1>5, <1>6, <1>1 DEF Follows
        <3>6. 2 * p2.age < 2 * Due(p2.bit) + Slack
            BY <2>4, <3>1, <3>4, <1>1, <1>5, <1>6, Constants
        <3>. QED BY <2>4, <3>2, <3>5, <3>6, <1>4, <1>5 DEF InFlight, Wire
    <2>. QED BY <2>1, <2>2, <2>3, <2>4 DEF InStep
<1>. QED BY <1>2, <1>3, <1>4, <1>8 DEF k2, p2

(* Nothing that was typed is lost between the queue, the wire and what was *)
(* printed (pr).                                                           *)
Kept(k, p, pr) == typed = pr \o (Wire(k, p) \o Names(k.queue))

LEMMA NamesHead ==
    ASSUME NEW q \in Seq(QueueEntry), q # <<>>
    PROVE  Names(q) = <<Head(q).b>> \o Names(Tail(q))
<1>1. /\ Head(q) \in QueueEntry /\ Tail(q) \in Seq(QueueEntry)
      /\ Head(q) = q[1] /\ Len(Tail(q)) = Len(q) - 1 /\ Len(q) \in Nat \ {0}
      /\ \A i \in 1 .. Len(Tail(q)) : Tail(q)[i] = q[i + 1]
    BY HeadTailProperties, EmptySeq
<1>2. Head(q).b \in Bytes
    BY <1>1 DEF QueueEntry
<1>. DEFINE t == Names(Tail(q))
            s == <<Head(q).b>>
<1>3. Names(q) \in Seq(Bytes) /\ Len(Names(q)) = Len(q) /\ t \in Seq(Bytes) /\ Len(t) = Len(q) - 1
    BY <1>1, NamesType
<1>4. s \in Seq(Bytes) /\ Len(s) = 1 /\ s[1] = Head(q).b
    BY <1>2, Singleton
<1>5. DOMAIN q = 1 .. Len(q) /\ DOMAIN Tail(q) = 1 .. Len(q) - 1
    BY <1>1, LenProperties
<1>6. /\ \A i \in 1 .. Len(q) : Names(q)[i] = q[i].b
      /\ \A i \in 1 .. Len(q) - 1 : t[i] = q[i + 1].b
    BY <1>1, <1>5 DEF Names
<1>. HIDE DEF s, t
<1>7. /\ s \o t \in Seq(Bytes)
      /\ Len(s \o t) = Len(q)
      /\ \A i \in 1 .. Len(q) : (s \o t)[i] = IF i <= 1 THEN s[i] ELSE t[i - 1]
    <2>1. /\ s \o t \in Seq(Bytes)
          /\ Len(s \o t) = Len(s) + Len(t)
          /\ \A i \in 1 .. Len(s) + Len(t) : (s \o t)[i] = IF i <= Len(s) THEN s[i] ELSE t[i - Len(s)]
        <3>1. s \in Seq(Bytes) /\ t \in Seq(Bytes)
            BY <1>3, <1>4
        <3>. QED BY <3>1, ConcatProperties, Zenon
    <2>. QED BY <2>1, <1>1, <1>3, <1>4
<1>8. \A i \in 1 .. Len(q) : Names(q)[i] = (s \o t)[i]
    BY <1>1, <1>4, <1>6, <1>7
<1>9. Names(q) = s \o t
    BY <1>3, <1>7, <1>8, SeqEqual
<1>. QED BY <1>9 DEF s, t

(* Whatever a poll or a refresh does to the line, it starts a byte only    *)
(* when the last one is over and heard.                                    *)
LEMMA LineKeeps ==
    ASSUME Margin, NEW k \in KbdType, NEW p \in PtrType, InFlight(k, p), NEW k2,
           \/ k2 = k
           \/ /\ ~k.busy \/ k.age >= FrameCycles
              /\ \/ k2 = [k EXCEPT !.busy = FALSE]
                 \/ k.queue # <<>> /\ k2 = StartKbdByte(k)
    PROVE  /\ InFlight(k2, p)
           /\ InStep(k, p) => InStep(k2, p)
           /\ Wire(k2, p) \o Names(k2.queue) = Wire(k, p) \o Names(k.queue)
<1>1. CASE k2 = k
    BY <1>1
<1>2. ASSUME ~k.busy \/ k.age >= FrameCycles
      PROVE  p.state = "idle" /\ Wire(k, p) = <<>>
    <2>1. k.age \in Nat
        BY DEF KbdType
    <2>2. ~(p.state = "receiving")
        <3>. SUFFICES ASSUME p.state = "receiving" PROVE FALSE
            OBVIOUS
        <3>1. Follows(k, p) /\ 2 * p.age < 2 * Due(p.bit) + Slack
            BY DEF InFlight
        <3>2. k.age < FrameCycles /\ k.busy
            BY <3>1, HeardInTime
        <3>. QED BY <1>2, <2>1, <3>2, Constants
    <2>3. p.state = "idle"
        BY <2>2 DEF InFlight
    <2>4. ~(k.busy /\ k.age < CyclesPerBit)
        BY <1>2, <2>1, Constants
    <2>. QED BY <2>3, <2>4 DEF Wire
<1>3. ASSUME ~k.busy \/ k.age >= FrameCycles, k2 = [k EXCEPT !.busy = FALSE]
      PROVE  /\ InFlight(k2, p) /\ InStep(k2, p)
             /\ Wire(k2, p) \o Names(k2.queue) = Wire(k, p) \o Names(k.queue)
    <2>1. k2.busy = FALSE /\ k2.queue = k.queue
        BY <1>3 DEF KbdType
    <2>2. p.state = "idle" /\ Wire(k, p) = <<>>
        BY <1>2, <1>3
    <2>. QED BY <2>1, <2>2 DEF InFlight, InStep, Wire
<1>4. ASSUME ~k.busy \/ k.age >= FrameCycles, k.queue # <<>>, k2 = StartKbdByte(k)
      PROVE  /\ InFlight(k2, p) /\ InStep(k2, p)
             /\ Wire(k2, p) \o Names(k2.queue) = Wire(k, p) \o Names(k.queue)
    <2>1. /\ k2.busy /\ k2.age = 0 /\ k2.queue = Tail(k.queue) /\ k2.byte = Head(k.queue).b
        BY <1>4, StartedType
    <2>2. p.state = "idle" /\ Wire(k, p) = <<>>
        BY <1>2, <1>4
    <2>3. InFlight(k2, p) /\ InStep(k2, p)
        BY <2>1, <2>2, SlackFacts DEF InFlight, InStep
    <2>4. Wire(k2, p) = <<Head(k.queue).b>>
        BY <2>1, Constants DEF Wire
    <2>5. k.queue \in Seq(QueueEntry)
        BY DEF KbdType
    <2>6. Names(k.queue) = <<Head(k.queue).b>> \o Names(Tail(k.queue))
        BY <1>4, <2>5, NamesHead
    <2>7. Names(k.queue) \in Seq(Bytes)
        BY <2>5, NamesType
    <2>8. <<>> \o Names(k.queue) = Names(k.queue)
        BY <2>7, ConcatEmptySeq
    <2>. QED BY <2>1, <2>2, <2>3, <2>4, <2>6, <2>8
<1>. QED BY <1>1, <1>3, <1>4

LEMMA LevelKeeps ==
    ASSUME Margin, NEW k \in KbdType, NEW p \in PtrType, InFlight(k, p)
    PROVE  /\ InFlight(KbdLevel(k), p)
           /\ InStep(k, p) => InStep(KbdLevel(k), p)
           /\ Wire(KbdLevel(k), p) \o Names(KbdLevel(k).queue) = Wire(k, p) \o Names(k.queue)
<1>1. \/ KbdLevel(k) = k
      \/ /\ ~k.busy \/ k.age >= FrameCycles
         /\ \/ KbdLevel(k) = [k EXCEPT !.busy = FALSE]
            \/ k.queue # <<>> /\ KbdLevel(k) = StartKbdByte(k)
    BY LevelCases
<1>. QED BY <1>1, LineKeeps

LEMMA PollKeeps ==
    ASSUME Margin, NEW k \in KbdType, NEW p \in PtrType, InFlight(k, p)
    PROVE  /\ InFlight(CPUPolled(k), p)
           /\ InStep(k, p) => InStep(CPUPolled(k), p)
           /\ Wire(CPUPolled(k), p) \o Names(CPUPolled(k).queue) = Wire(k, p) \o Names(k.queue)
<1>1. \/ CPUPolled(k) = k
      \/ /\ ~k.busy \/ k.age >= FrameCycles
         /\ \/ CPUPolled(k) = [k EXCEPT !.busy = FALSE]
            \/ k.queue # <<>> /\ CPUPolled(k) = StartKbdByte(k)
    BY PolledCases
<1>. QED BY <1>1, LineKeeps

(* The level of the line is what the receiver expects of it: the start bit *)
(* of a byte it has not seen, mark behind one it has, and the bit that is  *)
(* due of the one it follows.                                              *)
LEMMA LevelHeard ==
    ASSUME Margin, NEW k \in KbdType, NEW p \in PtrType, InFlight(k, p)
    PROVE  /\ ~k.busy => KbdBit(k) = 1
           /\ k.busy /\ 2 * k.age <= Slack => KbdBit(k) = 0
           /\ k.age >= (DataBits + 1) * CyclesPerBit => KbdBit(k) = 1
           /\ p.state = "receiving" /\ p.age >= Due(p.bit) =>
                 KbdBit(k) = IF p.bit = 0 THEN 0
                             ELSE IF p.bit > DataBits THEN 1 ELSE k.byte[p.bit]
<1>. DEFINE e == k.age \div CyclesPerBit
<1>1. KbdBit(k) = IF ~k.busy \/ e > DataBits THEN 1 ELSE IF e = 0 THEN 0 ELSE k.byte[e]
    BY DEF KbdBit
<1>2. k.age \in Nat /\ p.age \in Nat /\ p.bit \in 0 .. DataBits + 1
    BY DEF KbdType, PtrType
<1>3. \A b \in Nat : b * CyclesPerBit <= k.age =>
         /\ e >= b
         /\ k.age < b * CyclesPerBit + CyclesPerBit => e = b
    BY <1>2, Constants, Quotient
<1>4. e \in Nat
    BY <1>2, Constants
<1>. HIDE DEF e
<1>5. k.busy /\ 2 * k.age <= Slack => KbdBit(k) = 0
    <2>1. 2 * k.age <= Slack => 0 * CyclesPerBit <= k.age /\ k.age < 0 * CyclesPerBit + CyclesPerBit
        BY <1>2, SlackFacts, Constants
    <2>2. 2 * k.age <= Slack => e = 0
        BY <2>1, <1>3
    <2>. QED BY <2>2, <1>1, Constants
<1>6. k.age >= (DataBits + 1) * CyclesPerBit => KbdBit(k) = 1
    <2>1. k.age >= (DataBits + 1) * CyclesPerBit => e >= DataBits + 1
        <3>1. DataBits + 1 \in Nat /\ (DataBits + 1) * CyclesPerBit \in Nat
            BY Constants, Products
        <3>. QED BY <3>1, <1>2, <1>3
    <2>. QED BY <2>1, <1>1, <1>4, Constants
<1>7. ASSUME p.state = "receiving", p.age >= Due(p.bit)
      PROVE  KbdBit(k) = IF p.bit = 0 THEN 0
                         ELSE IF p.bit > DataBits THEN 1 ELSE k.byte[p.bit]
    <2>1. Follows(k, p) /\ 2 * p.age < 2 * Due(p.bit) + Slack
        BY <1>7 DEF InFlight
    <2>2. k.age < p.bit * CyclesPerBit + CyclesPerBit /\ k.busy
        BY <1>7, <2>1, HeardInTime
    <2>3. p.bit * CyclesPerBit <= k.age
        <3>1. p.bit * CyclesPerBit \in Nat /\ Due(p.bit) = p.bit * CyclesPerBit + CyclesPerBit \div 2
            BY <1>2, DueFacts
        <3>. QED BY <1>2, <1>7, <2>1, <3>1, Constants DEF Follows
    <2>4. e = p.bit
        <3>1. p.bit \in Nat
            BY <1>2, Constants
        <3>. QED BY <3>1, <1>3, <2>2, <2>3
    <2>. QED BY <2>2, <2>4, <1>1, <1>2, Constants
<1>. QED BY <1>1, <1>5, <1>6, <1>7

LEMMA NamesOne ==
    ASSUME NEW b, NEW paced
    PROVE  Names(<<[b |-> b, paced |-> paced]>>) = <<b>>
<1>1. DOMAIN <<[b |-> b, paced |-> paced]>> = 1 .. 1 /\ <<[b |-> b, paced |-> paced]>>[1].b = b
    OBVIOUS
<1>2. Names(<<[b |-> b, paced |-> paced]>>) = [i \in 1 .. 1 |-> b]
    BY <1>1 DEF Names
<1>. QED BY <1>2

LEMMA NamesAppend ==
    ASSUME NEW q \in Seq(QueueEntry), NEW b \in Bytes, NEW paced \in BOOLEAN
    PROVE  Names(q \o <<[b |-> b, paced |-> paced]>>) = Names(q) \o <<b>>
<1>. DEFINE e == [b |-> b, paced |-> paced]
            t == <<e>>
            s == <<b>>
<1>1. t \in Seq(QueueEntry) /\ Len(t) = 1 /\ t[1] = e /\ e.b = b
    BY Singleton DEF QueueEntry
<1>2. s \in Seq(Bytes) /\ Len(s) = 1 /\ s[1] = b
    BY Singleton
<1>3. Names(q) \in Seq(Bytes) /\ Len(Names(q)) = Len(q) /\ Len(q) \in Nat /\ DOMAIN q = 1 .. Len(q)
    BY NamesType, LenProperties
<1>. HIDE DEF e, s, t
<1>4. /\ q \o t \in Seq(QueueEntry)
      /\ Len(q \o t) = Len(q) + Len(t)
      /\ \A i \in 1 .. Len(q) + Len(t) : (q \o t)[i] = IF i <= Len(q) THEN q[i] ELSE t[i - Len(q)]
    BY <1>1, ConcatProperties, Zenon
<1>5. /\ Names(q) \o s \in Seq(Bytes)
      /\ Len(Names(q) \o s) = Len(Names(q)) + Len(s)
      /\ \A i \in 1 .. Len(Names(q)) + Len(s) :
            (Names(q) \o s)[i] = IF i <= Len(Names(q)) THEN Names(q)[i] ELSE s[i - Len(Names(q))]
    BY <1>2, <1>3, ConcatProperties, ZenonT(30)
<1>6. Names(q \o t) \in Seq(Bytes) /\ Len(Names(q \o t)) = Len(q) + 1
    BY <1>1, <1>4, NamesType
<1>7. DOMAIN (q \o t) = 1 .. Len(q) + 1
    BY <1>1, <1>4, LenProperties
<1>8. \A i \in 1 .. Len(q) + 1 : Names(q \o t)[i] = (q \o t)[i].b
    BY <1>7 DEF Names
<1>9. \A i \in 1 .. Len(q) : Names(q)[i] = q[i].b
    BY <1>3 DEF Names
<1>10. \A i \in 1 .. Len(q) + 1 : Names(q \o t)[i] = (Names(q) \o s)[i]
    <2>. SUFFICES ASSUME NEW i \in 1 .. Len(q) + 1
                  PROVE  Names(q \o t)[i] = (Names(q) \o s)[i]
        OBVIOUS
    <2>1. CASE i <= Len(q)
        BY <2>1, <1>1, <1>2, <1>3, <1>4, <1>5, <1>8, <1>9
    <2>2. CASE i = Len(q) + 1
        BY <2>2, <1>1, <1>2, <1>3, <1>4, <1>5, <1>8
    <2>3. i <= Len(q) \/ i = Len(q) + 1
        <3>1. Len(q) \in Nat
            BY <1>3
        <3>. QED BY <3>1
    <2>. QED BY <2>1, <2>2, <2>3
<1>11. Len(Names(q) \o s) = Len(q) + 1
    BY <1>2, <1>3, <1>5
<1>12. Names(q \o t) = Names(q) \o s
    BY <1>5, <1>6, <1>10, <1>11, SeqEqual
<1>. QED BY <1>12 DEF e, s, t

LEMMA WireType ==
    ASSUME NEW k \in KbdType, NEW p
    PROVE  Wire(k, p) \in Seq(ByteType)
<1>1. k.byte \in ByteType
    BY DEF KbdType
<1>. QED BY <1>1, Singleton, EmptySeq DEF Wire

LEMMA SameFunction ==
    ASSUME NEW S, NEW T, NEW f \in [S -> T], NEW g \in [S -> T], \A x \in S : f[x] = g[x]
    PROVE  f = g
    OBVIOUS

(* Sampling the line puts the receiver in step again, and a byte leaves    *)
(* the wire as it is printed.                                              *)
LEMMA SampleKeeps ==
    ASSUME Margin, NEW k \in KbdType, NEW p \in PtrType, InFlight(k, p),
           NEW pr \in Seq(ByteType), Kept(k, p, pr), NEW level, level = KbdBit(k)
    PROVE  /\ InStep(k, ObservePtr(p, level))
           /\ Kept(k, ObservePtr(p, level),
                   IF StopSampled(p, level) THEN Append(pr, p.byte) ELSE pr)
<1>. DEFINE p2 == ObservePtr(p, level)
<1>1. k.age \in Nat /\ p.age \in Nat /\ p.bit \in 0 .. DataBits + 1
    BY DEF KbdType, PtrType
<1>2. IdlePtr.state = "idle" /\ IdlePtr.bit = 0 /\ IdlePtr.age = 0
    BY DEF IdlePtr
<1>3. CASE p.state = "idle"
    <2>1. ~StopSampled(p, level)
        BY <1>3 DEF StopSampled
    <2>2. CASE ~k.busy
        <3>1. p2 = p
            BY <1>3, <2>2, LevelHeard DEF ObservePtr
        <3>. QED BY <1>3, <2>1, <2>2, <3>1 DEF InStep
    <2>3. CASE k.busy /\ k.age >= (DataBits + 1) * CyclesPerBit
        <3>1. p2 = p
            BY <1>3, <2>3, LevelHeard DEF ObservePtr
        <3>. QED BY <1>3, <2>1, <2>3, <3>1 DEF InStep
    <2>4. CASE k.busy /\ 2 * k.age <= Slack
        <3>1. p2 = [IdlePtr EXCEPT !.state = "receiving"]
            BY <1>3, <2>4, LevelHeard DEF ObservePtr
        <3>2. p2.state = "receiving" /\ p2.age = 0 /\ p2.bit = 0
            BY <3>1 DEF IdlePtr
        <3>3. Follows(k, p2)
            BY <2>4, <3>2, <1>1, Constants DEF Follows
        <3>4. Due(0) > 0
            BY SlackFacts, Constants DEF Due
        <3>5. k.age < CyclesPerBit
            BY <2>4, <1>1, SlackFacts, Constants
        <3>6. Wire(k, p2) = Wire(k, p)
            BY <2>4, <3>2, <3>5 DEF Wire
        <3>. QED BY <2>1, <3>2, <3>3, <3>4, <3>6 DEF InStep, Kept
    <2>. QED BY <1>3, <2>2, <2>3, <2>4 DEF InFlight
<1>4. ASSUME p.state = "receiving", Follows(k, p), 2 * p.age < 2 * Due(p.bit) + Slack
      PROVE  InStep(k, p2) /\ Kept(k, p2, IF StopSampled(p, level) THEN Append(pr, p.byte) ELSE pr)
    <2>1. k.busy /\ Wire(k, p) = <<k.byte>>
        BY <1>4 DEF Follows, Wire
    <2>2. Due(p.bit) \in Nat /\ Due(p.bit) = p.bit * CyclesPerBit + CyclesPerBit \div 2
        BY <1>1, DueFacts
    <2>3. SampleDue(p) <=> p.age >= Due(p.bit)
        BY DEF SampleDue, Due
    <2>4. CASE ~SampleDue(p)
        <3>1. p2 = p
            BY <1>4, <2>4 DEF ObservePtr
        <3>2. ~StopSampled(p, level)
            BY <2>4 DEF StopSampled
        <3>3. p.age < Due(p.bit)
            BY <1>1, <2>2, <2>3, <2>4
        <3>. QED BY <1>4, <3>1, <3>2, <3>3 DEF InStep
    <2>5. CASE SampleDue(p) /\ p.bit > DataBits
        <3>1. p.bit = DataBits + 1 /\ ~(p.bit = 0) /\ p.bit \notin 1 .. DataBits
            BY <1>1, <2>5, Constants
        <3>2. level = 1
            BY <1>4, <2>3, <2>5, <3>1, LevelHeard
        <3>3. Sampled(p, level) = IdlePtr
            BY <2>5, <3>1, <3>2 DEF Sampled
        <3>4. p2 = IdlePtr
            BY <1>4, <2>5, <3>3 DEF ObservePtr
        <3>5. StopSampled(p, level)
            BY <1>4, <2>5, <3>1, <3>2 DEF StopSampled
        <3>6. k.age >= (DataBits + 1) * CyclesPerBit
            <4>1. (DataBits + 1) * CyclesPerBit \in Nat /\ p.age <= k.age
                BY <1>4, Constants, Products DEF Follows
            <4>. QED BY <4>1, <1>1, <2>2, <2>3, <2>5, <3>1, Constants
        <3>7. p.byte = k.byte
            <4>. DEFINE f == p.byte
                        g == k.byte
                        S == 1 .. DataBits
            <4>1. \A i \in S : f[i] = g[i]
                BY <1>4, <3>1, Constants DEF Follows
            <4>2. f \in [S -> Bit] /\ g \in [S -> Bit]
                BY DEF PtrType, KbdType, ByteType
            <4>. HIDE DEF f, g, S
            <4>3. f = g
                BY <4>1, <4>2, SameFunction
            <4>. QED BY <4>3 DEF f, g
        <3>8. Wire(k, p2) = <<>>
            <4>1. (DataBits + 1) * CyclesPerBit \in Nat
                BY Constants, Products
            <4>2. ~(k.age < CyclesPerBit)
                BY <4>1, <1>1, <3>6, Constants
            <4>. QED BY <4>2, <3>4, <1>2 DEF Wire
        <3>9. Append(pr, p.byte) \o (<<>> \o Names(k.queue)) = pr \o (<<k.byte>> \o Names(k.queue))
            <4>1. k.byte \in ByteType /\ k.queue \in Seq(QueueEntry)
                BY DEF KbdType
            <4>2. Names(k.queue) \in Seq(ByteType)
                BY <4>1, NamesType, Constants, SeqMonotonic
            <4>3. <<k.byte>> \in Seq(ByteType)
                BY <4>1, Singleton
            <4>4. <<>> \o Names(k.queue) = Names(k.queue)
                BY <4>2, ConcatEmptySeq
            <4>5. Append(pr, k.byte) = pr \o <<k.byte>>
                BY <4>1, AppendIsConcat
            <4>6. (pr \o <<k.byte>>) \o Names(k.queue) = pr \o (<<k.byte>> \o Names(k.queue))
                BY <4>2, <4>3, ConcatAssociative
            <4>. QED BY <3>7, <4>4, <4>5, <4>6
        <3>. QED BY <2>1, <3>4, <3>5, <3>6, <3>8, <3>9, <1>2 DEF InStep, Kept
    <2>6. ASSUME SampleDue(p), p.bit \in 0 .. DataBits,
                 Sampled(p, level).state = "receiving",
                 Sampled(p, level).age = p.age,
                 Sampled(p, level).bit = p.bit + 1,
                 \A i \in 1 .. DataBits : i <= p.bit => Sampled(p, level).byte[i] = k.byte[i]
          PROVE  InStep(k, p2) /\ Kept(k, p2, IF StopSampled(p, level) THEN Append(pr, p.byte) ELSE pr)
        <3>1. p2 = Sampled(p, level)
            BY <1>4, <2>6 DEF ObservePtr
        <3>2. ~StopSampled(p, level)
            BY <2>6, Constants DEF StopSampled
        <3>3. p2.age < Due(p2.bit)
            <4>1. Due(p.bit + 1) = Due(p.bit) + CyclesPerBit
                BY <1>1, DueFacts
            <4>. QED BY <4>1, <1>1, <1>4, <2>2, <2>6, <3>1, SlackFacts, Constants
        <3>4. Follows(k, p2)
            BY <1>4, <2>6, <3>1, Constants, SMTT(30) DEF Follows
        <3>5. Wire(k, p2) = <<k.byte>>
            BY <2>1, <2>6, <3>1 DEF Wire
        <3>. QED BY <2>1, <2>6, <3>1, <3>2, <3>3, <3>4, <3>5 DEF InStep, Kept
    <2>7. CASE SampleDue(p) /\ p.bit = 0
        <3>1. level = 0
            <4>1. p.age >= Due(p.bit)
                BY <2>3, <2>7
            <4>2. KbdBit(k) = IF p.bit = 0 THEN 0
                              ELSE IF p.bit > DataBits THEN 1 ELSE k.byte[p.bit]
                BY <1>4, <4>1, LevelHeard
            <4>. QED BY <2>7, <4>2
        <3>2. Sampled(p, level) = [p EXCEPT !.bit = 1]
            <4>1. p.bit = 0 /\ ~(p.bit \in 1 .. DataBits) /\ ~(p.bit > DataBits) /\ ~(level = 1)
                BY <2>7, <3>1, Constants
            <4>. QED BY <4>1, Zenon DEF Sampled
        <3>3. /\ Sampled(p, level).state = "receiving" /\ Sampled(p, level).age = p.age
              /\ Sampled(p, level).bit = p.bit + 1
            BY <1>4, <2>7, <3>2 DEF PtrType
        <3>. QED BY <2>6, <2>7, <3>3, Constants
    <2>8. CASE SampleDue(p) /\ p.bit \in 1 .. DataBits
        <3>1. ~(p.bit = 0) /\ ~(p.bit > DataBits)
            BY <2>8, Constants
        <3>2. level = k.byte[p.bit]
            BY <1>4, <2>3, <2>8, <3>1, LevelHeard
        <3>3. Sampled(p, level) = KeepBit(p, level)
            BY <2>8, <3>1 DEF Sampled
        <3>4. /\ KeepBit(p, level).state = "receiving" /\ KeepBit(p, level).age = p.age
              /\ KeepBit(p, level).bit = p.bit + 1
              /\ KeepBit(p, level).byte = [p.byte EXCEPT ![p.bit] = level]
            BY <1>4 DEF KeepBit, PtrType
        <3>5. \A i \in 1 .. DataBits : i <= p.bit => KeepBit(p, level).byte[i] = k.byte[i]
            <4>1. p.byte \in [1 .. DataBits -> Bit]
                BY DEF PtrType, ByteType
            <4>. QED BY <4>1, <1>4, <2>8, <3>2, <3>4, Constants, SMTT(30) DEF Follows
        <3>. QED BY <2>6, <2>8, <3>3, <3>4, <3>5, Constants
    <2>. QED BY <2>4, <2>5, <2>7, <2>8, <1>1, Constants
<1>. QED BY <1>3, <1>4 DEF InFlight

(***************************************************************************)
(* The invariant: types, and unless the program interfered with the gates  *)
(* while a byte was under way, the receiver in step with the line and      *)
(* nothing lost.                                                           *)
(***************************************************************************)
EchoInv == TypeOK /\ (~disturbed => InStep(kbd, ptr) /\ Kept(kbd, ptr, printed))

(* What a step does once the line is as KbdLevel left it (System.Step).    *)
LEMMA StepKeepsTypes ==
    ASSUME TypeOK, NEW k \in KbdType, NEW b0 \in Bit, NEW b5 \in Bit, NEW n \in StepCycles,
           StepWith(k, b0, b5, n)
    PROVE  TypeOK'
<1>1. n \in Nat
    BY TtyAssumption
<1>2. AgeKbd(k, n) \in KbdType /\ KbdLevel(AgeKbd(k, n)) \in KbdType
    BY <1>1, LineTypes
<1>3. kbd' \in KbdType
    BY <1>2 DEF StepWith
<1>4. AgePtr(ptr, n) \in PtrType
    BY <1>1, TypesOfLines DEF AgePtr, PtrType
<1>5. ASSUME NEW level \in Bit PROVE ObservePtr(AgePtr(ptr, n), level) \in PtrType
    BY <1>4, PrinterTypes
<1>6. ptr' \in PtrType
    <2>1. PICK level : /\ ptr' = ObservePtr(AgePtr(ptr, n), level)
                       /\ level = IF b0 = 0 THEN 0 ELSE IF b5 = 0 THEN KbdBit(kbd') ELSE 1
        BY DEF StepWith
    <2>2. level \in Bit
        BY <2>1, <1>3, LevelIsBit DEF Bit
    <2>. QED BY <2>1, <2>2, <1>5
<1>7. printed' \in Seq(ByteType)
    <2>1. AgePtr(ptr, n).byte \in ByteType
        BY <1>4 DEF PtrType
    <2>2. Append(printed, AgePtr(ptr, n).byte) \in Seq(ByteType)
        BY <2>1, TypesOfLines, AppendProperties
    <2>. QED BY <2>2, TypesOfLines DEF StepWith
<1>8. disturbed' \in BOOLEAN /\ pb0' \in Bit /\ pb5' \in Bit
    BY DEF StepWith
<1>9. typed' = typed /\ resets' = resets /\ ttySelect' = ttySelect
    BY DEF StepWith
<1>10. typed' \in Seq(Bytes) /\ resets' \in Nat /\ ttySelect' \in BOOLEAN
    BY <1>9, TypesOfLines
<1>. QED BY <1>3, <1>6, <1>7, <1>8, <1>10 DEF TypeOK, KbdType, PtrType, ByteType, QueueEntry

LEMMA StepKeepsEcho ==
    ASSUME Margin, TypeOK, NEW k \in KbdType,
           ~disturbed => InStep(k, ptr) /\ Kept(k, ptr, printed),
           NEW b0 \in Bit, NEW b5 \in Bit, NEW n \in StepCycles,
           StepWith(k, b0, b5, n)
    PROVE  EchoInv'
<1>. DEFINE aged == AgeKbd(k, n)
            line == IF b5 = 0 THEN KbdLevel(aged) ELSE aged
            level == IF b0 = 0 THEN 0 ELSE IF b5 = 0 THEN KbdBit(line) ELSE 1
            recv == AgePtr(ptr, n)
<1>1. TypeOK'
    BY StepKeepsTypes
<1>2. /\ kbd' = line
      /\ ptr' = ObservePtr(recv, level)
      /\ disturbed' = (disturbed \/ b0 = 0 \/ (b5 = 1 /\ aged.busy /\ aged.age < FrameCycles))
      /\ printed' = IF StopSampled(recv, level) /\ ~disturbed' THEN Append(printed, recv.byte) ELSE printed
      /\ typed' = typed
    BY DEF StepWith
<1>3. ASSUME ~disturbed'
      PROVE  InStep(kbd', ptr') /\ typed' = printed' \o (Wire(kbd', ptr') \o Names(kbd'.queue))
    <2>1. InStep(k, ptr) /\ Kept(k, ptr, printed)
        BY <1>2, <1>3
    <2>2. ptr \in PtrType /\ printed \in Seq(ByteType)
        BY TypesOfLines
    <2>3. /\ InFlight(aged, recv) /\ aged \in KbdType /\ recv \in PtrType
          /\ Wire(aged, recv) = Wire(k, ptr) /\ aged.queue = k.queue
        BY <2>1, <2>2, StepAges
    <2>4. Kept(aged, recv, printed)
        BY <2>1, <2>3 DEF Kept
    <2>5. line \in KbdType /\ InFlight(line, recv) /\ Kept(line, recv, printed)
        <3>1. KbdLevel(aged) \in KbdType
            BY <2>3, LevelCases, StartedType, LineTypes, TtyAssumption
        <3>2. InFlight(KbdLevel(aged), recv) /\ Kept(KbdLevel(aged), recv, printed)
            BY <2>3, <2>4, LevelKeeps DEF Kept
        <3>. QED BY <2>3, <2>4, <3>1, <3>2
    <2>6. level = KbdBit(line)
        <3>1. b0 = 1 /\ (b5 = 0 \/ b5 = 1)
            BY <1>2, <1>3 DEF Bit
        <3>2. CASE b5 = 0
            BY <3>1, <3>2
        <3>3. CASE b5 = 1
            <4>1. ~aged.busy \/ aged.age >= FrameCycles
                BY <1>2, <1>3, <3>3, <2>3, Constants DEF KbdType
            <4>2. aged.age >= FrameCycles => aged.age >= (DataBits + 1) * CyclesPerBit
                BY <2>3, Constants, Products DEF KbdType
            <4>3. KbdBit(aged) = 1
                BY <4>1, <4>2, <2>3, LevelHeard
            <4>. QED BY <3>1, <3>3, <4>3
        <3>. QED BY <3>1, <3>2, <3>3
    <2>. HIDE DEF aged, line, level, recv
    <2>7. /\ InStep(line, ObservePtr(recv, level))
          /\ Kept(line, ObservePtr(recv, level),
                  IF StopSampled(recv, level) THEN Append(printed, recv.byte) ELSE printed)
        BY <2>2, <2>3, <2>5, <2>6, SampleKeeps
    <2>8. printed' = IF StopSampled(recv, level) THEN Append(printed, recv.byte) ELSE printed
        BY <1>2, <1>3
    <2>. QED BY <1>2, <2>7, <2>8 DEF Kept
<1>. QED BY <1>1, <1>3 DEF EchoInv, Kept

(* Every action keeps the types.                                           *)
LEMMA TypesKeep ==
    ASSUME TypeOK, [Next]_ttyVars
    PROVE  TypeOK'
<1>1. /\ kbd \in KbdType /\ ptr \in PtrType /\ pb0 \in Bit /\ pb5 \in Bit
      /\ kbd.queue \in Seq(QueueEntry) /\ typed \in Seq(Bytes)
    BY TypesOfLines DEF KbdType
<1>2. ASSUME NEW n \in StepCycles, StepPollsA(n) PROVE TypeOK'
    <2>1. CPUPolled(kbd) \in KbdType
        BY <1>1, LineTypes, TtyAssumption
    <2>2. KbdLevel(CPUPolled(kbd)) \in KbdType
        BY <2>1, LineTypes, TtyAssumption
    <2>. DEFINE k == IF pb5 = 0 THEN KbdLevel(CPUPolled(kbd)) ELSE kbd
    <2>3. k \in KbdType /\ StepWith(k, pb0, pb5, n)
        BY <1>1, <1>2, <2>2 DEF StepPollsA
    <2>. HIDE DEF k
    <2>. QED BY <1>1, <2>3, StepKeepsTypes
<1>3. ASSUME NEW n \in StepCycles, NEW b0 \in Bit, NEW b5 \in Bit, StepWith(kbd, b0, b5, n)
      PROVE  TypeOK'
    BY <1>1, <1>3, StepKeepsTypes
<1>4. ASSUME NEW line \in KbdType, Refresh(line) PROVE TypeOK'
    <2>1. kbd' \in KbdType
        BY <1>4, LineTypes, TtyAssumption DEF Refresh
    <2>. QED BY <1>1, <1>4, <2>1 DEF Refresh, TypeOK, KbdType, QueueEntry, ByteType
<1>5. ASSUME NEW b \in Bytes, NEW paced \in BOOLEAN, Enqueue(b, paced) PROVE TypeOK'
    <2>. DEFINE entry == Entries(<<b>>, paced)
                q == kbd.queue \o entry
    <2>1. entry \in Seq(QueueEntry)
        BY OneEntry
    <2>. HIDE DEF entry
    <2>2. q \in Seq(QueueEntry)
        BY <1>1, <2>1, ConcatProperties, Zenon
    <2>3. kbd' = [kbd EXCEPT !.queue = q]
        BY <1>5 DEF Enqueue, entry
    <2>. HIDE DEF q
    <2>4. kbd' \in KbdType
        BY <1>1, <2>2, <2>3 DEF KbdType
    <2>5. typed' \in Seq(Bytes)
        BY <1>1, <1>5, AppendProperties DEF Enqueue
    <2>. QED BY <1>5, <2>4, <2>5 DEF Enqueue, TypeOK, KbdType, QueueEntry, ByteType
<1>6. ASSUME Reset PROVE TypeOK'
    <2>1. PICK first : /\ first = IF ttySelect THEN <<Rubout>> ELSE <<>>
                       /\ kbd' = [kbd EXCEPT !.busy = FALSE, !.queue = Entries(first, TRUE)]
                       /\ typed' = first
        BY <1>6 DEF Reset
    <2>2. first \in Seq(Bytes) /\ Entries(first, TRUE) \in Seq(QueueEntry)
        <3>1. CASE first = <<Rubout>>
            BY <3>1, OneEntry, Singleton, TtyAssumption
        <3>2. CASE first = <<>>
            BY <3>2, NoEntries, EmptySeq
        <3>. QED BY <2>1, <3>1, <3>2
    <2>3. kbd' \in KbdType
        BY <1>1, <2>1, <2>2 DEF KbdType
    <2>4. ptr' \in PtrType
        BY <1>6, Constants DEF Reset, IdlePtr, PtrType
    <2>5. /\ pb0' \in Bit /\ pb5' \in Bit /\ ttySelect' \in BOOLEAN /\ disturbed' \in BOOLEAN
          /\ resets' \in Nat
        BY <1>6, TypesOfLines DEF Reset
    <2>6. typed' \in Seq(Bytes) /\ printed' \in Seq(ByteType)
        BY <1>6, <2>1, <2>2, EmptySeq DEF Reset
    <2>. QED BY <2>3, <2>4, <2>5, <2>6 DEF TypeOK, KbdType, PtrType, ByteType, QueueEntry
<1>7. ASSUME NEW on \in BOOLEAN, SetTTYSelect(on) PROVE TypeOK'
    BY <1>7 DEF SetTTYSelect, TypeOK
<1>8. CASE UNCHANGED ttyVars
    BY <1>8 DEF ttyVars, TypeOK
<1>9. CPUPolled(kbd) \in KbdType
    BY <1>1, LineTypes, TtyAssumption
<1>. QED BY <1>1, <1>2, <1>3, <1>4, <1>5, <1>6, <1>7, <1>8, <1>9
         DEF Next, CPU, Poll, StepWritesB, StepElsewhere, Refreshes, BroadcastReadsA,
             BroadcastShowsA, Terminal, Type, Send

LEMMA TypesStart == Init => TypeOK
<1>. SUFFICES ASSUME Init PROVE TypeOK
    OBVIOUS
<1>1. kbd \in KbdType
    BY Constants, EmptySeq DEF Init, InitWith, IdleKbd, KbdType
<1>2. ptr \in PtrType
    BY Constants DEF Init, InitWith, IdlePtr, PtrType
<1>3. typed \in Seq(Bytes) /\ printed \in Seq(ByteType)
    BY EmptySeq DEF Init, InitWith
<1>. QED BY <1>1, <1>2, <1>3, TypesOfLines DEF Init, InitWith, Bit

(* An instruction that reads Port A, or leaves both gates alone, or writes *)
(* to Port B.                                                              *)
LEMMA InstructionKeeps ==
    ASSUME Margin, EchoInv, CPU
    PROVE  EchoInv'
<1>1. TypeOK /\ kbd \in KbdType /\ ptr \in PtrType /\ pb0 \in Bit /\ pb5 \in Bit
    BY TypesOfLines DEF EchoInv
<1>2. ~disturbed => InStep(kbd, ptr) /\ Kept(kbd, ptr, printed)
    BY DEF EchoInv
<1>3. ASSUME NEW n \in StepCycles, StepPollsA(n)
      PROVE  EchoInv'
    <2>. DEFINE polled == CPUPolled(kbd)
                k == IF pb5 = 0 THEN KbdLevel(polled) ELSE kbd
    <2>1. polled \in KbdType /\ KbdLevel(polled) \in KbdType
        BY <1>1, LineTypes, TtyAssumption
    <2>2. ASSUME ~disturbed
          PROVE  InStep(KbdLevel(polled), ptr) /\ Kept(KbdLevel(polled), ptr, printed)
        <3>1. InFlight(kbd, ptr)
            BY <1>1, <1>2, <2>2, InStepInFlight
        <3>2. InStep(polled, ptr) /\ InFlight(polled, ptr) /\ Kept(polled, ptr, printed)
            BY <1>1, <1>2, <2>2, <3>1, PollKeeps DEF Kept
        <3>. HIDE DEF polled
        <3>. QED BY <1>1, <2>1, <3>2, LevelKeeps DEF Kept
    <2>3. StepWith(k, pb0, pb5, n)
        BY <1>3 DEF StepPollsA
    <2>4. k \in KbdType /\ (~disturbed => InStep(k, ptr) /\ Kept(k, ptr, printed))
        BY <1>1, <1>2, <2>1, <2>2
    <2>. HIDE DEF k
    <2>. QED BY <1>1, <2>3, <2>4, StepKeepsEcho
<1>4. ASSUME NEW n \in StepCycles, NEW b0 \in Bit, NEW b5 \in Bit, StepWith(kbd, b0, b5, n)
      PROVE  EchoInv'
    BY <1>1, <1>2, <1>4, StepKeepsEcho
<1>. QED BY <1>1, <1>3, <1>4 DEF CPU, Poll, StepWritesB, StepElsewhere

(* A refresh of the browsers reads the line between two steps, perhaps     *)
(* behind what it takes for a poll.                                        *)
LEMMA RefreshKeeps ==
    ASSUME Margin, EchoInv, Refreshes
    PROVE  EchoInv'
<1>1. TypeOK /\ kbd \in KbdType /\ ptr \in PtrType
    BY TypesOfLines DEF EchoInv
<1>2. ASSUME NEW line \in KbdType, Refresh(line),
             ~disturbed => InStep(line, ptr) /\ Kept(line, ptr, printed)
      PROVE  EchoInv'
    <2>1. /\ kbd' = KbdLevel(line) /\ typed' = typed /\ ptr' = ptr /\ printed' = printed
          /\ disturbed' = disturbed /\ pb0' = pb0 /\ pb5' = pb5 /\ ttySelect' = ttySelect
          /\ resets' = resets
        BY <1>2 DEF Refresh
    <2>2. TypeOK'
        BY <1>1, TypesKeep DEF Next
    <2>3. ASSUME ~disturbed
          PROVE  InStep(KbdLevel(line), ptr) /\ Kept(KbdLevel(line), ptr, printed)
        <3>1. InFlight(line, ptr)
            BY <1>1, <1>2, <2>3, InStepInFlight
        <3>. QED BY <1>1, <1>2, <2>3, <3>1, LevelKeeps DEF Kept
    <2>4. ~disturbed' => /\ InStep(kbd', ptr')
                         /\ typed' = printed' \o (Wire(kbd', ptr') \o Names(kbd'.queue))
        BY <2>1, <2>3 DEF Kept
    <2>. QED BY <2>2, <2>4 DEF EchoInv, Kept
<1>3. ASSUME BroadcastReadsA PROVE EchoInv'
    BY <1>1, <1>2, <1>3 DEF BroadcastReadsA, EchoInv
<1>4. ASSUME BroadcastShowsA PROVE EchoInv'
    <2>. DEFINE polled == CPUPolled(kbd)
    <2>1. polled \in KbdType /\ Refresh(polled)
        BY <1>1, <1>4, LineTypes, TtyAssumption DEF BroadcastShowsA
    <2>2. ASSUME ~disturbed PROVE InStep(polled, ptr) /\ Kept(polled, ptr, printed)
        <3>1. InStep(kbd, ptr) /\ Kept(kbd, ptr, printed)
            BY <2>2 DEF EchoInv
        <3>2. InFlight(kbd, ptr)
            BY <1>1, <3>1, InStepInFlight
        <3>. QED BY <1>1, <3>1, <3>2, PollKeeps DEF Kept
    <2>. HIDE DEF polled
    <2>. QED BY <1>2, <2>1, <2>2
<1>. QED BY <1>3, <1>4 DEF Refreshes

(* A byte that is typed or pasted joins the queue's end.                   *)
LEMMA EnqueueKeeps ==
    ASSUME EchoInv, NEW b \in Bytes, NEW paced \in BOOLEAN, Enqueue(b, paced)
    PROVE  EchoInv'
<1>1. /\ kbd \in KbdType /\ ptr \in PtrType /\ typed \in Seq(Bytes) /\ printed \in Seq(ByteType)
      /\ kbd.queue \in Seq(QueueEntry)
    BY TypesOfLines DEF EchoInv, KbdType
<1>. DEFINE e == [b |-> b, paced |-> paced]
            q == kbd.queue \o <<e>>
<1>2. Entries(<<b>>, paced) = <<e>> /\ <<e>> \in Seq(QueueEntry)
    BY OneEntry
<1>3. /\ kbd' = [kbd EXCEPT !.queue = q] /\ typed' = Append(typed, b)
      /\ ptr' = ptr /\ printed' = printed /\ disturbed' = disturbed
      /\ pb0' = pb0 /\ pb5' = pb5 /\ ttySelect' = ttySelect /\ resets' = resets
    BY <1>2 DEF Enqueue
<1>6. TypeOK'
    BY TypesKeep DEF EchoInv, Next, Terminal, Type, Send
<1>7. ASSUME ~disturbed
      PROVE  InStep(kbd', ptr) /\ typed' = printed \o (Wire(kbd', ptr) \o Names(kbd'.queue))
    <2>1. InStep(kbd, ptr) /\ Kept(kbd, ptr, printed)
        BY <1>7 DEF EchoInv
    <2>2. kbd'.busy = kbd.busy /\ kbd'.age = kbd.age /\ kbd'.byte = kbd.byte /\ kbd'.queue = q
        BY <1>1, <1>3 DEF KbdType
    <2>3. InStep(kbd', ptr) /\ Wire(kbd', ptr) = Wire(kbd, ptr)
        BY <2>1, <2>2 DEF InStep, Follows, Wire
    <2>4. Names(q) = Names(kbd.queue) \o <<b>>
        BY <1>1, NamesAppend
    <2>. DEFINE w == Wire(kbd, ptr)
                r == Names(kbd.queue)
    <2>5. w \in Seq(ByteType) /\ r \in Seq(ByteType) /\ <<b>> \in Seq(ByteType) /\ b \in ByteType
        BY <1>1, WireType, NamesType, SeqMonotonic, Singleton, Constants
    <2>6. typed \in Seq(ByteType)
        BY <1>1, SeqMonotonic, Constants
    <2>7. Append(typed, b) = typed \o <<b>>
        BY <2>5, <2>6, AppendIsConcat
    <2>8. typed = printed \o (w \o r)
        BY <2>1 DEF Kept
    <2>. DEFINE last == <<b>>
    <2>9. last \in Seq(ByteType)
        BY <2>5
    <2>. HIDE DEF w, r, last
    <2>10. w \o r \in Seq(ByteType)
        BY <2>5, ConcatProperties, Zenon
    <2>11. (printed \o (w \o r)) \o last = printed \o ((w \o r) \o last)
        <3>. DEFINE wr == w \o r
        <3>1. wr \in Seq(ByteType) /\ printed \in Seq(ByteType)
            BY <1>1, <2>10
        <3>. HIDE DEF wr
        <3>2. (printed \o wr) \o last = printed \o (wr \o last)
            BY <2>9, <3>1, ConcatAssociative
        <3>. QED BY <3>2 DEF wr
    <2>12. (w \o r) \o last = w \o (r \o last)
        BY <2>5, <2>9, ConcatAssociative
    <2>13. typed' = printed \o (w \o (r \o last))
        BY <1>3, <2>7, <2>8, <2>11, <2>12 DEF last
    <2>. QED BY <2>2, <2>3, <2>4, <2>13 DEF w, r, last
<1>8. ~disturbed' => InStep(kbd', ptr') /\ typed' = printed' \o (Wire(kbd', ptr') \o Names(kbd'.queue))
    BY <1>3, <1>7
<1>. QED BY <1>6, <1>8 DEF EchoInv, Kept

(* System.Reset clears the line, or leaves the RUBOUT alone on it.         *)
LEMMA ResetKeeps ==
    ASSUME EchoInv, Reset
    PROVE  EchoInv'
<1>1. Rubout \in Bytes
    BY TtyAssumption
<1>2. PICK first : /\ first = IF ttySelect THEN <<Rubout>> ELSE <<>>
                   /\ kbd' = [kbd EXCEPT !.busy = FALSE, !.queue = Entries(first, TRUE)]
                   /\ typed' = first
    BY DEF Reset
<1>3. ptr' = IdlePtr /\ printed' = <<>>
    BY DEF Reset
<1>4. /\ first \in Seq(Bytes)
      /\ Names(Entries(first, TRUE)) = first
    <2>1. CASE first = <<Rubout>>
        <3>1. Entries(first, TRUE) = <<[b |-> Rubout, paced |-> TRUE]>>
            BY <1>1, <2>1, OneEntry
        <3>2. Names(<<[b |-> Rubout, paced |-> TRUE]>>) = <<Rubout>>
            BY NamesOne
        <3>. QED BY <1>1, <2>1, <3>1, <3>2, Singleton
    <2>2. CASE first = <<>>
        <3>1. Entries(first, TRUE) = <<>>
            BY <2>2, NoEntries
        <3>2. Names(<<>>) = <<>>
            BY DEF Names
        <3>. QED BY <2>2, <3>1, <3>2, EmptySeq
    <2>. QED BY <1>2, <2>1, <2>2
<1>5. kbd'.busy = FALSE /\ kbd'.queue = Entries(first, TRUE)
    BY <1>2, TypesOfLines DEF EchoInv, KbdType
<1>7. TypeOK'
    BY TypesKeep DEF EchoInv, Next, Terminal
<1>8. InStep(kbd', ptr') /\ Wire(kbd', ptr') = <<>>
    BY <1>3, <1>5 DEF InStep, Wire, IdlePtr
<1>9. typed' = printed' \o (Wire(kbd', ptr') \o Names(kbd'.queue))
    BY <1>2, <1>3, <1>4, <1>5, <1>8, ConcatEmptySeq, ZenonT(30)
<1>. QED BY <1>7, <1>8, <1>9 DEF EchoInv, Kept

LEMMA EchoStep ==
    ASSUME Margin, EchoInv, [Next]_ttyVars
    PROVE  EchoInv'
<1>1. ASSUME NEW on \in BOOLEAN, SetTTYSelect(on) PROVE EchoInv'
    <2>1. TypeOK'
        BY <1>1, TypesKeep DEF EchoInv, Next, Terminal
    <2>. QED BY <1>1, <2>1 DEF SetTTYSelect, EchoInv, Kept
<1>2. CASE UNCHANGED ttyVars
    <2>1. TypeOK'
        BY <1>2, TypesKeep DEF EchoInv
    <2>. QED BY <1>2, <2>1 DEF ttyVars, EchoInv, Kept
<1>. QED BY <1>1, <1>2, InstructionKeeps, RefreshKeeps, EnqueueKeeps, ResetKeeps
         DEF Next, Terminal, Type, Send

LEMMA EchoStarts == Init => EchoInv
<1>. SUFFICES ASSUME Init PROVE EchoInv
    OBVIOUS
<1>1. TypeOK
    BY TypesStart
<1>2. /\ typed = <<>> /\ printed = <<>> /\ kbd.queue = <<>> /\ kbd.busy = FALSE /\ ptr.state = "idle"
    BY DEF Init, InitWith, IdleKbd, IdlePtr
<1>3. Names(<<>>) = <<>>
    BY DEF Names
<1>4. InStep(kbd, ptr) /\ Wire(kbd, ptr) = <<>>
    BY <1>2 DEF InStep, Wire
<1>. QED BY <1>1, <1>2, <1>3, <1>4, ConcatEmptySeq DEF EchoInv, Kept

LEMMA EchoFollows == EchoInv => Echo
<1>. SUFFICES ASSUME EchoInv, ~disturbed
              PROVE  typed = printed \o OnTheWire \o Queued /\ ptr.state # "waitMark"
    BY DEF Echo
<1>1. kbd \in KbdType /\ kbd.queue \in Seq(QueueEntry) /\ printed \in Seq(ByteType)
    BY TypesOfLines DEF EchoInv, KbdType
<1>2. OnTheWire = Wire(kbd, ptr) /\ Queued = Names(kbd.queue)
    BY DEF OnTheWire, Wire, Queued, Names
<1>. DEFINE w == Wire(kbd, ptr)
            r == Names(kbd.queue)
<1>3. w \in Seq(ByteType) /\ r \in Seq(ByteType)
    BY <1>1, WireType, NamesType, SeqMonotonic, Constants
<1>4. typed = printed \o (w \o r) /\ ptr.state # "waitMark"
    BY DEF EchoInv, Kept, InStep
<1>. HIDE DEF w, r
<1>5. (printed \o w) \o r = printed \o (w \o r)
    BY <1>1, <1>3, ConcatAssociative, SMTT(30)
<1>. QED BY <1>2, <1>4, <1>5 DEF w, r

(***************************************************************************)
(* The theorems.                                                           *)
(***************************************************************************)

(* The two lines keep their types (tty.go's TTY, system.go's pins), also   *)
(* where the receiver has no margin.                                       *)
THEOREM TypesHold == Spec => []TypeOK
<1>. QED BY TypesStart, TypesKeep, PTL DEF Spec

(* The echo of system.go and tty.go loses, damages, reorders or invents no *)
(* byte as long as a bit is half as long again as the two steps by which   *)
(* the receiver may be late together.                                      *)
THEOREM EchoHolds ==
    ASSUME Margin
    PROVE  Spec => []Echo
<1>1. Init => EchoInv
    BY EchoStarts
<1>2. EchoInv /\ [Next]_ttyVars => EchoInv'
    BY EchoStep
<1>3. EchoInv => Echo
    BY EchoFollows
<1>. QED BY <1>1, <1>2, <1>3, PTL DEF Spec

(* KbdLevel and CPUPolled start a byte only once the frame of the last has *)
(* passed.                                                                 *)
LEMMA Uncut ==
    ASSUME NEW k \in KbdType, NEW n \in Nat, NEW line,
           line = AgeKbd(k, n) \/ line = KbdLevel(AgeKbd(k, n)),
           k.busy, line.busy, line.age < k.age
    PROVE  k.age + n >= FrameCycles
<1>1. /\ AgeKbd(k, n) \in KbdType /\ AgeKbd(k, n).busy
      /\ AgeKbd(k, n).age = IF k.age + n < FrameCycles THEN k.age + n ELSE FrameCycles
    BY LineTypes DEF AgeKbd, KbdType
<1>2. k.age \in 0 .. FrameCycles /\ FrameCycles \in Nat
    BY Constants DEF KbdType
<1>. SUFFICES ASSUME k.age + n < FrameCycles PROVE FALSE
    BY <1>2
<1>3. KbdLevel(AgeKbd(k, n)) = AgeKbd(k, n)
    BY <1>1, <1>2, LevelCases
<1>. QED BY <1>1, <1>2, <1>3

(* A byte on the keyboard's line is never cut short by another (kbdBitAt,  *)
(* CPUPolled and KbdLevel in tty.go), whatever the bit period.             *)
THEOREM WholeFramesHolds == Spec => WholeFrames
<1>1. ASSUME TypeOK, [Next]_ttyVars, kbd.busy, kbd'.busy, kbd'.age < kbd.age
      PROVE  \E n \in StepCycles : kbd.age + n >= FrameCycles
    <2>1. kbd \in KbdType /\ kbd.age \in Nat /\ kbd.age <= FrameCycles
        BY <1>1, TypesOfLines, Constants DEF KbdType
    <2>2. ASSUME kbd.age >= FrameCycles
          PROVE  \E n \in StepCycles : kbd.age + n >= FrameCycles
        <3>1. PICK n \in StepCycles : n \in Nat
            BY TtyAssumption
        <3>. QED BY <2>1, <2>2, <3>1, Constants
    <2>3. ASSUME ~(kbd.age >= FrameCycles)
          PROVE  /\ kbd.age < FrameCycles
                 /\ KbdLevel(kbd) = kbd
                 /\ CPUPolled(kbd) = kbd
        <3>1. kbd.age < FrameCycles
            BY <2>1, <2>3, Constants
        <3>. QED BY <1>1, <2>1, <3>1, LevelCases, PolledCases, Constants
    <2>4. ASSUME NEW n \in StepCycles, NEW b0, NEW b5, StepWith(kbd, b0, b5, n)
          PROVE  \E m \in StepCycles : kbd.age + m >= FrameCycles
        <3>1. kbd' = AgeKbd(kbd, n) \/ kbd' = KbdLevel(AgeKbd(kbd, n))
            BY <2>4 DEF StepWith
        <3>2. n \in Nat
            BY TtyAssumption
        <3>3. kbd.age + n >= FrameCycles
            BY <1>1, <2>1, <3>1, <3>2, Uncut
        <3>. QED BY <3>3
    <2>5. ASSUME NEW n \in StepCycles, StepPollsA(n), ~(kbd.age >= FrameCycles)
          PROVE  \E m \in StepCycles : kbd.age + m >= FrameCycles
        <3>1. StepWith(kbd, pb0, pb5, n)
            BY <2>3, <2>5 DEF StepPollsA
        <3>. QED BY <2>4, <3>1
    <2>6. ASSUME Refreshes, ~(kbd.age >= FrameCycles) PROVE FALSE
        BY <1>1, <2>1, <2>3, <2>6 DEF Refreshes, Refresh, BroadcastReadsA, BroadcastShowsA
    <2>7. ASSUME NEW b, NEW paced, Enqueue(b, paced) PROVE FALSE
        BY <1>1, <2>1, <2>7 DEF Enqueue, KbdType
    <2>8. ASSUME Reset PROVE FALSE
        BY <1>1, <2>1, <2>8 DEF Reset, KbdType
    <2>9. ASSUME kbd' = kbd PROVE FALSE
        BY <1>1, <2>1, <2>9
    <2>. QED BY <1>1, <2>2, <2>4, <2>5, <2>6, <2>7, <2>8, <2>9
             DEF Next, CPU, Poll, StepWritesB, StepElsewhere, Terminal, Type, Send,
                 SetTTYSelect, ttyVars
<1>2. TypeOK /\ [Next]_ttyVars =>
         [kbd.busy /\ kbd'.busy /\ kbd'.age < kbd.age
             => \E n \in StepCycles : kbd.age + n >= FrameCycles]_ttyVars
    BY <1>1
<1>. QED BY <1>2, TypesHold, PTL DEF Spec, WholeFrames

(* A queue is neither its own tail nor one byte longer than it.            *)
LEMMA NotItsTail ==
    ASSUME NEW q \in Seq(QueueEntry), q # <<>>, NEW e \in QueueEntry
    PROVE  q # Tail(q) /\ q \o <<e>> # Tail(q)
<1>. DEFINE t == <<e>>
            longer == q \o t
            rest == Tail(q)
<1>1. Len(rest) = Len(q) - 1 /\ Len(q) \in Nat
    BY HeadTailProperties, LenProperties
<1>2. t \in Seq(QueueEntry) /\ Len(t) = 1
    BY Singleton
<1>. HIDE DEF t, rest
<1>3. Len(longer) = Len(q) + Len(t)
    BY <1>2, ConcatProperties, Zenon
<1>. HIDE DEF longer
<1>4. Len(q) # Len(rest) /\ Len(longer) # Len(rest)
    BY <1>1, <1>2, <1>3
<1>5. q # rest /\ longer # rest
    BY <1>4, Zenon
<1>. QED BY <1>5 DEF longer, t, rest

(* A pasted byte waits for System.Read to read Port A with the input open  *)
(* (CPUPolled in tty.go, Read and pinsA in system.go), as an instruction   *)
(* does or the disassembly of what the display shows (broadcastState in    *)
(* server.go): nothing else frees it.                                      *)
THEOREM PacedNeedsReadHolds == Spec => PacedNeedsRead
<1>1. ASSUME TypeOK, [Next]_ttyVars,
             kbd.queue # <<>>, Head(kbd.queue).paced, kbd'.queue = Tail(kbd.queue)
      PROVE  ((Poll \/ BroadcastShowsA) /\ pb5 = 0) \/ Reset
    <2>1. kbd \in KbdType /\ kbd.queue \in Seq(QueueEntry)
        BY <1>1, TypesOfLines DEF KbdType
    <2>2. kbd.queue # Tail(kbd.queue)
        <3>1. Head(kbd.queue) \in QueueEntry
            BY <1>1, <2>1, HeadTailProperties
        <3>. QED BY <1>1, <2>1, <3>1, NotItsTail
    <2>3. ASSUME NEW k \in KbdType, k.queue = kbd.queue
          PROVE  KbdLevel(k).queue = kbd.queue
        BY <1>1, <2>3, LevelCases DEF KbdType
    <2>4. ASSUME NEW n \in StepCycles, NEW b0, NEW b5, StepWith(kbd, b0, b5, n)
          PROVE  FALSE
        <3>1. AgeKbd(kbd, n) \in KbdType /\ AgeKbd(kbd, n).queue = kbd.queue
            BY <2>1, LineTypes, TtyAssumption DEF AgeKbd, KbdType
        <3>2. kbd'.queue = kbd.queue
            BY <2>3, <2>4, <3>1 DEF StepWith
        <3>. QED BY <1>1, <2>2, <3>2
    <2>5. ASSUME NEW n \in StepCycles, StepPollsA(n), pb5 # 0
          PROVE  FALSE
        <3>1. StepWith(kbd, pb0, pb5, n)
            BY <2>5 DEF StepPollsA
        <3>. QED BY <2>4, <3>1
    <2>6. ASSUME BroadcastReadsA PROVE FALSE
        BY <1>1, <2>1, <2>2, <2>3, <2>6 DEF BroadcastReadsA, Refresh
    <2>9. ASSUME BroadcastShowsA PROVE pb5 = 0
        BY <2>9 DEF BroadcastShowsA, Refresh
    <2>7. ASSUME NEW b \in Bytes, NEW paced \in BOOLEAN, Enqueue(b, paced) PROVE FALSE
        <3>. DEFINE e == [b |-> b, paced |-> paced]
        <3>1. e \in QueueEntry
            BY DEF QueueEntry
        <3>2. Entries(<<b>>, paced) = <<e>>
            BY OneEntry
        <3>. HIDE DEF e
        <3>3. kbd'.queue = kbd.queue \o <<e>>
            BY <2>1, <2>7, <3>2 DEF Enqueue, KbdType
        <3>4. kbd.queue \o <<e>> # Tail(kbd.queue)
            BY <1>1, <2>1, <3>1, NotItsTail
        <3>. QED BY <1>1, <3>3, <3>4
    <2>8. ASSUME kbd' = kbd PROVE FALSE
        BY <1>1, <2>2, <2>8
    <2>. QED BY <1>1, <2>4, <2>5, <2>6, <2>7, <2>8, <2>9
             DEF Next, CPU, Poll, Refreshes, StepWritesB, StepElsewhere, Terminal, Type, Send,
                 SetTTYSelect, ttyVars
<1>2. TypeOK /\ [Next]_ttyVars =>
         [/\ kbd.queue # <<>>
          /\ Head(kbd.queue).paced
          /\ kbd'.queue = Tail(kbd.queue)
          => ((Poll \/ BroadcastShowsA) /\ pb5 = 0) \/ Reset]_ttyVars
    BY <1>1
<1>. QED BY <1>2, TypesHold, PTL DEF Spec, PacedNeedsRead
=============================================================================
