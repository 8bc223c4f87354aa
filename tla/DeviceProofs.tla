---------------------------- MODULE DeviceProofs ----------------------------
(***************************************************************************)
(* Proofs about the devices behind the RIOTs' I/O windows.  The SPI        *)
(* wiring: for bytes of any width, any answers of the card and any number  *)
(* of transfers, wherever the program that drives it is stopped.  The      *)
(* timer: for any count, dividers and step lengths, whatever is written    *)
(* and read when.  The display: for any segments, digits, patterns and     *)
(* staleness, wherever GO and RS cut a scan short.  The keypad: for any    *)
(* browsers and keys, with connections that close at any moment.           *)
(***************************************************************************)
EXTENDS MCDevices, CommonProofs, FiniteSetTheorems, SequenceTheorems, TLAPS

(***************************************************************************)
(* The SPI wiring: spi.go implements the exchange of whole bytes of        *)
(* ByteBus.                                                                *)
(***************************************************************************)
SpiType == [cs : BOOLEAN, sck : BOOLEAN, in : Seq(BOOLEAN), out : Byte, miso : BOOLEAN]
PortType == [data : SUBSET Driven, ddr : {{}, Driven}]
Exchanged == [took : Byte, drove : Byte]

LEMMA ByteIsSeq ==
    ASSUME NEW b \in Byte
    PROVE  b \in Seq(BOOLEAN) /\ Len(b) = Width
<1>1. Width \in Nat /\ b \in [1 .. Width -> BOOLEAN]
    BY SpiAssumption DEF Byte
<1>. QED BY <1>1

LEMMA SeqIsByte ==
    ASSUME NEW b \in Seq(BOOLEAN), Len(b) = Width
    PROVE  b \in Byte
    BY LenProperties DEF Byte

LEMMA Pushed ==
    ASSUME NEW S, NEW s \in Seq(S), NEW x \in S
    PROVE  /\ Append(s, x) \in Seq(S)
           /\ Len(Append(s, x)) = Len(s) + 1
           /\ Len(s) \in Nat
           /\ \A i \in 1 .. Len(s) : Append(s, x)[i] = s[i]
           /\ Append(s, x)[Len(s) + 1] = x
    BY AppendProperties, LenProperties

(***************************************************************************)
(* clockSPI, field by field.                                               *)
(***************************************************************************)
LEMMA Aligning ==
    ASSUME NEW s \in SpiType, NEW port
    PROVE  /\ AlignedBy(s, port) \in SpiType
           /\ AlignedBy(s, port).cs = PinLevel(port, CS)
           /\ AlignedBy(s, port).in = IF PinLevel(port, CS) = s.cs THEN s.in ELSE <<>>
           /\ AlignedBy(s, port).out = s.out
           /\ AlignedBy(s, port).miso = s.miso
<1>1. PinLevel(port, CS) \in BOOLEAN
    BY DEF PinLevel
<1>2. <<>> \in Seq(BOOLEAN)
    BY EmptySeq
<1>3. CASE PinLevel(port, CS) = s.cs
    BY <1>3, Zenon DEF AlignedBy
<1>4. CASE PinLevel(port, CS) # s.cs
    BY <1>1, <1>2, <1>4 DEF AlignedBy, SpiType
<1>. QED BY <1>3, <1>4

LEMMA Collecting ==
    ASSUME NEW s \in SpiType, NEW port
    PROVE  /\ Collected(s, port) \in Seq(BOOLEAN)
           /\ PinLevel(port, CS) = s.cs =>
                 /\ Len(Collected(s, port)) = Len(s.in) + 1
                 /\ \A i \in 1 .. Len(s.in) : Collected(s, port)[i] = s.in[i]
                 /\ Collected(s, port)[Len(s.in) + 1] = PinLevel(port, MOSI)
<1>1. PinLevel(port, MOSI) \in BOOLEAN
    BY DEF PinLevel
<1>2. AlignedBy(s, port).in \in Seq(BOOLEAN)
    BY Aligning DEF SpiType
<1>3. Collected(s, port) = Append(AlignedBy(s, port).in, PinLevel(port, MOSI))
    BY DEF Collected
<1>. DEFINE t == AlignedBy(s, port).in
<1>. HIDE DEF t
<1>4. /\ Append(t, PinLevel(port, MOSI)) \in Seq(BOOLEAN)
      /\ Len(Append(t, PinLevel(port, MOSI))) = Len(t) + 1
      /\ \A i \in 1 .. Len(t) : Append(t, PinLevel(port, MOSI))[i] = t[i]
      /\ Append(t, PinLevel(port, MOSI))[Len(t) + 1] = PinLevel(port, MOSI)
    BY <1>1, <1>2, Pushed DEF t
<1>5. PinLevel(port, CS) = s.cs => t = s.in
    BY Aligning DEF t
<1>6. Collected(s, port) = Append(t, PinLevel(port, MOSI))
    BY <1>3 DEF t
<1>. QED BY <1>4, <1>5, <1>6

(* Where SCK does not rise with CS low only CS and SCK are noted.          *)
LEMMA NoClock ==
    ASSUME NEW s \in SpiType, NEW port, NEW answer, ~Clocks(s, port)
    PROVE  /\ ClockSPI(s, port, answer) \in SpiType
           /\ ClockSPI(s, port, answer).cs = PinLevel(port, CS)
           /\ ClockSPI(s, port, answer).sck = PinLevel(port, SCK)
           /\ ClockSPI(s, port, answer).in = IF PinLevel(port, CS) = s.cs THEN s.in ELSE <<>>
           /\ ClockSPI(s, port, answer).out = s.out
           /\ ClockSPI(s, port, answer).miso = s.miso
<1>. DEFINE a == AlignedBy(s, port)
<1>1. PinLevel(port, SCK) \in BOOLEAN
    BY DEF PinLevel
<1>2. ClockSPI(s, port, answer) = [a EXCEPT !.sck = PinLevel(port, SCK)]
    BY DEF ClockSPI
<1>3. /\ a \in SpiType /\ a.cs = PinLevel(port, CS) /\ a.out = s.out /\ a.miso = s.miso
      /\ a.in = IF PinLevel(port, CS) = s.cs THEN s.in ELSE <<>>
    BY Aligning
<1>. HIDE DEF a
<1>. QED BY <1>1, <1>2, <1>3 DEF SpiType

(* A rising edge takes a bit and gives one; the last of a byte takes the   *)
(* card's answer.                                                          *)
LEMMA Clock ==
    ASSUME NEW s \in SpiType, NEW port, NEW answer \in Byte,
           Clocks(s, port), s.cs = PinLevel(port, CS), Len(s.in) < Width
    PROVE  /\ ClockSPI(s, port, answer) \in SpiType
           /\ ClockSPI(s, port, answer).cs = PinLevel(port, CS)
           /\ ClockSPI(s, port, answer).sck = PinLevel(port, SCK)
           /\ ClockSPI(s, port, answer).in =
                 IF Len(s.in) + 1 < Width THEN Collected(s, port) ELSE <<>>
           /\ ClockSPI(s, port, answer).out = IF Len(s.in) + 1 < Width THEN s.out ELSE answer
           /\ ClockSPI(s, port, answer).miso = s.out[Len(s.in) + 1]
<1>. DEFINE a == AlignedBy(s, port)
            in == Collected(s, port)
            seen == [a EXCEPT !.sck = PinLevel(port, SCK)]
            bit == [seen EXCEPT !.miso = s.out[Len(in)], !.in = in]
<1>1. PinLevel(port, SCK) \in BOOLEAN
    BY DEF PinLevel
<1>2. a \in SpiType /\ a.cs = PinLevel(port, CS) /\ a.out = s.out
    BY Aligning
<1>3. in \in Seq(BOOLEAN) /\ Len(in) = Len(s.in) + 1
    BY Collecting
<1>4. s.out[Len(in)] \in BOOLEAN /\ s.out[Len(in)] = s.out[Len(s.in) + 1]
    <2>1. Len(s.in) \in Nat /\ s.out \in [1 .. Width -> BOOLEAN]
        BY DEF SpiType, Byte
    <2>. QED BY <2>1, <1>3, SpiAssumption
<1>5. ClockSPI(s, port, answer) =
         IF Len(in) < Width THEN bit ELSE [bit EXCEPT !.out = answer, !.in = <<>>]
    BY DEF ClockSPI
<1>. HIDE DEF a, in
<1>6. /\ seen \in SpiType /\ seen.cs = PinLevel(port, CS) /\ seen.sck = PinLevel(port, SCK)
      /\ seen.out = s.out
    BY <1>1, <1>2 DEF SpiType
<1>. HIDE DEF seen
<1>7. /\ bit \in SpiType /\ bit.cs = PinLevel(port, CS) /\ bit.sck = PinLevel(port, SCK)
      /\ bit.out = s.out /\ bit.in = in /\ bit.miso = s.out[Len(in)]
    BY <1>3, <1>4, <1>6 DEF SpiType
<1>. HIDE DEF bit
<1>8. /\ [bit EXCEPT !.out = answer, !.in = <<>>] \in SpiType
      /\ [bit EXCEPT !.out = answer, !.in = <<>>].cs = bit.cs
      /\ [bit EXCEPT !.out = answer, !.in = <<>>].sck = bit.sck
      /\ [bit EXCEPT !.out = answer, !.in = <<>>].in = <<>>
      /\ [bit EXCEPT !.out = answer, !.in = <<>>].out = answer
      /\ [bit EXCEPT !.out = answer, !.in = <<>>].miso = bit.miso
    BY <1>7, EmptySeq DEF SpiType
<1>9. CASE Len(s.in) + 1 < Width
    BY <1>3, <1>4, <1>5, <1>7, <1>9 DEF in
<1>10. CASE ~(Len(s.in) + 1 < Width)
    BY <1>3, <1>4, <1>5, <1>7, <1>8, <1>10
<1>. QED BY <1>9, <1>10

(***************************************************************************)
(* The invariant: how the pins, the card's half byte and the program's     *)
(* half byte belong together in every phase of the program.                *)
(***************************************************************************)
Phases == {"off", "stopped", "idle", "low", "high", "sampled", "between"}

Types ==
    /\ appA \in PortType
    /\ switchA \subseteq {MISO}
    /\ spi \in SpiType
    /\ Len(spi.in) < Width
    /\ driver \in [phase : Phases, byte : Byte, got : Seq(BOOLEAN)]
    /\ asked \in Seq(Byte)
    /\ wire \in Seq(Exchanged)
    /\ heard \in Seq(Byte)

(* What the bus has seen of the pins last; at the start every pin floats.  *)
PinsSeen ==
    /\ driver.phase = "off" => appA = NewPort /\ spi.cs
    /\ driver.phase # "off" =>
          /\ appA.ddr = Driven
          /\ spi.cs <=> CS \in appA.data
          /\ spi.sck <=> SCK \in appA.data

Silent == asked = <<>> /\ wire = <<>> /\ heard = <<>>

Settled == Len(wire) = Len(heard) /\ Len(asked) = Len(heard)

(* The first n bits of the byte under way are with the card, which still   *)
(* holds the byte it is shifting out.                                      *)
Halfway(n) ==
    /\ n < Width
    /\ Len(spi.in) = n
    /\ \A i \in 1 .. n : spi.in[i] = driver.byte[i]
    /\ \A i \in 1 .. Len(driver.got) : driver.got[i] = spi.out[i]
    /\ Len(wire) = Len(heard)
    /\ Len(asked) = Len(heard) + 1
    /\ asked[Len(asked)] = driver.byte

(* The last bit is on the line, when the card has already taken the byte   *)
(* and has its next one ready.                                             *)
LastBit ==
    /\ Len(driver.got) + 1 = Width
    /\ spi.in = <<>>
    /\ Len(wire) = Len(heard) + 1
    /\ Len(asked) = Len(heard) + 1
    /\ \A i \in 1 .. Len(driver.got) : driver.got[i] = wire[Len(wire)].drove[i]
    /\ spi.miso = wire[Len(wire)].drove[Width]

Progress ==
    /\ driver.phase \in {"off", "stopped", "idle"} => Silent
    /\ driver.phase = "stopped" => appA.data = {} /\ spi.in = <<>>
    /\ driver.phase = "idle" => CS \in appA.data
    /\ driver.phase \in {"low", "high", "sampled", "between"} => CS \notin appA.data
    /\ driver.phase = "low" =>
          /\ Halfway(Len(driver.got))
          /\ SCK \notin appA.data
          /\ MOSI \in appA.data <=> driver.byte[Len(driver.got) + 1]
    /\ driver.phase = "high" =>
          \/ LastBit
          \/ /\ Halfway(Len(driver.got) + 1)
             /\ spi.miso = spi.out[Len(driver.got) + 1]
    /\ driver.phase = "sampled" => Halfway(Len(driver.got))
    /\ driver.phase = "between" => Settled /\ spi.in = <<>>

SpiInv == Types /\ PinsSeen /\ Progress

(* A write that clocks no bit (AppWrite).                                  *)
LEMMA QuietWrite ==
    ASSUME Types, NEW port \in PortType, AppWrite(port), ~Clocks(spi, port)
    PROVE  /\ appA' = port
           /\ spi' \in SpiType
           /\ spi'.cs = PinLevel(port, CS) /\ spi'.sck = PinLevel(port, SCK)
           /\ spi'.in = IF PinLevel(port, CS) = spi.cs THEN spi.in ELSE <<>>
           /\ spi'.out = spi.out /\ spi'.miso = spi.miso
           /\ Len(spi'.in) < Width
           /\ wire' = IF Deselects(spi, port) THEN <<>> ELSE wire
           /\ wire' \in Seq(Exchanged)
<1>1. spi \in SpiType /\ Len(spi.in) < Width /\ wire \in Seq(Exchanged)
    BY DEF Types
<1>2. PICK answer : spi' = ClockSPI(spi, port, answer)
    BY DEF AppWrite
<1>3. ~Completes(spi, port)
    BY DEF Completes
<1>4. wire' = IF Deselects(spi, port) THEN <<>> ELSE wire
    BY <1>3 DEF AppWrite
<1>5. /\ spi' \in SpiType
      /\ spi'.cs = PinLevel(port, CS) /\ spi'.sck = PinLevel(port, SCK)
      /\ spi'.in = IF PinLevel(port, CS) = spi.cs THEN spi.in ELSE <<>>
      /\ spi'.out = spi.out /\ spi'.miso = spi.miso
    BY <1>1, <1>2, NoClock
<1>6. Len(spi'.in) < Width
    <2>1. Len(<<>>) = 0 /\ Width > 0
        BY SpiAssumption, EmptySeq
    <2>. QED BY <1>1, <1>5, <2>1
<1>7. wire' \in Seq(Exchanged)
    BY <1>1, <1>4, EmptySeq
<1>8. appA' = port
    BY DEF AppWrite
<1>. QED BY <1>4, <1>5, <1>6, <1>7, <1>8

(* The pins of a port whose pins are outputs follow its latch.             *)
LEMMA Levels ==
    ASSUME NEW port, port.ddr = Driven
    PROVE  /\ PinLevel(port, CS) <=> CS \in port.data
           /\ PinLevel(port, SCK) <=> SCK \in port.data
           /\ PinLevel(port, MOSI) <=> MOSI \in port.data
    BY DEF PinLevel, Driven, CS, SCK, MOSI

LEMMA FloatingLevels ==
    /\ PinLevel(NewPort, CS)
    /\ PinLevel(NewPort, SCK)
    BY DEF PinLevel, NewPort

LEMMA Latching ==
    ASSUME Types, driver.phase # "off", PinsSeen, NEW pins \in SUBSET Driven
    PROVE  /\ WriteData(appA, pins) \in PortType
           /\ WriteData(appA, pins).ddr = Driven
           /\ WriteData(appA, pins).data = pins
    BY DEF Types, PinsSeen, PortType, WriteData

(***************************************************************************)
(* The program's actions, one by one.  What each promises: the invariant,  *)
(* and a step of ByteBus or none at all.                                   *)
(***************************************************************************)
LEMMA SetUpStep ==
    ASSUME SpiInv, SetUp
    PROVE  SpiInv' /\ UNCHANGED <<asked, wire, heard, spi.out>>
<1>. DEFINE port == WriteDDR(appA, Driven)
<1>1. Types /\ driver.phase = "off" /\ appA = NewPort /\ spi.cs /\ Silent
    BY DEF SpiInv, SetUp, PinsSeen, Progress
<1>2. port \in PortType /\ port.ddr = Driven /\ port.data = {}
    BY <1>1 DEF NewPort, WriteDDR, PortType
<1>3. AppWrite(port)
    BY DEF SetUp
<1>. HIDE DEF port
<1>4. ~PinLevel(port, CS) /\ ~PinLevel(port, SCK)
    BY <1>2, Levels
<1>5. ~Clocks(spi, port) /\ ~Deselects(spi, port)
    BY <1>4 DEF Clocks, Deselects
<1>6. /\ appA' = port /\ spi' \in SpiType /\ spi'.cs = PinLevel(port, CS) /\ spi'.sck = PinLevel(port, SCK)
      /\ spi'.in = IF PinLevel(port, CS) = spi.cs THEN spi.in ELSE <<>>
      /\ spi'.out = spi.out /\ Len(spi'.in) < Width /\ wire' = wire
    BY <1>1, <1>2, <1>3, <1>5, QuietWrite
<1>7. spi'.in = <<>>
    BY <1>1, <1>4, <1>6
<1>8. /\ driver' = [driver EXCEPT !.phase = "stopped"]
      /\ switchA' = switchA /\ asked' = asked /\ heard' = heard
    BY DEF SetUp
<1>9. driver' \in [phase : Phases, byte : Byte, got : Seq(BOOLEAN)] /\ driver'.phase = "stopped"
    BY <1>1, <1>8 DEF Types, Phases
<1>10. Types'
    BY <1>1, <1>2, <1>6, <1>8, <1>9 DEF Types
<1>11. PinsSeen'
    BY <1>2, <1>4, <1>6, <1>9 DEF PinsSeen
<1>12. Progress'
    BY <1>1, <1>2, <1>6, <1>7, <1>8, <1>9 DEF Progress, Silent
<1>. QED BY <1>6, <1>8, <1>10, <1>11, <1>12 DEF SpiInv

LEMMA ReleaseStep ==
    ASSUME SpiInv, NEW extra \in SUBSET {SCK, MOSI}, Release(extra)
    PROVE  SpiInv' /\ Bus!Drop
<1>. DEFINE port == WriteData(appA, {CS} \cup extra)
<1>1. Types /\ driver.phase # "off" /\ PinsSeen /\ Progress
    BY DEF SpiInv, Release
<1>2. {CS} \cup extra \in SUBSET Driven
    BY DEF Driven
<1>3. port \in PortType /\ port.ddr = Driven /\ port.data = {CS} \cup extra /\ CS \in port.data
    BY <1>1, <1>2, Latching
<1>4. AppWrite(port)
    BY DEF Release
<1>. HIDE DEF port
<1>5. PinLevel(port, CS) /\ (PinLevel(port, SCK) <=> SCK \in port.data)
    BY <1>3, Levels
<1>6. ~Clocks(spi, port)
    BY <1>5 DEF Clocks
<1>7. /\ appA' = port /\ spi' \in SpiType /\ spi'.cs = PinLevel(port, CS) /\ spi'.sck = PinLevel(port, SCK)
      /\ spi'.out = spi.out /\ Len(spi'.in) < Width
      /\ wire' = IF Deselects(spi, port) THEN <<>> ELSE wire
    BY <1>1, <1>3, <1>4, <1>6, QuietWrite
<1>8. wire' = <<>>
    <2>1. CASE spi.cs
        <3>1. CS \in appA.data
            BY <1>1, <2>1 DEF PinsSeen
        <3>2. driver.phase \in Phases
            BY <1>1 DEF Types
        <3>3. driver.phase \in {"stopped", "idle"}
            BY <1>1, <3>1, <3>2 DEF Progress, Phases
        <3>. QED BY <1>1, <1>7, <3>3 DEF Progress, Silent
    <2>2. CASE ~spi.cs
        BY <1>5, <1>7, <2>2 DEF Deselects
    <2>. QED BY <2>1, <2>2
<1>9. /\ driver' = [phase |-> "idle", byte |-> Ones, got |-> <<>>]
      /\ switchA' = switchA /\ asked' = <<>> /\ heard' = <<>>
    BY DEF Release
<1>10. Ones \in Byte
    BY DEF Ones, Byte
<1>11. driver' \in [phase : Phases, byte : Byte, got : Seq(BOOLEAN)] /\ driver'.phase = "idle"
    BY <1>9, <1>10, EmptySeq DEF Phases
<1>12. Types'
    BY <1>1, <1>3, <1>7, <1>8, <1>9, <1>11, EmptySeq DEF Types
<1>13. PinsSeen'
    BY <1>3, <1>5, <1>7, <1>11 DEF PinsSeen
<1>14. Progress'
    BY <1>3, <1>7, <1>8, <1>9, <1>11 DEF Progress, Silent
<1>. QED BY <1>7, <1>8, <1>9, <1>12, <1>13, <1>14 DEF SpiInv, Bus!Drop

(* MOSI is set while SCK is low; CS is low too, from now on if not before. *)
LEMMA Presenting ==
    ASSUME SpiInv, driver.phase # "off", NEW bit \in BOOLEAN, Presented(bit)
    PROVE  /\ appA' \in PortType /\ appA'.ddr = Driven
           /\ CS \notin appA'.data /\ SCK \notin appA'.data /\ (MOSI \in appA'.data <=> bit)
           /\ spi' \in SpiType /\ ~spi'.cs /\ ~spi'.sck
           /\ spi'.in = IF CS \in appA.data THEN <<>> ELSE spi.in
           /\ spi'.out = spi.out /\ Len(spi'.in) < Width
           /\ wire' = wire
<1>. DEFINE pins == IF bit THEN {MOSI} ELSE {}
            port == WriteData(appA, pins)
<1>1. Types /\ PinsSeen /\ spi \in SpiType
    BY DEF SpiInv, Types
<1>2. pins \in SUBSET Driven
    BY DEF Driven
<1>3. AppWrite(port)
    BY DEF Presented
<1>4. CS \notin pins /\ SCK \notin pins /\ (MOSI \in pins <=> bit)
    BY DEF CS, SCK, MOSI
<1>. HIDE DEF pins
<1>5. port \in PortType /\ port.ddr = Driven /\ port.data = pins
    BY <1>1, <1>2, Latching
<1>. HIDE DEF port
<1>6. ~PinLevel(port, CS) /\ ~PinLevel(port, SCK)
    BY <1>4, <1>5, Levels
<1>7. ~Clocks(spi, port) /\ ~Deselects(spi, port)
    BY <1>6 DEF Clocks, Deselects
<1>8. /\ appA' = port /\ spi' \in SpiType /\ spi'.cs = PinLevel(port, CS) /\ spi'.sck = PinLevel(port, SCK)
      /\ spi'.in = IF PinLevel(port, CS) = spi.cs THEN spi.in ELSE <<>>
      /\ spi'.out = spi.out /\ Len(spi'.in) < Width
      /\ wire' = wire
    BY <1>1, <1>3, <1>5, <1>7, QuietWrite
<1>9. PinLevel(port, CS) = spi.cs <=> CS \notin appA.data
    <2>1. PinLevel(port, CS) \in BOOLEAN /\ spi.cs \in BOOLEAN
        BY <1>1 DEF PinLevel, SpiType
    <2>. QED BY <1>1, <1>6, <2>1 DEF PinsSeen
<1>10. PinLevel(port, CS) = FALSE /\ PinLevel(port, SCK) = FALSE
    BY <1>6 DEF PinLevel
<1>. QED BY <1>4, <1>5, <1>8, <1>9, <1>10

LEMMA BeginStep ==
    ASSUME SpiInv, NEW b \in Byte, BeginByte(b)
    PROVE  SpiInv' /\ Bus!Ask(b)
<1>1. Types /\ PinsSeen /\ Progress /\ driver.phase \in {"idle", "between"} /\ driver.phase # "off"
    BY DEF SpiInv, BeginByte
<1>2. 1 \in 1 .. Width /\ b[1] \in BOOLEAN /\ 0 < Width
    BY SpiAssumption DEF Byte
<1>3. /\ appA' \in PortType /\ appA'.ddr = Driven
      /\ CS \notin appA'.data /\ SCK \notin appA'.data /\ (MOSI \in appA'.data <=> b[1])
      /\ spi' \in SpiType /\ ~spi'.cs /\ ~spi'.sck
      /\ spi'.in = IF CS \in appA.data THEN <<>> ELSE spi.in
      /\ spi'.out = spi.out /\ Len(spi'.in) < Width
      /\ wire' = wire
    BY <1>1, <1>2, Presenting DEF BeginByte
<1>4. spi'.in = <<>>
    BY <1>1, <1>3 DEF Progress
<1>5. Len(wire) = Len(heard) /\ Len(asked) = Len(heard)
    BY <1>1 DEF Progress, Silent, Settled
<1>6. /\ driver' = [phase |-> "low", byte |-> b, got |-> <<>>]
      /\ asked' = Append(asked, b) /\ switchA' = switchA /\ heard' = heard
    BY DEF BeginByte
<1>7. /\ driver'.phase = "low" /\ driver'.byte = b /\ driver'.got = <<>>
      /\ driver' \in [phase : Phases, byte : Byte, got : Seq(BOOLEAN)]
    BY <1>6, EmptySeq DEF Phases
<1>8. /\ asked' \in Seq(Byte) /\ Len(asked') = Len(asked) + 1 /\ Len(asked) \in Nat
      /\ asked'[Len(asked) + 1] = b
    BY <1>1, <1>6, Pushed DEF Types
<1>9. Types'
    BY <1>1, <1>3, <1>6, <1>7, <1>8 DEF Types
<1>10. PinsSeen'
    BY <1>3, <1>7 DEF PinsSeen
<1>11. Len(<<>>) = 0
    OBVIOUS
<1>12. Halfway(0)'
    <2>1. Len(spi'.in) = 0 /\ Len(driver'.got) = 0 /\ Len(wire') = Len(heard')
          /\ Len(asked') = Len(heard') + 1 /\ asked'[Len(asked')] = driver'.byte
        BY <1>3, <1>4, <1>5, <1>6, <1>7, <1>8, <1>11
    <2>. QED BY <1>2, <2>1 DEF Halfway
<1>13. Progress'
    BY <1>3, <1>7, <1>11, <1>12 DEF Progress
<1>. QED BY <1>3, <1>5, <1>6, <1>9, <1>10, <1>13 DEF SpiInv, Bus!Ask

LEMMA NextBitStep ==
    ASSUME SpiInv, NextBit
    PROVE  SpiInv' /\ UNCHANGED <<asked, wire, heard, spi.out>>
<1>. DEFINE n == Len(driver.got)
<1>1. Types /\ PinsSeen /\ Progress /\ driver.phase = "sampled"
    BY DEF SpiInv, NextBit
<1>2. Halfway(n) /\ CS \notin appA.data
    BY <1>1 DEF Progress
<1>3. n \in Nat /\ n < Width /\ driver.byte[n + 1] \in BOOLEAN
    <2>1. n \in Nat /\ driver.byte \in [1 .. Width -> BOOLEAN]
        BY <1>1, LenProperties DEF Types, Byte
    <2>. QED BY <1>2, <2>1, SpiAssumption DEF Halfway
<1>4. /\ appA' \in PortType /\ appA'.ddr = Driven
      /\ CS \notin appA'.data /\ SCK \notin appA'.data /\ (MOSI \in appA'.data <=> driver.byte[n + 1])
      /\ spi' \in SpiType /\ ~spi'.cs /\ ~spi'.sck
      /\ spi'.in = spi.in
      /\ spi'.out = spi.out /\ Len(spi'.in) < Width
      /\ wire' = wire
    BY <1>1, <1>2, <1>3, Presenting DEF NextBit
<1>5. driver' = [driver EXCEPT !.phase = "low"] /\ switchA' = switchA /\ asked' = asked /\ heard' = heard
    BY DEF NextBit
<1>6. /\ driver'.phase = "low" /\ driver'.byte = driver.byte /\ driver'.got = driver.got
      /\ driver' \in [phase : Phases, byte : Byte, got : Seq(BOOLEAN)]
    BY <1>1, <1>5 DEF Types, Phases
<1>7. Types'
    BY <1>1, <1>4, <1>5, <1>6 DEF Types
<1>8. PinsSeen'
    BY <1>4, <1>6 DEF PinsSeen
<1>9. Halfway(Len(driver.got))'
    BY <1>2, <1>4, <1>5, <1>6 DEF Halfway
<1>10. Progress'
    BY <1>4, <1>6, <1>9 DEF Progress
<1>. QED BY <1>4, <1>5, <1>7, <1>8, <1>10 DEF SpiInv

(* The rising edge: the card takes a bit and gives one, and at the last    *)
(* takes the byte and has its next one ready.                              *)
LEMMA RaiseStep ==
    ASSUME SpiInv, RaiseSCK
    PROVE  /\ SpiInv'
           /\ \/ UNCHANGED <<asked, wire, heard, spi.out>>
              \/ \E answer \in Byte : Bus!Take(answer)
<1>. DEFINE n == Len(driver.got)
            pins == appA.data \cup {SCK}
            port == WriteData(appA, pins)
            got == Collected(spi, port)
<1>1. Types /\ PinsSeen /\ Progress /\ driver.phase = "low" /\ driver.phase # "off"
    BY DEF SpiInv, RaiseSCK
<1>2. /\ Halfway(n) /\ CS \notin appA.data /\ SCK \notin appA.data
      /\ MOSI \in appA.data <=> driver.byte[n + 1]
    BY <1>1 DEF Progress
<1>3. pins \in SUBSET Driven /\ CS \notin pins /\ SCK \in pins /\ (MOSI \in pins <=> driver.byte[n + 1])
    BY <1>1, <1>2 DEF Types, PortType, Driven, CS, SCK, MOSI
<1>4. AppWrite(port)
    BY DEF RaiseSCK
<1>5. port \in PortType /\ port.ddr = Driven /\ port.data = pins
    BY <1>1, <1>3, Latching
<1>6. spi \in SpiType /\ spi.cs \in BOOLEAN /\ Len(spi.in) = n /\ n < Width /\ n \in Nat
      /\ driver.byte \in Byte /\ spi.out \in Byte
    BY <1>1, <1>2, LenProperties DEF Types, SpiType, Halfway
<1>7. n + 1 \in 1 .. Width /\ driver.byte[n + 1] \in BOOLEAN /\ Width \in Nat
    BY <1>6, SpiAssumption DEF Byte
<1>. HIDE DEF port, pins, got, n
<1>8. ~PinLevel(port, CS) /\ PinLevel(port, SCK) /\ PinLevel(port, MOSI) = driver.byte[n + 1]
    <2>1. PinLevel(port, MOSI) \in BOOLEAN
        BY DEF PinLevel
    <2>. QED BY <1>3, <1>5, <1>7, <2>1, Levels
<1>9. ~spi.cs /\ ~spi.sck /\ spi.cs = PinLevel(port, CS)
    <2>1. PinLevel(port, CS) \in BOOLEAN
        BY DEF PinLevel
    <2>. QED BY <1>1, <1>2, <1>6, <1>8, <2>1 DEF PinsSeen
<1>10. Clocks(spi, port) /\ ~Deselects(spi, port)
    BY <1>8, <1>9 DEF Clocks, Deselects
<1>11. /\ got \in Seq(BOOLEAN) /\ Len(got) = n + 1
       /\ \A i \in 1 .. n : got[i] = spi.in[i]
       /\ got[n + 1] = driver.byte[n + 1]
    BY <1>6, <1>8, <1>9, Collecting DEF got
<1>12. \A i \in 1 .. n + 1 : got[i] = driver.byte[i]
    <2>. SUFFICES ASSUME NEW i \in 1 .. n + 1 PROVE got[i] = driver.byte[i]
        OBVIOUS
    <2>1. CASE i = n + 1
        BY <1>11, <2>1
    <2>2. CASE i # n + 1
        <3>1. i \in 1 .. n
            BY <1>6, <2>2
        <3>. QED BY <1>2, <1>11, <3>1 DEF Halfway
    <2>. QED BY <2>1, <2>2
<1>13. Completes(spi, port) <=> n + 1 = Width
    BY <1>10, <1>11 DEF Completes, got
<1>14. PICK answer \in Byte : spi' = ClockSPI(spi, port, answer)
    <2>1. Ones \in Byte
        BY DEF Ones, Byte
    <2>. QED BY <1>4, <2>1 DEF AppWrite
<1>15. /\ spi' \in SpiType /\ ~spi'.cs /\ spi'.sck
       /\ spi'.in = IF n + 1 < Width THEN got ELSE <<>>
       /\ spi'.out = IF n + 1 < Width THEN spi.out ELSE answer
       /\ spi'.miso = spi.out[n + 1]
    <2>1. /\ spi' \in SpiType /\ spi'.cs = PinLevel(port, CS) /\ spi'.sck = PinLevel(port, SCK)
          /\ spi'.in = IF Len(spi.in) + 1 < Width THEN Collected(spi, port) ELSE <<>>
          /\ spi'.out = IF Len(spi.in) + 1 < Width THEN spi.out ELSE answer
          /\ spi'.miso = spi.out[Len(spi.in) + 1]
        BY <1>6, <1>9, <1>10, <1>14, Clock
    <2>. QED BY <1>6, <1>8, <2>1 DEF got
<1>16. /\ driver' = [driver EXCEPT !.phase = "high"] /\ appA' = port
       /\ switchA' = switchA /\ asked' = asked /\ heard' = heard
    BY <1>4 DEF RaiseSCK, AppWrite
<1>17. /\ driver'.phase = "high" /\ driver'.byte = driver.byte /\ driver'.got = driver.got
       /\ driver' \in [phase : Phases, byte : Byte, got : Seq(BOOLEAN)]
    BY <1>1, <1>16 DEF Types, Phases
<1>18. PinsSeen'
    BY <1>3, <1>5, <1>15, <1>16, <1>17 DEF PinsSeen
<1>19. CASE n + 1 < Width
    <2>1. wire' = wire
        BY <1>4, <1>10, <1>13, <1>6, <1>7, <1>19 DEF AppWrite
    <2>2. Len(spi'.in) < Width
        BY <1>11, <1>15, <1>19
    <2>3. Types'
        BY <1>1, <1>5, <1>15, <1>16, <1>17, <2>1, <2>2 DEF Types
    <2>4. Halfway(Len(driver.got) + 1)' /\ spi'.miso = spi'.out[Len(driver'.got) + 1]
        BY <1>2, <1>11, <1>12, <1>15, <1>16, <1>17, <1>19, <2>1 DEF Halfway, n
    <2>5. Progress'
        BY <1>3, <1>5, <1>16, <1>17, <2>4 DEF Progress
    <2>. QED BY <1>15, <1>16, <1>18, <1>19, <2>1, <2>3, <2>5 DEF SpiInv
<1>20. CASE n + 1 = Width
    <2>1. wire' = Append(wire, [took |-> got, drove |-> spi.out])
        BY <1>4, <1>10, <1>13, <1>20 DEF AppWrite, got
    <2>2. got = driver.byte
        <3>1. driver.byte \in Seq(BOOLEAN) /\ Len(driver.byte) = n + 1
            BY <1>6, <1>20, ByteIsSeq
        <3>. QED BY <1>11, <1>12, <3>1, SeqEqual
    <2>3. [took |-> got, drove |-> spi.out] \in Exchanged
        BY <1>6, <2>2 DEF Exchanged
    <2>4. /\ wire' \in Seq(Exchanged) /\ Len(wire') = Len(wire) + 1
          /\ wire'[Len(wire) + 1] = [took |-> got, drove |-> spi.out]
          /\ Len(wire) \in Nat
        BY <1>1, <2>1, <2>3, Pushed DEF Types
    <2>5. wire'[Len(wire')].drove = spi.out
        BY <2>4
    <2>6. spi'.in = <<>> /\ spi'.out = answer /\ Len(<<>>) = 0 /\ 0 < Width
        BY <1>7, <1>15, <1>20
    <2>7. Len(spi'.in) < Width
        BY <2>6
    <2>8. Types'
        BY <1>1, <1>5, <1>15, <1>16, <1>17, <2>4, <2>7 DEF Types
    <2>9. LastBit'
        <3>1. Len(wire') = Len(heard) + 1 /\ Len(asked) = Len(heard) + 1
            BY <1>2, <2>4 DEF Halfway
        <3>2. \A i \in 1 .. Len(driver'.got) : driver'.got[i] = wire'[Len(wire')].drove[i]
            BY <1>2, <1>17, <2>5 DEF Halfway
        <3>3. spi'.miso = wire'[Len(wire')].drove[Width] /\ Len(driver'.got) + 1 = Width
            BY <1>15, <1>17, <1>20, <2>5 DEF n
        <3>. QED BY <1>16, <2>6, <3>1, <3>2, <3>3 DEF LastBit
    <2>10. Progress'
        BY <1>3, <1>5, <1>16, <1>17, <2>9 DEF Progress
    <2>11. Bus!Take(answer)
        <3>1. Len(wire) < Len(asked) /\ asked[Len(asked)] = driver.byte
            BY <1>2, <2>4 DEF Halfway
        <3>. QED BY <1>16, <2>1, <2>2, <2>6, <3>1 DEF Bus!Take
    <2>. QED BY <1>18, <2>8, <2>10, <2>11 DEF SpiInv
<1>. QED BY <1>6, <1>7, <1>19, <1>20

(* The program samples PA1, whatever the switch on it says.                *)
LEMMA SampleStep ==
    ASSUME SpiInv, Sample
    PROVE  SpiInv' /\ (UNCHANGED <<asked, wire, heard, spi.out>> \/ Bus!Hear)
<1>. DEFINE n == Len(driver.got)
            got == Append(driver.got, SampledMISO)
<1>1. Types /\ PinsSeen /\ Progress /\ driver.phase = "high" /\ CS \notin appA.data /\ ~spi.cs
    BY DEF SpiInv, Sample, Progress, PinsSeen
<1>2. SampledMISO = spi.miso
    <2>1. MISO \notin appA.ddr
        BY <1>1 DEF PinsSeen, Driven, MISO, CS, SCK, MOSI
    <2>2. spi.miso \in BOOLEAN
        BY <1>1 DEF Types, SpiType
    <2>. QED BY <1>1, <2>1, <2>2 DEF SampledMISO, ReadPort, AppPortAInput
<1>3. SampledMISO \in BOOLEAN /\ driver.got \in Seq(BOOLEAN) /\ driver.byte \in Byte
    BY <1>1, <1>2 DEF Types, SpiType
<1>4. /\ got \in Seq(BOOLEAN) /\ Len(got) = n + 1 /\ n \in Nat
      /\ \A i \in 1 .. n : got[i] = driver.got[i]
      /\ got[n + 1] = spi.miso
    BY <1>2, <1>3, Pushed
<1>5. /\ appA' = appA /\ switchA' = switchA /\ spi' = spi /\ asked' = asked /\ wire' = wire
      /\ Len(got) < Width =>
            driver' = [driver EXCEPT !.phase = "sampled", !.got = got] /\ heard' = heard
      /\ ~(Len(got) < Width) =>
            /\ driver' = [phase |-> "between", byte |-> Ones, got |-> <<>>]
            /\ heard' = Append(heard, got)
    BY DEF Sample
<1>. HIDE DEF n, got
<1>6. CASE n + 1 < Width
    <2>1. Halfway(n + 1) /\ spi.miso = spi.out[n + 1]
        BY <1>1, <1>4, <1>6 DEF Progress, LastBit, n
    <2>2. /\ driver'.phase = "sampled" /\ driver'.got = got /\ driver'.byte = driver.byte /\ heard' = heard
          /\ driver' \in [phase : Phases, byte : Byte, got : Seq(BOOLEAN)]
        BY <1>1, <1>4, <1>5, <1>6 DEF Types, Phases
    <2>3. Types' /\ PinsSeen'
        BY <1>1, <1>5, <2>2 DEF Types, PinsSeen
    <2>4. \A i \in 1 .. n + 1 : got[i] = spi.out[i]
        <3>. SUFFICES ASSUME NEW i \in 1 .. n + 1 PROVE got[i] = spi.out[i]
            OBVIOUS
        <3>1. CASE i = n + 1
            BY <1>4, <2>1, <3>1
        <3>2. CASE i # n + 1
            <4>1. i \in 1 .. n
                BY <1>4, <3>2
            <4>. QED BY <1>4, <2>1, <4>1 DEF Halfway, n
        <3>. QED BY <3>1, <3>2
    <2>5. Halfway(Len(driver.got))'
        BY <1>4, <1>5, <2>1, <2>2, <2>4 DEF Halfway
    <2>6. Progress'
        BY <1>1, <1>5, <2>2, <2>5 DEF Progress
    <2>. QED BY <1>5, <2>2, <2>3, <2>6 DEF SpiInv
<1>7. CASE ~(n + 1 < Width)
    <2>1. LastBit
        BY <1>1, <1>7 DEF Progress, Halfway, n
    <2>2. n + 1 = Width /\ Len(wire) = Len(heard) + 1 /\ Len(asked) = Len(heard) + 1 /\ spi.in = <<>>
        BY <2>1 DEF LastBit, n
    <2>. DEFINE drove == wire[Len(wire)].drove
    <2>3. drove \in Byte
        <3>1. Len(heard) \in Nat /\ wire \in Seq(Exchanged)
            BY <1>1, LenProperties DEF Types
        <3>2. wire[Len(wire)] \in Exchanged
            BY <2>2, <3>1, ElementOfSeq
        <3>. QED BY <3>2 DEF Exchanged
    <2>4. /\ \A i \in 1 .. n : driver.got[i] = drove[i]
          /\ spi.miso = drove[n + 1]
        BY <2>1, <2>2 DEF LastBit, n
    <2>. HIDE DEF drove
    <2>5. \A i \in 1 .. n + 1 : got[i] = drove[i]
        <3>. SUFFICES ASSUME NEW i \in 1 .. n + 1 PROVE got[i] = drove[i]
            OBVIOUS
        <3>1. CASE i = n + 1
            BY <1>4, <2>4, <3>1
        <3>2. CASE i # n + 1
            <4>1. i \in 1 .. n
                BY <1>4, <3>2
            <4>. QED BY <1>4, <2>4, <4>1
        <3>. QED BY <3>1, <3>2
    <2>6. got = drove
        <3>1. drove \in Seq(BOOLEAN) /\ Len(drove) = n + 1
            BY <2>2, <2>3, ByteIsSeq
        <3>. QED BY <1>4, <2>5, <3>1, SeqEqual
    <2>7. /\ driver' = [phase |-> "between", byte |-> Ones, got |-> <<>>]
          /\ heard' = Append(heard, got)
        BY <1>4, <1>5, <1>7
    <2>8. driver'.phase = "between" /\ driver' \in [phase : Phases, byte : Byte, got : Seq(BOOLEAN)]
        <3>1. Ones \in Byte
            BY DEF Ones, Byte
        <3>. QED BY <2>7, <3>1, EmptySeq DEF Phases
    <2>9. heard' \in Seq(Byte) /\ Len(heard') = Len(heard) + 1 /\ Len(heard) \in Nat
        BY <1>1, <2>3, <2>6, <2>7, Pushed DEF Types
    <2>10. Types' /\ PinsSeen'
        BY <1>1, <1>5, <2>8, <2>9 DEF Types, PinsSeen
    <2>11. Progress'
        BY <1>1, <1>5, <2>2, <2>8, <2>9 DEF Progress, Settled
    <2>12. Bus!Hear
        BY <1>5, <2>2, <2>6, <2>7, <2>9 DEF Bus!Hear, drove
    <2>. QED BY <2>10, <2>11, <2>12 DEF SpiInv
<1>. QED BY <1>6, <1>7

(* The pins are looked at again although none has changed.                 *)
LEMMA ElsewhereStep ==
    ASSUME SpiInv, WriteElsewhere
    PROVE  SpiInv' /\ UNCHANGED <<asked, wire, heard, spi.out>>
<1>1. Types /\ PinsSeen /\ Progress /\ appA \in PortType /\ spi \in SpiType
    BY DEF SpiInv, Types
<1>2. AppWrite(appA) /\ switchA' = switchA /\ driver' = driver /\ asked' = asked /\ heard' = heard
    BY DEF WriteElsewhere
<1>3. PinLevel(appA, CS) \in BOOLEAN /\ spi.cs \in BOOLEAN /\ spi.sck \in BOOLEAN
    BY <1>1 DEF PinLevel, SpiType
<1>4. PinLevel(appA, CS) = spi.cs
    <2>1. CASE driver.phase = "off"
        BY <1>1, <1>3, <2>1, FloatingLevels DEF PinsSeen
    <2>2. CASE driver.phase # "off"
        BY <1>1, <1>3, <2>2, Levels DEF PinsSeen
    <2>. QED BY <2>1, <2>2
<1>5. ~Clocks(spi, appA) /\ ~Deselects(spi, appA)
    <2>1. CASE driver.phase = "off"
        BY <1>1, <1>4, <2>1 DEF PinsSeen, Clocks, Deselects
    <2>2. CASE driver.phase # "off"
        BY <1>1, <1>4, <2>2, Levels DEF PinsSeen, Clocks, Deselects
    <2>. QED BY <2>1, <2>2
<1>6. /\ appA' = appA /\ spi' \in SpiType /\ spi'.cs = spi.cs /\ spi'.sck = PinLevel(appA, SCK)
      /\ spi'.in = spi.in /\ spi'.out = spi.out /\ spi'.miso = spi.miso
      /\ Len(spi'.in) < Width /\ wire' = wire
    BY <1>1, <1>2, <1>4, <1>5, QuietWrite
<1>7. Types'
    BY <1>1, <1>2, <1>6 DEF Types
<1>8. PinsSeen'
    <2>1. CASE driver.phase = "off"
        BY <1>1, <1>2, <1>6, <2>1 DEF PinsSeen
    <2>2. CASE driver.phase # "off"
        BY <1>1, <1>2, <1>6, <2>2, Levels DEF PinsSeen
    <2>. QED BY <2>1, <2>2
<1>9. Progress'
    BY <1>1, <1>2, <1>6 DEF Progress, Silent, Settled, Halfway, LastBit
<1>. QED BY <1>2, <1>6, <1>7, <1>8, <1>9 DEF SpiInv

LEMMA SwitchStep ==
    ASSUME SpiInv, NEW on \in BOOLEAN, SetAppSwitch(on)
    PROVE  SpiInv' /\ UNCHANGED <<asked, wire, heard, spi.out>>
<1>1. Types /\ PinsSeen /\ Progress
    BY DEF SpiInv
<1>2. /\ switchA' \subseteq {MISO}
      /\ appA' = appA /\ spi' = spi /\ driver' = driver
      /\ asked' = asked /\ wire' = wire /\ heard' = heard
    BY <1>1 DEF SetAppSwitch, Types
<1>3. Types' /\ PinsSeen'
    BY <1>1, <1>2 DEF Types, PinsSeen
<1>4. Progress'
    BY <1>1, <1>2 DEF Progress, Silent, Settled, Halfway, LastBit
<1>. QED BY <1>2, <1>3, <1>4 DEF SpiInv

LEMMA StillStep ==
    ASSUME SpiInv, UNCHANGED spiVars
    PROVE  SpiInv' /\ UNCHANGED <<asked, wire, heard, spi.out>>
<1>1. /\ switchA' = switchA /\ appA' = appA /\ spi' = spi /\ driver' = driver
      /\ asked' = asked /\ wire' = wire /\ heard' = heard
    BY DEF spiVars
<1>2. Types' /\ PinsSeen'
    BY <1>1 DEF SpiInv, Types, PinsSeen
<1>3. Progress'
    BY <1>1 DEF SpiInv, Progress, Silent, Settled, Halfway, LastBit
<1>. QED BY <1>1, <1>2, <1>3 DEF SpiInv

(***************************************************************************)
(* The specification.                                                      *)
(***************************************************************************)
LEMMA StartsSilent ==
    ASSUME SpiInit
    PROVE  SpiInv /\ Bus!BusInit
<1>1. Ones \in Byte /\ <<>> \in Seq(BOOLEAN) /\ <<>> \in Seq(Byte) /\ <<>> \in Seq(Exchanged)
    BY EmptySeq DEF Ones, Byte
<1>2. spi \in SpiType /\ spi.cs /\ spi.in = <<>> /\ spi.out = Ones
    BY <1>1 DEF SpiInit, NewSpi, SpiType
<1>3. /\ driver.phase = "off"
      /\ driver \in [phase : Phases, byte : Byte, got : Seq(BOOLEAN)]
    BY <1>1 DEF SpiInit, Phases
<1>4. appA = NewPort /\ appA \in PortType /\ switchA \subseteq {MISO}
    BY DEF SpiInit, NewPort, PortType
<1>5. asked = <<>> /\ wire = <<>> /\ heard = <<>>
    BY DEF SpiInit
<1>6. Len(spi.in) < Width
    <2>1. Len(<<>>) = 0 /\ Width > 0
        BY SpiAssumption, EmptySeq
    <2>. QED BY <1>2, <2>1
<1>7. Types
    BY <1>1, <1>2, <1>3, <1>4, <1>5, <1>6 DEF Types
<1>8. PinsSeen /\ Progress
    BY <1>2, <1>3, <1>4, <1>5 DEF PinsSeen, Progress, Silent
<1>. QED BY <1>1, <1>2, <1>5, <1>7, <1>8 DEF SpiInv, Bus!BusInit

LEMMA StepsCarryBytes ==
    ASSUME SpiInv, [SpiNext]_spiVars
    PROVE  SpiInv' /\ [Bus!BusNext]_<<asked, wire, heard, spi.out>>
<1>1. CASE SetUp
    BY <1>1, SetUpStep
<1>2. CASE NextBit
    BY <1>2, NextBitStep
<1>3. CASE RaiseSCK
    BY <1>3, RaiseStep DEF Bus!BusNext
<1>4. CASE Sample
    BY <1>4, SampleStep DEF Bus!BusNext
<1>5. CASE WriteElsewhere
    BY <1>5, ElsewhereStep
<1>6. ASSUME NEW extra \in SUBSET {SCK, MOSI}, Release(extra)
      PROVE  SpiInv' /\ [Bus!BusNext]_<<asked, wire, heard, spi.out>>
    BY <1>6, ReleaseStep DEF Bus!BusNext
<1>7. ASSUME NEW b \in Byte, BeginByte(b)
      PROVE  SpiInv' /\ [Bus!BusNext]_<<asked, wire, heard, spi.out>>
    BY <1>7, BeginStep DEF Bus!BusNext
<1>8. ASSUME NEW on \in BOOLEAN, SetAppSwitch(on)
      PROVE  SpiInv' /\ [Bus!BusNext]_<<asked, wire, heard, spi.out>>
    BY <1>8, SwitchStep
<1>9. CASE UNCHANGED spiVars
    BY <1>9, StillStep
<1>. QED BY <1>1, <1>2, <1>3, <1>4, <1>5, <1>6, <1>7, <1>8, <1>9 DEF SpiNext

(* clockSPI and appPortAInput carry whole bytes between a program that     *)
(* bit-bangs the App RIOT's Port A and the card, unchanged and in order,   *)
(* for bytes of any width: every edge is a step of ByteBus or none.        *)
THEOREM CarriesBytesHolds == SpiSpec => CarriesBytes
<1>1. SpiInit => SpiInv /\ Bus!BusInit
    BY StartsSilent
<1>2. SpiInv /\ [SpiNext]_spiVars => SpiInv' /\ [Bus!BusNext]_<<asked, wire, heard, spi.out>>
    BY StepsCarryBytes
<1>3. SpiSpec => Bus!BusInit /\ [][Bus!BusNext]_<<asked, wire, heard, spi.out>>
    BY <1>1, <1>2, PTL DEF SpiSpec
<1>. QED BY <1>3 DEF CarriesBytes, Bus!BusSpec, Bus!busVars

(* The card is never left with a whole byte unhandled: the bit counter of  *)
(* spiState stays below the width, whatever the program stops at and in    *)
(* whatever order CS, SCK and MOSI move.                                   *)
THEOREM SpiTypesHold == SpiSpec => []SpiTypeOK
<1>1. SpiInit => SpiInv
    BY StartsSilent
<1>2. SpiInv /\ [SpiNext]_spiVars => SpiInv'
    BY StepsCarryBytes
<1>3. SpiInv => SpiTypeOK
    BY DEF SpiInv, Types, SpiTypeOK, SpiType, PortType, Exchanged, Phases
<1>. QED BY <1>1, <1>2, <1>3, PTL DEF SpiSpec

(***************************************************************************)
(* Tick's loop.                                                            *)
(***************************************************************************)
Exhausted == {tick \in TickState : tick.remaining = 0}
NextRound == [tick \in TickState |-> Round(tick)]
Timers == [tick \in TickState |-> tick.timer]

(* Rounds yet to come, at most: the one that finds the prescaler at zero   *)
(* consumes no cycle.                                                      *)
RoundsLeft(tick) == 2 * tick.remaining + IF tick.timer.prescale = 0 THEN 1 ELSE 0

LEMMA TimerConstants ==
    /\ MaxValue \in Nat \ {0}
    /\ \A d \in Dividers : d \in Nat \ {0}
    /\ \A n \in StepCycles : n \in Nat \ {0}
    /\ 0 \notin Dividers
    BY TimerAssumption

LEMMA Reloads ==
    ASSUME NEW t, t.divider \in Dividers \cup {0}
    PROVE  Reload(t) \in Nat \ {0}
    BY TimerConstants DEF Reload

LEMMA CountsDown ==
    ASSUME NEW t \in TimerState
    PROVE  /\ CountDown(t) \in TimerState
           /\ CountDown(t).divider = t.divider
           /\ t.value = 0 => /\ CountDown(t).value = MaxValue
                             /\ CountDown(t).prescale = 1
                             /\ CountDown(t).underflowed = TRUE
           /\ t.value # 0 => /\ CountDown(t).value = t.value - 1
                             /\ CountDown(t).prescale = Reload(t)
                             /\ CountDown(t).underflowed = t.underflowed
<1>1. t.value \in Nat /\ t.value \in 0 .. MaxValue /\ MaxValue \in Nat \ {0}
    BY TimerConstants DEF TimerState
<1>2. Reload(t) \in Nat
    BY Reloads DEF TimerState
<1>3. CASE t.value = 0
  <2>1. CountDown(t) = [t EXCEPT !.underflowed = TRUE, !.value = MaxValue, !.prescale = 1]
      BY <1>3 DEF CountDown
  <2>5. CountDown(t) = [value |-> MaxValue, prescale |-> 1, divider |-> t.divider,
                        underflowed |-> TRUE]
      BY <2>1 DEF TimerState
  <2>6. MaxValue \in 0 .. MaxValue /\ t.divider \in Dividers \cup {0}
      BY <1>1 DEF TimerState
  <2>2. CountDown(t) \in TimerState
      BY <2>5, <2>6 DEF TimerState
  <2>3. CountDown(t).divider = t.divider /\ CountDown(t).underflowed = TRUE
      BY <2>1 DEF TimerState
  <2>4. CountDown(t).value = MaxValue /\ CountDown(t).prescale = 1
      BY <2>1 DEF TimerState
  <2>. QED BY <1>3, <2>2, <2>3, <2>4
<1>4. CASE t.value # 0
  <2>1. CountDown(t) = [t EXCEPT !.value = t.value - 1, !.prescale = Reload(t)]
      BY <1>4 DEF CountDown
  <2>2. t.value - 1 \in 0 .. MaxValue
      BY <1>1, <1>4
  <2>3. CountDown(t) \in TimerState
      BY <1>2, <2>1, <2>2 DEF TimerState
  <2>4. CountDown(t).divider = t.divider /\ CountDown(t).underflowed = t.underflowed
      BY <2>1 DEF TimerState
  <2>5. CountDown(t).value = t.value - 1 /\ CountDown(t).prescale = Reload(t)
      BY <2>1 DEF TimerState
  <2>. QED BY <1>4, <2>3, <2>4, <2>5
<1>. QED BY <1>3, <1>4

(* A round either stops short of a count or exhausts the prescaler.        *)
StopsShort(tick) ==
    /\ tick.timer.prescale > tick.remaining
    /\ Round(tick).remaining = 0
    /\ Round(tick).timer.value = tick.timer.value
    /\ Round(tick).timer.prescale = tick.timer.prescale - tick.remaining
    /\ Round(tick).timer.underflowed = tick.timer.underflowed

Counts(tick) ==
    /\ tick.timer.prescale <= tick.remaining
    /\ Round(tick).remaining = tick.remaining - tick.timer.prescale
    /\ tick.timer.value = 0 =>
           /\ Round(tick).timer.value = MaxValue
           /\ Round(tick).timer.prescale = 1
           /\ Round(tick).timer.underflowed = TRUE
    /\ tick.timer.value # 0 =>
           /\ Round(tick).timer.value = tick.timer.value - 1
           /\ Round(tick).timer.prescale = Reload(tick.timer)
           /\ Round(tick).timer.underflowed = tick.timer.underflowed

LEMMA OneRound ==
    ASSUME NEW tick \in TickState
    PROVE  /\ Round(tick) \in TickState
           /\ Round(tick).timer.divider = tick.timer.divider
           /\ StopsShort(tick) \/ Counts(tick)
<1>. DEFINE t == tick.timer
            step == IF t.prescale < tick.remaining THEN t.prescale ELSE tick.remaining
            left == [t EXCEPT !.prescale = @ - step]
<1>1. t \in TimerState /\ tick.remaining \in Nat
    BY DEF TickState
<1>2. t.prescale \in Nat /\ step \in Nat /\ t.prescale - step \in Nat /\ tick.remaining - step \in Nat
    BY <1>1 DEF TimerState
<1>. HIDE DEF step
<1>3. /\ left \in TimerState
      /\ left.prescale = t.prescale - step
      /\ left.value = t.value /\ left.divider = t.divider
      /\ left.underflowed = t.underflowed
    BY <1>1, <1>2 DEF TimerState
<1>4. Round(tick) = [timer |-> IF left.prescale = 0 THEN CountDown(left) ELSE left,
                     remaining |-> tick.remaining - step]
    BY DEF Round, step
<1>. HIDE DEF left
<1>5. CountDown(left) \in TimerState
    BY <1>3, CountsDown
<1>6. Round(tick) \in TickState
    BY <1>2, <1>3, <1>4, <1>5 DEF TickState
<1>7. CASE t.prescale > tick.remaining
  <2>1. step = tick.remaining /\ left.prescale # 0
      BY <1>1, <1>2, <1>3, <1>7 DEF step
  <2>2. Round(tick) = [timer |-> left, remaining |-> tick.remaining - step]
      BY <1>4, <2>1
  <2>. QED BY <1>1, <1>3, <1>6, <1>7, <2>1, <2>2 DEF StopsShort
<1>8. CASE t.prescale <= tick.remaining
  <2>1. step = t.prescale /\ left.prescale = 0
      BY <1>1, <1>2, <1>3, <1>8 DEF step
  <2>2. Round(tick).timer = CountDown(left) /\ Round(tick).remaining = tick.remaining - t.prescale
      BY <1>4, <2>1
  <2>3. Reload(left) = Reload(t)
      BY <1>3 DEF Reload
  <2>4. CountDown(left).divider = t.divider
      BY <1>3, CountsDown
  <2>5. t.value = 0 => /\ CountDown(left).value = MaxValue
                       /\ CountDown(left).prescale = 1
                       /\ CountDown(left).underflowed = TRUE
      BY <1>3, CountsDown
  <2>6. t.value # 0 => /\ CountDown(left).value = t.value - 1
                       /\ CountDown(left).prescale = Reload(t)
                       /\ CountDown(left).underflowed = t.underflowed
      BY <1>3, <2>3, CountsDown
  <2>. QED BY <1>6, <1>8, <2>2, <2>4, <2>5, <2>6 DEF Counts
<1>9. t.prescale > tick.remaining \/ t.prescale <= tick.remaining
    BY <1>1, <1>2
<1>. QED BY <1>7, <1>8, <1>9, Zenon

LEMMA RoundsEnd ==
    ASSUME NEW tick \in TickState \ Exhausted
    PROVE  /\ RoundsLeft(tick) \in Nat
           /\ RoundsLeft(Round(tick)) < RoundsLeft(tick)
<1>1. /\ tick.remaining \in Nat /\ tick.timer \in TimerState /\ tick.remaining # 0
      /\ tick.timer.prescale \in Nat
    BY DEF TickState, Exhausted, TimerState
<1>2. Reload(tick.timer) \in Nat \ {0}
    BY <1>1, Reloads DEF TimerState
<1>3. PICK p \in Nat, r \in Nat \ {0} : p = tick.timer.prescale /\ r = tick.remaining
    BY <1>1
<1>4. /\ Round(tick).remaining \in Nat
      /\ \/ Round(tick).remaining = 0
         \/ Round(tick).remaining = r - p /\ Round(tick).timer.prescale # 0
  <2>2. Round(tick) \in TickState
      BY OneRound
  <2>3. Round(tick).remaining \in Nat
      BY <2>2 DEF TickState
  <2>4. CASE StopsShort(tick)
      BY <2>3, <2>4, Zenon DEF StopsShort
  <2>5. CASE Counts(tick)
    <3>1. Round(tick).remaining = r - p
        BY <1>3, <2>5, Zenon DEF Counts
    <3>2. Round(tick).timer.prescale = 1 \/ Round(tick).timer.prescale = Reload(tick.timer)
        BY <2>5, Zenon DEF Counts
    <3>. QED BY <2>3, <3>1, <3>2, <1>2
  <2>. QED BY <2>4, <2>5, OneRound
<1>5. CASE Round(tick).remaining = 0
    BY <1>3, <1>5 DEF RoundsLeft
<1>6. CASE Round(tick).remaining = r - p /\ Round(tick).timer.prescale # 0
    BY <1>3, <1>4, <1>6 DEF RoundsLeft
<1>. QED BY <1>1, <1>3, <1>4, <1>5, <1>6 DEF RoundsLeft

LEMMA TickLoopIsLoop ==
    TickLoop = Loop(TickState, Exhausted, NextRound, Timers, TickLoop)
<1>1. NextRound \in [TickState -> TickState] /\ Exhausted \in SUBSET TickState
    BY OneRound DEF NextRound, Exhausted
<1>2. ASSUME NEW f
      PROVE  Loop(TickState, Exhausted, NextRound, Timers, f) =
                 [tick \in TickState |->
                     IF tick.remaining = 0 THEN tick.timer ELSE f[Round(tick)]]
    BY DEF Loop, Exhausted, NextRound, Timers
<1>3. PICK f : f = Loop(TickState, Exhausted, NextRound, Timers, f)
    BY <1>1, TailRecursion
<1>4. f = [tick \in TickState |-> IF tick.remaining = 0 THEN tick.timer ELSE f[Round(tick)]]
    BY <1>2, <1>3
<1>5. TickLoop = [tick \in TickState |->
                     IF tick.remaining = 0 THEN tick.timer ELSE TickLoop[Round(tick)]]
    BY <1>4 DEF TickLoop
<1>. QED BY <1>2, <1>5

(* What every round preserves holds of the timer that Tick leaves.         *)
LEMMA Ticking ==
    ASSUME NEW S \in SUBSET TickState,
           \A tick \in S : tick.remaining # 0 => Round(tick) \in S,
           NEW t, NEW n, [timer |-> t, remaining |-> n] \in S
    PROVE  \E tick \in S : tick.remaining = 0 /\ Ticked(t, n) = tick.timer
<1>. DEFINE m == [tick \in TickState |-> RoundsLeft(tick)]
<1>1. NextRound \in [TickState -> TickState] /\ Exhausted \in SUBSET TickState
    BY OneRound DEF NextRound, Exhausted
<1>2. m \in [TickState -> Nat]
  <2>1. ASSUME NEW tick \in TickState PROVE RoundsLeft(tick) \in Nat
      BY DEF RoundsLeft, TickState
  <2>. QED BY <2>1
<1>3. \A tick \in TickState \ Exhausted : m[NextRound[tick]] < m[tick]
  <2>1. ASSUME NEW tick \in TickState \ Exhausted
        PROVE  /\ NextRound[tick] = Round(tick) /\ Round(tick) \in TickState
               /\ RoundsLeft(Round(tick)) < RoundsLeft(tick)
      BY OneRound, RoundsEnd DEF NextRound
  <2>. QED BY <2>1
<1>4. Closed(Exhausted, NextRound, S)
    BY DEF Closed, Exhausted, NextRound
<1>. HIDE DEF m
<1>5. \E tick \in S \cap Exhausted : TickLoop[[timer |-> t, remaining |-> n]] = Timers[tick]
    BY <1>1, <1>2, <1>3, <1>4, TickLoopIsLoop, LoopEnds
<1>. QED BY <1>5 DEF Exhausted, Timers, Ticked

(***************************************************************************)
(* Counting.                                                               *)
(***************************************************************************)
(* Underflow, for any divider and written value.                           *)
Wrap(k, d, v) == (v + 1) * d + k * (1 + MaxValue * d)

LEMMA Wraps ==
    ASSUME NEW d \in Nat \ {0}, NEW v \in Nat, NEW k \in Nat
    PROVE  /\ Wrap(k, d, v) \in Nat
           /\ Wrap(0, d, v) = v * d + d
           /\ Wrap(k + 1, d, v) = Wrap(k, d, v) + 1 + MaxValue * d
           /\ MaxValue * d \in Nat
           /\ v * d \in Nat
<1>1. PICK c \in Nat : c = MaxValue * d
    BY TimerConstants
<1>2. /\ k * (1 + c) \in Nat
      /\ (k + 1) * (1 + c) = k * (1 + c) + 1 + c
      /\ 0 * (1 + c) = 0
    BY <1>1
<1>3. (v + 1) * d = v * d + d /\ v * d \in Nat
    OBVIOUS
<1>4. \A j : Wrap(j, d, v) = (v + 1) * d + j * (1 + c)
    BY <1>1 DEF Wrap
<1>5. PICK w \in Nat : w = (v + 1) * d
    BY <1>3
<1>6. \A j : Wrap(j, d, v) = w + j * (1 + c)
    BY <1>4, <1>5
<1>7. Wrap(k, d, v) \in Nat /\ Wrap(k + 1, d, v) = Wrap(k, d, v) + 1 + c
    BY <1>2, <1>6
<1>8. Wrap(0, d, v) = w
    BY <1>2, <1>6
<1>. QED BY <1>1, <1>3, <1>5, <1>7, <1>8

LEMMA WrapsInOrder ==
    ASSUME NEW d \in Nat \ {0}, NEW v \in Nat, NEW j \in Nat, NEW k \in Nat, j <= k
    PROVE  /\ Wrap(j, d, v) <= Wrap(k, d, v)
           /\ k < Wrap(k, d, v)
<1>1. PICK c \in Nat : c = MaxValue * d
    BY TimerConstants
<1>2. j * (1 + c) <= k * (1 + c) /\ k <= k * (1 + c)
    BY <1>1
<1>3. PICK w \in Nat \ {0} : w = (v + 1) * d
  <2>1. (v + 1) * d = v * d + d /\ v * d \in Nat
      OBVIOUS
  <2>. QED BY <2>1
<1>4. \A i : Wrap(i, d, v) = w + i * (1 + c)
    BY <1>1, <1>3 DEF Wrap
<1>5. j * (1 + c) \in Nat /\ k * (1 + c) \in Nat
    BY <1>1
<1>. QED BY <1>2, <1>4, <1>5

LEMMA OneCountLess ==
    ASSUME NEW d \in Nat \ {0}, NEW x \in Nat \ {0}
    PROVE  (x - 1) * d + d = x * d /\ x * d \in Nat /\ (x - 1) * d \in Nat
    OBVIOUS

(* After e cycles the count stands before underflow k, and the flag tells  *)
(* whether the one before has been read.                                   *)
Before(t, e, r, d, v, k) ==
    /\ e + t.value * d + t.prescale = Wrap(k, d, v)
    /\ t.underflowed <=> k > 0 /\ r < Wrap(k - 1, d, v)
    /\ k > 0 => Wrap(k - 1, d, v) <= e

OnTime(t, e, r, d, v) ==
    /\ t.prescale \in 1 .. d
    /\ \E k \in Nat : Before(t, e, r, d, v, k)

LEMMA RoundOnTime ==
    ASSUME NEW d \in Dividers, NEW v \in 0 .. MaxValue, NEW e \in Nat, NEW r \in 0 .. e,
           NEW tick \in TickState, tick.timer.divider = d, tick.remaining # 0,
           OnTime(tick.timer, e, r, d, v)
    PROVE  /\ Round(tick).remaining \in 0 .. tick.remaining
           /\ OnTime(Round(tick).timer, e + (tick.remaining - Round(tick).remaining), r, d, v)
<1>. DEFINE t == tick.timer  after == Round(tick).timer  left == Round(tick).remaining
<1>1. /\ d \in Nat \ {0} /\ v \in Nat /\ MaxValue \in Nat \ {0}
      /\ t.value \in Nat /\ t.underflowed \in BOOLEAN /\ tick.remaining \in Nat \ {0}
      /\ t.prescale \in 1 .. d
      /\ Reload(t) = d
    BY TimerConstants DEF TickState, TimerState, OnTime, Reload
<1>2. PICK k \in Nat : Before(t, e, r, d, v, k)
    BY DEF OnTime
<1>3. /\ t.value * d \in Nat
      /\ Wrap(k, d, v) \in Nat
      /\ Wrap(k + 1, d, v) = Wrap(k, d, v) + 1 + MaxValue * d
      /\ MaxValue * d \in Nat
    BY <1>1, Wraps
<1>4. PICK c \in Nat : c = t.value * d
    BY <1>3
<1>5. e + c + t.prescale = Wrap(k, d, v)
    BY <1>2, <1>4 DEF Before
<1>6. CASE StopsShort(tick)
  <2>1. /\ t.prescale > tick.remaining
        /\ left = 0
        /\ after.value = t.value
        /\ after.prescale = t.prescale - tick.remaining
        /\ after.underflowed = t.underflowed
      BY <1>6, Zenon DEF StopsShort
  <2>2. after.prescale \in 1 .. d /\ left \in 0 .. tick.remaining
      BY <1>1, <2>1
  <2>3. PICK f \in Nat : f = e + (tick.remaining - left)
      BY <1>1, <2>1
  <2>4. f + c + after.prescale = Wrap(k, d, v) /\ e <= f
      BY <1>1, <1>3, <1>5, <2>1, <2>3, SMTT(30)
  <2>5. f + after.value * d + after.prescale = Wrap(k, d, v)
      BY <1>4, <2>1, <2>4
  <2>6. after.underflowed <=> k > 0 /\ r < Wrap(k - 1, d, v)
      BY <1>2, <2>1, Zenon DEF Before
  <2>7. ASSUME k > 0 PROVE Wrap(k - 1, d, v) <= f
    <3>1. k - 1 \in Nat
        BY <2>7
    <3>2. Wrap(k - 1, d, v) \in Nat /\ Wrap(k - 1, d, v) <= e
        BY <1>1, <1>2, <2>7, <3>1, Wraps DEF Before
    <3>. QED BY <3>2, <2>4
  <2>8. Before(after, f, r, d, v, k)
      BY <2>5, <2>6, <2>7 DEF Before
  <2>. QED BY <2>2, <2>3, <2>8 DEF OnTime
<1>7. CASE Counts(tick) /\ t.value # 0
  <2>1. /\ t.prescale <= tick.remaining
        /\ left = tick.remaining - t.prescale
        /\ after.value = t.value - 1
        /\ after.prescale = d
        /\ after.underflowed = t.underflowed
      BY <1>1, <1>7, Zenon DEF Counts
  <2>2. after.prescale \in 1 .. d /\ left \in 0 .. tick.remaining
      BY <1>1, <2>1
  <2>3. PICK f \in Nat : f = e + (tick.remaining - left)
      BY <1>1, <2>1
  <2>4. PICK b \in Nat : b = (t.value - 1) * d /\ b + d = c
      BY <1>1, <1>4, <1>7, OneCountLess
  <2>5. f + b + after.prescale = Wrap(k, d, v) /\ e <= f
      BY <1>1, <1>3, <1>5, <2>1, <2>3, <2>4, SMTT(30)
  <2>6. f + after.value * d + after.prescale = Wrap(k, d, v)
      BY <2>1, <2>4, <2>5
  <2>7. after.underflowed <=> k > 0 /\ r < Wrap(k - 1, d, v)
      BY <1>2, <2>1, Zenon DEF Before
  <2>8. ASSUME k > 0 PROVE Wrap(k - 1, d, v) <= f
    <3>1. k - 1 \in Nat
        BY <2>8
    <3>2. Wrap(k - 1, d, v) \in Nat /\ Wrap(k - 1, d, v) <= e
        BY <1>1, <1>2, <2>8, <3>1, Wraps DEF Before
    <3>. QED BY <3>2, <2>5
  <2>9. Before(after, f, r, d, v, k)
      BY <2>6, <2>7, <2>8 DEF Before
  <2>. QED BY <2>2, <2>3, <2>9 DEF OnTime
<1>8. CASE Counts(tick) /\ t.value = 0
  <2>1. /\ t.prescale <= tick.remaining
        /\ left = tick.remaining - t.prescale
        /\ after.value = MaxValue
        /\ after.prescale = 1
        /\ after.underflowed = TRUE
      BY <1>8, Zenon DEF Counts
  <2>2. after.prescale \in 1 .. d /\ left \in 0 .. tick.remaining
      BY <1>1, <2>1
  <2>3. PICK f \in Nat : f = e + (tick.remaining - left)
      BY <1>1, <2>1
  <2>4. c = 0
      BY <1>1, <1>4, <1>8
  <2>5. f = Wrap(k, d, v) /\ e < f
      BY <1>1, <1>3, <1>5, <2>1, <2>3, <2>4
  <2>6. PICK w \in Nat : w = MaxValue * d
      BY <1>3
  <2>7. f + w + after.prescale = Wrap(k + 1, d, v)
      BY <1>3, <2>1, <2>5, <2>6
  <2>8. f + after.value * d + after.prescale = Wrap(k + 1, d, v)
      BY <2>1, <2>6, <2>7
  <2>9. k + 1 \in Nat /\ k + 1 > 0 /\ (k + 1) - 1 = k
      OBVIOUS
  <2>10. r < Wrap(k, d, v) /\ Wrap(k, d, v) <= f
      BY <2>5
  <2>11. Before(after, f, r, d, v, k + 1)
      BY <2>1, <2>8, <2>9, <2>10 DEF Before
  <2>. QED BY <2>2, <2>3, <2>9, <2>11 DEF OnTime
<1>9. StopsShort(tick) \/ Counts(tick)
    BY OneRound
<1>. QED BY <1>6, <1>7, <1>8, <1>9

LEMMA TicksOnTime ==
    ASSUME NEW d \in Dividers, NEW v \in 0 .. MaxValue, NEW e \in Nat, NEW r \in 0 .. e,
           NEW t \in TimerState, t.divider = d, NEW n \in Nat,
           OnTime(t, e, r, d, v)
    PROVE  /\ Ticked(t, n) \in TimerState
           /\ Ticked(t, n).divider = d
           /\ OnTime(Ticked(t, n), e + n, r, d, v)
<1>. DEFINE S == {tick \in TickState :
                     /\ tick.timer.divider = d
                     /\ tick.remaining <= n
                     /\ OnTime(tick.timer, e + (n - tick.remaining), r, d, v)}
<1>1. ASSUME NEW tick \in S, tick.remaining # 0 PROVE Round(tick) \in S
  <2>1. PICK f \in Nat : f = e + (n - tick.remaining)
      BY DEF TickState
  <2>2. tick \in TickState /\ tick.remaining \in Nat /\ tick.remaining <= n /\ r \in 0 .. f
      BY <2>1 DEF TickState
  <2>3. PICK left : left = Round(tick).remaining
      OBVIOUS
  <2>4. /\ left \in 0 .. tick.remaining
        /\ OnTime(Round(tick).timer, f + (tick.remaining - left), r, d, v)
      BY <1>1, <2>1, <2>2, <2>3, RoundOnTime
  <2>5. f + (tick.remaining - left) = e + (n - left) /\ left <= n
      BY <2>1, <2>2, <2>4
  <2>6. Round(tick) \in TickState /\ Round(tick).timer.divider = d
      BY <2>2, OneRound
  <2>. QED BY <2>3, <2>4, <2>5, <2>6
<1>2. [timer |-> t, remaining |-> n] \in S
  <2>1. e + (n - n) = e
      OBVIOUS
  <2>. QED BY <2>1 DEF TickState
<1>. HIDE DEF S
<1>3. PICK tick \in S : tick.remaining = 0 /\ Ticked(t, n) = tick.timer
  <2>1. S \in SUBSET TickState
      BY DEF S
  <2>. QED BY <1>1, <1>2, <2>1, Ticking
<1>4. e + (n - 0) = e + n
    OBVIOUS
<1>5. tick \in TickState /\ tick.timer.divider = d /\ OnTime(tick.timer, e + n, r, d, v)
    BY <1>3, <1>4 DEF S
<1>. QED BY <1>3, <1>5 DEF TickState

(* Written or not, Tick leaves the prescaler unexhausted.                  *)
LEMMA TicksRunning ==
    ASSUME NEW t \in TimerState, t.prescale <= Reload(t), NEW n \in Nat \ {0}
    PROVE  /\ Ticked(t, n) \in TimerState
           /\ Ticked(t, n).divider = t.divider
           /\ Ticked(t, n).prescale \in 1 .. Reload(t)
<1>. DEFINE S == {tick \in TickState :
                     /\ tick.timer.divider = t.divider
                     /\ tick.timer.prescale <= Reload(t)
                     /\ tick.remaining = 0 => tick.timer.prescale # 0}
<1>0. Reload(t) \in Nat \ {0}
    BY Reloads DEF TimerState
<1>1. ASSUME NEW tick \in S, tick.remaining # 0 PROVE Round(tick) \in S
  <2>1. /\ tick \in TickState /\ tick.timer.prescale \in Nat /\ tick.remaining \in Nat
        /\ tick.timer.divider = t.divider
      BY DEF TickState, TimerState
  <2>2. Round(tick) \in TickState /\ Round(tick).timer.divider = t.divider
      BY <2>1, OneRound
  <2>3. Reload(tick.timer) = Reload(t)
      BY <2>1 DEF Reload
  <2>4. CASE StopsShort(tick)
    <3>1. Round(tick).timer.prescale = tick.timer.prescale - tick.remaining
        BY <2>4, Zenon DEF StopsShort
    <3>2. tick.timer.prescale > tick.remaining
        BY <2>4, Zenon DEF StopsShort
    <3>3. PICK p \in Nat : p = Round(tick).timer.prescale /\ p # 0 /\ p <= Reload(t)
        BY <2>1, <3>1, <3>2, <1>0
    <3>. QED BY <2>2, <3>3
  <2>5. CASE Counts(tick)
    <3>1. Round(tick).timer.prescale = 1 \/ Round(tick).timer.prescale = Reload(t)
        BY <2>3, <2>5, Zenon DEF Counts
    <3>. QED BY <2>2, <3>1, <1>0
  <2>. QED BY <2>1, <2>4, <2>5, OneRound
<1>2. [timer |-> t, remaining |-> n] \in S
    BY DEF TickState
<1>. HIDE DEF S
<1>3. PICK tick \in S : tick.remaining = 0 /\ Ticked(t, n) = tick.timer
  <2>1. S \in SUBSET TickState
      BY DEF S
  <2>. QED BY <1>1, <1>2, <2>1, Ticking
<1>4. /\ tick \in TickState /\ tick.timer.divider = t.divider
      /\ tick.timer.prescale <= Reload(t) /\ tick.timer.prescale # 0
    BY <1>3 DEF S
<1>. QED BY <1>0, <1>3, <1>4 DEF TickState, TimerState

(***************************************************************************)
(* The timer's invariant.                                                  *)
(***************************************************************************)
TimerInv ==
    /\ timer \in TimerState
    /\ start \in [divider : Dividers \cup {0}, value : 0 .. MaxValue]
    /\ elapsed \in Nat
    /\ readAt \in 0 .. elapsed
    /\ timer.divider = start.divider
    /\ timer.prescale <= Reload(timer)
    /\ elapsed > 0 => timer.prescale # 0
    /\ IsWritten => OnTime(timer, elapsed, readAt, start.divider, start.value)

LEMMA TimerStarts ==
    ASSUME TimerInit
    PROVE  TimerInv
<1>1. /\ timer = [value |-> 0, prescale |-> 0, divider |-> 0, underflowed |-> FALSE]
      /\ start = [divider |-> 0, value |-> 0] /\ elapsed = 0 /\ readAt = 0
    BY DEF TimerInit
<1>2. 0 \in 0 .. MaxValue /\ Reload(timer) = 1
    BY <1>1, TimerConstants DEF Reload
<1>3. timer \in TimerState /\ start \in [divider : Dividers \cup {0}, value : 0 .. MaxValue]
    BY <1>1, <1>2 DEF TimerState
<1>4. ~IsWritten /\ timer.divider = start.divider /\ timer.prescale <= Reload(timer)
    BY <1>1, <1>2 DEF IsWritten
<1>. QED BY <1>1, <1>3, <1>4 DEF TimerInv

LEMMA TimerIdles ==
    ASSUME TimerInv, UNCHANGED timerVars
    PROVE  TimerInv'
    BY DEF TimerInv, timerVars, IsWritten

LEMMA ReadOnTime ==
    ASSUME NEW t \in TimerState, NEW d \in Nat \ {0}, NEW v \in Nat, NEW e \in Nat, NEW r,
           OnTime(t, e, r, d, v)
    PROVE  /\ AfterRead(t) \in TimerState
           /\ AfterRead(t).divider = t.divider
           /\ AfterRead(t).prescale = t.prescale
           /\ OnTime(AfterRead(t), e, e, d, v)
<1>. DEFINE u == AfterRead(t)
<1>1. /\ u \in TimerState
      /\ u.value = t.value /\ u.prescale = t.prescale /\ u.divider = t.divider
    BY DEF AfterRead, TimerState
<1>2. ~u.underflowed
    BY DEF AfterRead, TimerState
<1>3. PICK k \in Nat : Before(t, e, r, d, v, k)
    BY DEF OnTime
<1>4. ASSUME k > 0 PROVE ~(e < Wrap(k - 1, d, v))
  <2>1. k - 1 \in Nat
      BY <1>4
  <2>2. Wrap(k - 1, d, v) \in Nat /\ Wrap(k - 1, d, v) <= e
      BY <1>3, <1>4, <2>1, Wraps DEF Before
  <2>. QED BY <2>2
<1>5. Before(u, e, e, d, v, k)
    BY <1>1, <1>2, <1>3, <1>4 DEF Before
<1>6. u.prescale \in 1 .. d
    BY <1>1 DEF OnTime
<1>. QED BY <1>1, <1>5, <1>6 DEF OnTime

LEMMA ReadKeepsType ==
    ASSUME NEW t \in TimerState
    PROVE  /\ AfterRead(t) \in TimerState
           /\ AfterRead(t).divider = t.divider
           /\ AfterRead(t).prescale = t.prescale
    BY DEF AfterRead, TimerState

LEMMA WrittenOnTime ==
    ASSUME NEW d \in Dividers, NEW v \in 0 .. MaxValue
    PROVE  /\ Written(d, v) \in TimerState
           /\ Written(d, v).divider = d
           /\ Written(d, v).prescale = Reload(Written(d, v))
           /\ OnTime(Written(d, v), 0, 0, d, v)
<1>1. d \in Nat \ {0} /\ v \in Nat
    BY TimerConstants
<1>2. /\ Written(d, v) \in TimerState
      /\ Written(d, v).value = v /\ Written(d, v).prescale = d
      /\ Written(d, v).divider = d /\ Reload(Written(d, v)) = d
    BY <1>1 DEF Written, TimerState, Reload
<1>3. ~Written(d, v).underflowed
    BY DEF Written
<1>4. 0 + v * d + d = Wrap(0, d, v)
    BY <1>1, Wraps
<1>5. Before(Written(d, v), 0, 0, d, v, 0)
    BY <1>2, <1>3, <1>4 DEF Before
<1>6. Written(d, v).prescale \in 1 .. d
    BY <1>1, <1>2
<1>. QED BY <1>2, <1>5, <1>6 DEF OnTime

(* One Step: whatever the instruction did to the timer, ticking it keeps   *)
(* what the invariant says.                                                *)
LEMMA StepOnTime ==
    ASSUME NEW t \in TimerState, NEW d \in Dividers \cup {0}, NEW v \in 0 .. MaxValue,
           NEW e \in Nat, NEW r \in 0 .. e, NEW n \in StepCycles,
           t.divider = d, t.prescale <= Reload(t),
           d # 0 => OnTime(t, e, r, d, v),
           timer' = Ticked(t, n), start' = [divider |-> d, value |-> v],
           elapsed' = e + n, readAt' = r
    PROVE  TimerInv'
<1>1. n \in Nat \ {0}
    BY TimerConstants
<1>2. /\ timer' \in TimerState
      /\ timer'.divider = d
      /\ timer'.prescale \in 1 .. Reload(t)
    BY <1>1, TicksRunning
<1>3. Reload(timer') = Reload(t) /\ Reload(t) \in Nat
    BY <1>2, Reloads DEF Reload, TimerState
<1>4. ASSUME d # 0 PROVE OnTime(timer', e + n, r, d, v)
    BY <1>1, <1>4, TicksOnTime
<1>5. timer'.prescale <= Reload(timer') /\ timer'.prescale # 0
    BY <1>2, <1>3
<1>6. elapsed' \in Nat /\ readAt' \in 0 .. elapsed'
    BY <1>1
<1>7. /\ start' \in [divider : Dividers \cup {0}, value : 0 .. MaxValue]
      /\ start'.divider = d /\ start'.value = v
    OBVIOUS
<1>8. IsWritten' => OnTime(timer', elapsed', readAt', start'.divider, start'.value)
    BY <1>4, <1>7 DEF IsWritten
<1>. QED BY <1>2, <1>5, <1>6, <1>7, <1>8 DEF TimerInv, Reload

LEMMA TimerSteps ==
    ASSUME TimerInv, TimerNext
    PROVE  TimerInv'
<1>1. PICK d, v : start = [divider |-> d, value |-> v] /\ d \in Dividers \cup {0} /\ v \in 0 .. MaxValue
    BY DEF TimerInv
<1>2. /\ timer \in TimerState /\ timer.divider = d /\ timer.prescale <= Reload(timer)
      /\ elapsed \in Nat /\ readAt \in 0 .. elapsed
      /\ d # 0 => OnTime(timer, elapsed, readAt, d, v)
    BY <1>1 DEF TimerInv, IsWritten
<1>3. PICK n \in StepCycles :
          \/ StepTicks(n)
          \/ \E c \in Dividers, u \in 0 .. MaxValue : StepWrites(c, u, n)
          \/ StepReads(n)
    BY DEF TimerNext
<1>4. CASE StepTicks(n)
  <2>1. timer' = Ticked(timer, n) /\ elapsed' = elapsed + n /\ start' = start /\ readAt' = readAt
      BY <1>4 DEF StepTicks
  <2>. QED BY <1>1, <1>2, <2>1, StepOnTime
<1>5. ASSUME NEW c \in Dividers, NEW u \in 0 .. MaxValue, StepWrites(c, u, n)
      PROVE  TimerInv'
  <2>1. /\ timer' = Ticked(Written(c, u), n) /\ elapsed' = 0 + n
        /\ start' = [divider |-> c, value |-> u] /\ readAt' = 0
      BY <1>5, TimerConstants DEF StepWrites
  <2>2. /\ Written(c, u) \in TimerState /\ Written(c, u).divider = c
        /\ Written(c, u).prescale <= Reload(Written(c, u))
        /\ OnTime(Written(c, u), 0, 0, c, u)
      BY WrittenOnTime, TimerConstants DEF TimerState
  <2>3. 0 \in Nat /\ 0 \in 0 .. 0
      OBVIOUS
  <2>. QED BY <2>1, <2>2, <2>3, StepOnTime
<1>6. CASE StepReads(n)
  <2>1. /\ timer' = Ticked(AfterRead(timer), n) /\ elapsed' = elapsed + n
        /\ start' = start /\ readAt' = elapsed
      BY <1>6 DEF StepReads
  <2>2. /\ AfterRead(timer) \in TimerState /\ AfterRead(timer).divider = d
        /\ AfterRead(timer).prescale <= Reload(AfterRead(timer))
      BY <1>2, ReadKeepsType DEF Reload
  <2>3. d # 0 => OnTime(AfterRead(timer), elapsed, elapsed, d, v)
      BY <1>1, <1>2, ReadOnTime, TimerConstants
  <2>4. elapsed \in 0 .. elapsed
      BY <1>2
  <2>. QED BY <1>1, <1>2, <2>1, <2>2, <2>3, <2>4, StepOnTime
<1>. QED BY <1>3, <1>4, <1>5, <1>6

LEMMA Divides ==
    ASSUME NEW a \in Nat, NEW c \in Nat \ {0}, NEW q \in Nat, NEW s \in Nat,
           s < c, a = q * c + s
    PROVE  a \div c = q /\ a % c = s
    OBVIOUS

LEMMA TimerPromises ==
    ASSUME TimerInv
    PROVE  TimerTypeOK /\ CountsExactly /\ FlagExact
<1>1. TimerTypeOK
  <2>1. timer.prescale \in Nat /\ Reload(timer) \in Nat
      BY Reloads DEF TimerInv, TimerState
  <2>. QED BY <2>1 DEF TimerInv, TimerTypeOK
<1>2. SUFFICES ASSUME IsWritten PROVE CountsExactly /\ FlagExact
    BY <1>1 DEF CountsExactly, FlagExact
<1>3. PICK d \in Nat \ {0}, v \in Nat : d = start.divider /\ v = start.value
    BY <1>2, TimerConstants DEF TimerInv, IsWritten
<1>4. /\ timer.prescale \in 1 .. d
      /\ elapsed \in Nat /\ readAt \in 0 .. elapsed /\ timer.value \in Nat
    BY <1>2, <1>3, TimerConstants DEF TimerInv, OnTime, TimerState
<1>5. PICK k \in Nat : Before(timer, elapsed, readAt, d, v, k)
    BY <1>2, <1>3 DEF TimerInv, OnTime
<1>6. \A j : Underflow(j) = Wrap(j, d, v)
    BY <1>3 DEF Underflow, Wrap
<1>7. PICK c \in Nat : c = timer.value * d
    BY <1>4
<1>8. elapsed + c + timer.prescale = Wrap(k, d, v)
    BY <1>5, <1>7 DEF Before
<1>9. CountsExactly
  <2>1. PICK w \in Nat, x \in Nat, p \in 1 .. d :
            w = Wrap(k, d, v) /\ x = timer.value /\ p = timer.prescale
      BY <1>4, Wraps
  <2>2. PICK left \in Nat : left = w - elapsed /\ left > 0 /\ left - 1 = c + (p - 1)
      BY <1>4, <1>8, <2>1
  <2>3. left - 1 = x * d + (p - 1) /\ p - 1 \in Nat /\ p - 1 < d
      BY <1>7, <2>1, <2>2
  <2>4. (left - 1) \div d = x /\ (left - 1) % d = p - 1
      BY <2>2, <2>3, Divides
  <2>5. p = 1 + ((left - 1) % d)
      BY <2>4
  <2>6. k > 0 => Wrap(k - 1, d, v) <= elapsed
      BY <1>5 DEF Before
  <2>7. k \in 0 .. elapsed
    <3>1. CASE k = 0
        BY <3>1, <1>4
    <3>2. CASE k > 0
      <4>1. PICK i \in Nat : i = k - 1 /\ Wrap(i, d, v) <= elapsed
          BY <3>2, <2>6
      <4>2. i < Wrap(i, d, v) /\ Wrap(i, d, v) \in Nat
          BY Wraps, WrapsInOrder
      <4>. QED BY <4>1, <4>2, <1>4
    <3>. QED BY <3>1, <3>2
  <2>8. /\ Underflow(k) - elapsed = left
        /\ k > 0 => Underflow(k - 1) <= elapsed
      BY <1>6, <2>1, <2>2, <2>6
  <2>. QED BY <1>3, <2>1, <2>2, <2>4, <2>5, <2>7, <2>8 DEF CountsExactly
<1>10. FlagExact
  <2>1. SUFFICES timer.underflowed <=>
                     \E j \in 0 .. elapsed : readAt < Wrap(j, d, v) /\ Wrap(j, d, v) <= elapsed
      BY <1>6, Zenon DEF FlagExact
  <2>2. timer.underflowed <=> k > 0 /\ readAt < Wrap(k - 1, d, v)
      BY <1>5, Zenon DEF Before
  <2>3. ASSUME k > 0, readAt < Wrap(k - 1, d, v)
        PROVE  \E j \in 0 .. elapsed : readAt < Wrap(j, d, v) /\ Wrap(j, d, v) <= elapsed
    <3>1. k - 1 \in Nat /\ Wrap(k - 1, d, v) <= elapsed
        BY <1>5, <2>3 DEF Before
    <3>2. k - 1 <= Wrap(k - 1, d, v) /\ Wrap(k - 1, d, v) \in Nat
        BY <3>1, Wraps, WrapsInOrder
    <3>3. k - 1 \in 0 .. elapsed
        BY <3>1, <3>2, <1>4
    <3>. QED BY <2>3, <3>1, <3>3
  <2>4. ASSUME NEW j \in 0 .. elapsed, readAt < Wrap(j, d, v), Wrap(j, d, v) <= elapsed
        PROVE  k > 0 /\ readAt < Wrap(k - 1, d, v)
    <3>1. j \in Nat /\ Wrap(j, d, v) \in Nat /\ Wrap(k, d, v) \in Nat
      <4>1. j \in Nat
          BY <1>4
      <4>. QED BY <4>1, Wraps
    <3>2. elapsed < Wrap(k, d, v)
        BY <1>4, <1>7, <1>8, <3>1
    <3>3. j < k
      <4>1. SUFFICES ASSUME k <= j PROVE FALSE
          BY <3>1
      <4>2. Wrap(k, d, v) <= Wrap(j, d, v)
          BY <3>1, <4>1, WrapsInOrder
      <4>. QED BY <2>4, <3>1, <3>2, <4>2, <1>4
    <3>4. k - 1 \in Nat /\ j <= k - 1 /\ k > 0
        BY <3>1, <3>3
    <3>5. Wrap(j, d, v) <= Wrap(k - 1, d, v) /\ Wrap(k - 1, d, v) \in Nat
        BY <3>1, <3>4, Wraps, WrapsInOrder
    <3>. QED BY <2>4, <3>1, <3>4, <3>5, <1>4
  <2>. QED BY <2>1, <2>2, <2>3, <2>4, Zenon
<1>. QED BY <1>1, <1>9, <1>10

(* However the cycles are cut into instructions, the count tells how many  *)
(* whole counts of the divider are left before the next underflow, before  *)
(* the first one and after any (timer.go's Tick, with WriteValue's         *)
(* prescaler).                                                             *)
THEOREM TimerCountsExactly == TimerSpec => []CountsExactly
<1>1. TimerInv /\ [TimerNext]_timerVars => TimerInv'
    BY TimerSteps, TimerIdles
<1>. QED BY <1>1, TimerStarts, TimerPromises, PTL DEF TimerSpec

(* The flag register tells of an underflow exactly if there was one since  *)
(* the timer was last written or read: Tick loses none and tells none      *)
(* twice, though it goes round more than one wrap in a call.               *)
THEOREM TimerFlagExact == TimerSpec => []FlagExact
<1>1. TimerInv /\ [TimerNext]_timerVars => TimerInv'
    BY TimerSteps, TimerIdles
<1>. QED BY <1>1, TimerStarts, TimerPromises, PTL DEF TimerSpec

(***************************************************************************)
(* The monitor's scan, as a chain of writes.                               *)
(***************************************************************************)
Writes == {"padd", "sad", "sbd", "show"} \X ({Segments, {}, NoLine, 0, 3} \cup Digits)

Opens(w) == w = <<"padd", Segments>> \/ \E d \in Digits : w = <<"show", d>>
Follows(w, z) ==
    \/ Opens(w) /\ (z = <<"sad", {}>> \/ z = <<"sbd", NoLine>>)
    \/ w = <<"sad", {}>> /\ \E d \in Digits : z = <<"sbd", d>>
    \/ \E d \in Digits : w = <<"sbd", d>> /\ z = <<"show", d>>
    \/ w = <<"sbd", NoLine>> /\ z = <<"padd", {}>>
    \/ w = <<"padd", {}>> /\ z = <<"sbd", 0>>
    \/ w = <<"sbd", 0>> /\ z = <<"sbd", 3>>
    \/ w = <<"sbd", 3>> /\ z = <<"padd", Segments>>

Chain(s) ==
    /\ s \in Seq(Writes)
    /\ Len(s) \in Nat \ {0}
    /\ s[1] = <<"padd", Segments>>
    /\ \A i \in 1 .. Len(s) - 1 : Follows(s[i], s[i + 1])

Joins(S, s, t, u) ==
    /\ u \in Seq(S)
    /\ Len(u) = Len(s) + Len(t)
    /\ \A i \in 1 .. Len(s) : u[i] = s[i]
    /\ \A i \in Nat \ {0} : i <= Len(t) => u[Len(s) + i] = t[i]

LEMMA Joined ==
    ASSUME NEW S, NEW s \in Seq(S), NEW t \in Seq(S)
    PROVE  Joins(S, s, t, s \o t)
    BY ConcatProperties, LenProperties DEF Joins

LEMMA Around ==
    ASSUME NEW n \in Nat \ {0}, NEW i \in 1 .. n
    PROVE  1 + (i % n) = IF i = n THEN 1 ELSE i + 1
    OBVIOUS

LEMMA DigitJoins ==
    ASSUME NEW s, Chain(s), Opens(s[Len(s)]), NEW d
    PROVE  Chain(s \o DigitScan(d)) /\ Opens((s \o DigitScan(d))[Len(s \o DigitScan(d))])
<1>. DEFINE t == DigitScan(d)
<1>1. CASE d \notin Digits
  <2>1. t = <<>>
      BY <1>1 DEF DigitScan
  <2>2. s \o <<>> = s
      BY ConcatEmptySeq DEF Chain
  <2>3. s \o t = s
      BY <2>1, <2>2
  <2>. QED BY <2>3, Zenon
<1>2. CASE d \in Digits
  <2>1. t = << <<"sad", {}>>, <<"sbd", d>>, <<"show", d>> >>
      BY <1>2 DEF DigitScan
  <2>2. <<"sad", {}>> \in Writes /\ <<"sbd", d>> \in Writes /\ <<"show", d>> \in Writes
      BY <1>2 DEF Writes
  <2>3. t \in Seq(Writes) /\ Len(t) = 3
      BY <2>1, <2>2
  <2>4. t[1] = <<"sad", {}>> /\ t[2] = <<"sbd", d>> /\ t[3] = <<"show", d>>
      BY <2>1
  <2>5. s \in Seq(Writes)
      BY DEF Chain
  <2>. HIDE DEF t
  <2>6. PICK u : u = s \o t
      OBVIOUS
  <2>7. PICK n : n = Len(s)
      OBVIOUS
  <2>8. /\ u \in Seq(Writes) /\ n \in Nat \ {0}
        /\ Len(u) = n + 3
        /\ \A i \in 1 .. n : u[i] = s[i]
        /\ u[n + 1] = <<"sad", {}>> /\ u[n + 2] = <<"sbd", d>> /\ u[n + 3] = <<"show", d>>
    <3>3. t \in Seq(Writes)
        BY <2>3
    <3>4. Joins(Writes, s, t, u)
        BY <3>3, <2>5, <2>6, Joined, Zenon
    <3>1. /\ u \in Seq(Writes) /\ n \in Nat \ {0}
          /\ Len(u) = n + 3
          /\ \A i \in 1 .. n : u[i] = s[i]
          /\ \A i \in Nat \ {0} : i <= 3 => u[n + i] = t[i]
        BY <3>4, <2>3, <2>7 DEF Chain, Joins
    <3>2. u[n + 1] = t[1] /\ u[n + 2] = t[2] /\ u[n + 3] = t[3]
        BY <3>1
    <3>. QED BY <2>4, <3>1, <3>2
  <2>9. u[1] = <<"padd", Segments>> /\ Opens(u[n])
      BY <2>7, <2>8 DEF Chain
  <2>10. ASSUME NEW i \in 1 .. Len(u) - 1 PROVE Follows(u[i], u[i + 1])
    <3>1. i \in 1 .. n - 1 \/ i = n \/ i = n + 1 \/ i = n + 2
        BY <2>8
    <3>2. CASE i \in 1 .. n - 1
      <4>1. Follows(s[i], s[i + 1])
          BY <2>7, <3>2 DEF Chain
      <4>2. u[i] = s[i] /\ u[i + 1] = s[i + 1]
          BY <2>8, <3>2
      <4>. QED BY <4>1, <4>2
    <3>3. CASE i = n
        BY <2>8, <2>9, <3>3 DEF Follows
    <3>4. CASE i = n + 1
      <4>1. (n + 1) + 1 = n + 2
          BY <2>8
      <4>. QED BY <2>8, <3>4, <4>1, <1>2 DEF Follows
    <3>5. CASE i = n + 2
      <4>1. (n + 2) + 1 = n + 3
          BY <2>8
      <4>. QED BY <2>8, <3>5, <4>1, <1>2 DEF Follows
    <3>. QED BY <3>1, <3>2, <3>3, <3>4, <3>5
  <2>11. Len(u) \in Nat \ {0}
      BY <2>8
  <2>12. Chain(u) /\ Opens(u[Len(u)])
      BY <2>8, <2>9, <2>10, <2>11, <1>2 DEF Chain, Opens
  <2>. QED BY <2>6, <2>12 DEF t
<1>. QED BY <1>1, <1>2

LEMMA ScanIsChain ==
    /\ Scan \in Seq(Writes) /\ Len(Scan) \in Nat \ {0}
    /\ Scan[1] = <<"padd", Segments>>
    /\ \A i \in 1 .. Len(Scan) : Follows(Scan[i], Scan[1 + (i % Len(Scan))])
<1>. DEFINE s3 == << <<"padd", Segments>> >>
            s4 == s3 \o DigitScan(4)
            s5 == s4 \o DigitScan(5)
            s6 == s5 \o DigitScan(6)
            s7 == s6 \o DigitScan(7)
            s8 == s7 \o DigitScan(8)
            s9 == s8 \o DigitScan(9)
<1>1. Chain(s3) /\ Opens(s3[Len(s3)])
  <2>1. <<"padd", Segments>> \in Writes
      BY DEF Writes
  <2>2. s3 \in Seq(Writes) /\ Len(s3) = 1 /\ s3[1] = <<"padd", Segments>>
      BY <2>1
  <2>. HIDE DEF s3
  <2>. QED BY <2>2 DEF Chain, Opens
<1>2. Chain(s4) /\ Opens(s4[Len(s4)])
  <2>. HIDE DEF s3
  <2>. QED BY <1>1, DigitJoins
<1>3. Chain(s5) /\ Opens(s5[Len(s5)])
  <2>. HIDE DEF s4
  <2>. QED BY <1>2, DigitJoins
<1>4. Chain(s6) /\ Opens(s6[Len(s6)])
  <2>. HIDE DEF s5
  <2>. QED BY <1>3, DigitJoins
<1>5. Chain(s7) /\ Opens(s7[Len(s7)])
  <2>. HIDE DEF s6
  <2>. QED BY <1>4, DigitJoins
<1>6. Chain(s8) /\ Opens(s8[Len(s8)])
  <2>. HIDE DEF s7
  <2>. QED BY <1>5, DigitJoins
<1>7. Chain(s9) /\ Opens(s9[Len(s9)])
  <2>. HIDE DEF s8
  <2>. QED BY <1>6, DigitJoins
<1>8. Scan = s9 \o KeysRead
    BY DEF Scan
<1>. HIDE DEF s9
<1>9. /\ KeysRead \in Seq(Writes) /\ Len(KeysRead) = 4
      /\ KeysRead[1] = <<"sbd", NoLine>> /\ KeysRead[2] = <<"padd", {}>>
      /\ KeysRead[3] = <<"sbd", 0>> /\ KeysRead[4] = <<"sbd", 3>>
  <2>1. /\ <<"sbd", NoLine>> \in Writes /\ <<"padd", {}>> \in Writes
        /\ <<"sbd", 0>> \in Writes /\ <<"sbd", 3>> \in Writes
      BY DEF Writes
  <2>. QED BY <2>1 DEF KeysRead
<1>10. PICK n : n = Len(s9)
    OBVIOUS
<1>11. /\ Scan \in Seq(Writes) /\ n \in Nat \ {0}
       /\ Len(Scan) = n + 4
       /\ \A i \in 1 .. n : Scan[i] = s9[i]
       /\ Scan[n + 1] = <<"sbd", NoLine>> /\ Scan[n + 2] = <<"padd", {}>>
       /\ Scan[n + 3] = <<"sbd", 0>> /\ Scan[n + 4] = <<"sbd", 3>>
  <2>3. KeysRead \in Seq(Writes) /\ s9 \in Seq(Writes)
      BY <1>7, <1>9 DEF Chain
  <2>4. Joins(Writes, s9, KeysRead, Scan)
      BY <2>3, <1>8, Joined, Zenon
  <2>1. /\ Scan \in Seq(Writes) /\ n \in Nat \ {0}
        /\ Len(Scan) = n + 4
        /\ \A i \in 1 .. n : Scan[i] = s9[i]
        /\ \A i \in Nat \ {0} : i <= 4 => Scan[n + i] = KeysRead[i]
      BY <2>4, <1>7, <1>9, <1>10 DEF Chain, Joins
  <2>2. /\ Scan[n + 1] = KeysRead[1] /\ Scan[n + 2] = KeysRead[2]
        /\ Scan[n + 3] = KeysRead[3] /\ Scan[n + 4] = KeysRead[4]
      BY <2>1
  <2>. QED BY <1>9, <2>1, <2>2
<1>12. Scan[1] = <<"padd", Segments>> /\ Opens(Scan[n])
    BY <1>7, <1>10, <1>11 DEF Chain
<1>13. ASSUME NEW i \in 1 .. Len(Scan) PROVE Follows(Scan[i], Scan[1 + (i % Len(Scan))])
  <2>1. i \in 1 .. n - 1 \/ i = n \/ i = n + 1 \/ i = n + 2 \/ i = n + 3 \/ i = n + 4
      BY <1>11
  <2>2. 1 + (i % Len(Scan)) = IF i = n + 4 THEN 1 ELSE i + 1
    <3>1. PICK l \in Nat \ {0} : l = Len(Scan) /\ i \in 1 .. l
        BY <1>11
    <3>2. 1 + (i % l) = IF i = l THEN 1 ELSE i + 1
        BY <3>1, Around
    <3>. QED BY <3>1, <3>2, <1>11
  <2>3. CASE i \in 1 .. n - 1
    <3>1. Follows(s9[i], s9[i + 1])
        BY <1>7, <1>10, <2>3 DEF Chain
    <3>2. Scan[i] = s9[i] /\ Scan[i + 1] = s9[i + 1] /\ i # n + 4
        BY <1>11, <2>3
    <3>. QED BY <2>2, <3>1, <3>2
  <2>4. CASE i = n
      BY <1>11, <1>12, <2>2, <2>4 DEF Follows
  <2>5. CASE i = n + 1
    <3>1. i + 1 = n + 2 /\ i # n + 4
        BY <1>11, <2>5
    <3>. QED BY <1>11, <2>2, <2>5, <3>1 DEF Follows
  <2>6. CASE i = n + 2
    <3>1. i + 1 = n + 3 /\ i # n + 4
        BY <1>11, <2>6
    <3>. QED BY <1>11, <2>2, <2>6, <3>1 DEF Follows
  <2>7. CASE i = n + 3
    <3>1. i + 1 = n + 4 /\ i # n + 4
        BY <1>11, <2>7
    <3>. QED BY <1>11, <2>2, <2>7, <3>1 DEF Follows
  <2>8. CASE i = n + 4
      BY <1>11, <1>12, <2>2, <2>8 DEF Follows
  <2>. QED BY <2>1, <2>3, <2>4, <2>5, <2>6, <2>7, <2>8
<1>. QED BY <1>11, <1>12, <1>13

(***************************************************************************)
(* The ports in the course of a scan.                                      *)
(***************************************************************************)
PinsType == [data : SUBSET Segments, ddr : {{}, Segments}]

(* What the ports are like when the scan comes to write w.                 *)
Ready(w, a, b) ==
    \/ w = <<"padd", Segments>>
    \/ w = <<"sad", {}>> /\ a.ddr = Segments
    \/ \E d \in Digits : w = <<"sbd", d>> /\ a.data = {} /\ a.ddr = Segments
    \/ \E d \in Digits : w = <<"show", d>> /\ a.ddr = Segments /\ b = d
    \/ w = <<"sbd", NoLine>> /\ a.ddr = Segments
    \/ w = <<"padd", {}>> /\ b = NoLine
    \/ w = <<"sbd", 0>> \/ w = <<"sbd", 3>>

(* The ports, and the digits' wanted patterns, before and after w.         *)
Effect(w, a, b, wants, a1, b1) ==
    \/ w[1] = "padd" /\ a1 = WriteDDR(a, w[2]) /\ b1 = b
    \/ w[1] = "sad" /\ a1 = WriteData(a, w[2]) /\ b1 = b
    \/ w[1] = "sbd" /\ a1 = a /\ b1 = w[2]
    \/ w[1] = "show" /\ a1 = WriteData(a, wants[w[2]]) /\ b1 = b

LitBy(a) == a.data \cap a.ddr

LEMMA DigitLines ==
    \A d \in Digits : d \in Nat /\ d >= 4 /\ d <= 9 /\ d \in 0 .. NoLine /\ d # NoLine
    BY PanelAssumption DEF NoLine

LEMMA PortWrites ==
    ASSUME NEW a \in PinsType, NEW x \in SUBSET Segments, NEW y \in {{}, Segments}
    PROVE  /\ WriteData(a, x) \in PinsType /\ WriteDDR(a, y) \in PinsType
           /\ WriteData(a, x).data = x /\ WriteData(a, x).ddr = a.ddr
           /\ WriteDDR(a, y).data = a.data /\ WriteDDR(a, y).ddr = y
           /\ a.data \in SUBSET Segments /\ a.ddr \in {{}, Segments}
    BY DEF WriteData, WriteDDR, PinsType

LEMMA PortsStep ==
    ASSUME NEW a \in PinsType, NEW b \in 0 .. NoLine, NEW w, NEW z,
           NEW wants \in [Digits -> SUBSET Segments], NEW a1, NEW b1,
           Ready(w, a, b), Follows(w, z), Effect(w, a, b, wants, a1, b1),
           a.ddr # Segments => b \notin Digits
    PROVE  /\ a1 \in PinsType /\ b1 \in 0 .. NoLine
           /\ Ready(z, a1, b1)
           /\ a1.ddr # Segments => b1 \notin Digits
           /\ w[1] # "show" /\ b1 \in Digits /\ LitBy(a1) # {} => LitBy(a1) = LitBy(a) /\ b1 = b
           /\ w[1] = "show" => b = w[2] /\ b1 = b /\ b \in Digits /\ LitBy(a1) = wants[b]
<1>0. 0 \in 0 .. NoLine /\ 3 \in 0 .. NoLine /\ NoLine \in 0 .. NoLine
      /\ 0 \notin Digits /\ 3 \notin Digits /\ NoLine \notin Digits
    BY DigitLines DEF NoLine
<1>1. CASE w = <<"padd", Segments>>
  <2>1. a1 = WriteDDR(a, Segments) /\ b1 = b
      BY <1>1 DEF Effect
  <2>2. a1 \in PinsType /\ a1.data = a.data /\ a1.ddr = Segments
      BY <2>1, PortWrites
  <2>3. z = <<"sad", {}>> \/ z = <<"sbd", NoLine>> \/ z = <<"sbd", 0>>
      BY <1>1 DEF Follows, Opens
  <2>4. Ready(z, a1, b1)
      BY <2>2, <2>3 DEF Ready
  <2>5. b1 \in Digits => a.ddr = Segments
      BY <2>1
  <2>6. b1 \in Digits => LitBy(a1) = LitBy(a)
      BY <2>2, <2>5 DEF LitBy
  <2>. QED BY <1>1, <2>1, <2>2, <2>4, <2>5, <2>6
<1>2. CASE w = <<"sad", {}>> /\ a.ddr = Segments
  <2>1. a1 = WriteData(a, {}) /\ b1 = b
      BY <1>2 DEF Effect
  <2>2. a1 \in PinsType /\ a1.data = {} /\ a1.ddr = Segments
      BY <1>2, <2>1, PortWrites
  <2>3. \E d \in Digits : z = <<"sbd", d>>
      BY <1>2 DEF Follows, Opens
  <2>4. Ready(z, a1, b1)
      BY <2>2, <2>3 DEF Ready
  <2>5. LitBy(a1) = {}
      BY <2>2 DEF LitBy
  <2>. QED BY <1>2, <2>1, <2>2, <2>4, <2>5
<1>3. ASSUME NEW d \in Digits, w = <<"sbd", d>>, a.data = {}, a.ddr = Segments
      PROVE  /\ a1 \in PinsType /\ b1 \in 0 .. NoLine
             /\ Ready(z, a1, b1)
             /\ a1.ddr # Segments => b1 \notin Digits
             /\ LitBy(a1) = {}
             /\ w[1] # "show"
  <2>1. a1 = a /\ b1 = d
      BY <1>3 DEF Effect
  <2>2. z = <<"show", d>>
      BY <1>3, <1>0 DEF Follows, Opens
  <2>3. Ready(z, a1, b1)
      BY <1>3, <2>1, <2>2 DEF Ready
  <2>4. LitBy(a1) = {}
      BY <1>3, <2>1 DEF LitBy
  <2>. QED BY <1>3, <2>1, <2>3, <2>4, DigitLines
<1>4. ASSUME NEW d \in Digits, w = <<"show", d>>, a.ddr = Segments, b = d
      PROVE  /\ a1 \in PinsType /\ b1 = b
             /\ Ready(z, a1, b1)
             /\ a1.ddr # Segments => b1 \notin Digits
             /\ w[1] = "show" /\ w[2] = b
             /\ LitBy(a1) = wants[b]
  <2>1. a1 = WriteData(a, wants[d]) /\ b1 = b
      BY <1>4 DEF Effect
  <2>2. a1 \in PinsType /\ a1.data = wants[d] /\ a1.ddr = Segments /\ wants[d] \in SUBSET Segments
      BY <1>4, <2>1, PortWrites
  <2>3. z = <<"sad", {}>> \/ z = <<"sbd", NoLine>>
      BY <1>4 DEF Follows
  <2>4. Ready(z, a1, b1)
      BY <2>2, <2>3 DEF Ready
  <2>5. LitBy(a1) = wants[b]
      BY <1>4, <2>2 DEF LitBy
  <2>. QED BY <1>4, <2>1, <2>2, <2>4, <2>5
<1>5. CASE w = <<"sbd", NoLine>> /\ a.ddr = Segments
  <2>1. a1 = a /\ b1 = NoLine
      BY <1>5 DEF Effect
  <2>2. z = <<"padd", {}>>
      BY <1>5, <1>0 DEF Follows, Opens, NoLine
  <2>3. Ready(z, a1, b1)
      BY <2>1, <2>2 DEF Ready
  <2>. QED BY <1>0, <1>5, <2>1, <2>3
<1>6. CASE w = <<"padd", {}>> /\ b = NoLine
  <2>1. a1 = WriteDDR(a, {}) /\ b1 = NoLine
      BY <1>6 DEF Effect
  <2>2. a1 \in PinsType
      BY <2>1, PortWrites
  <2>3. z = <<"sbd", 0>> \/ z = <<"sad", {}>> \/ z = <<"sbd", NoLine>>
      BY <1>6 DEF Follows, Opens
  <2>4. Segments # {} => z = <<"sbd", 0>>
      BY <1>6 DEF Follows, Opens
  <2>5. a1.ddr = {}
      BY <2>1, PortWrites
  <2>6. Ready(z, a1, b1)
      BY <2>3, <2>4, <2>5 DEF Ready
  <2>. QED BY <1>0, <1>6, <2>1, <2>2, <2>6
<1>7. CASE w = <<"sbd", 0>>
  <2>1. a1 = a /\ b1 = 0
      BY <1>7 DEF Effect
  <2>2. z = <<"sbd", 3>>
      BY <1>7, <1>0 DEF Follows, Opens, NoLine
  <2>3. Ready(z, a1, b1)
      BY <2>2 DEF Ready
  <2>. QED BY <1>0, <1>7, <2>1, <2>3
<1>8. CASE w = <<"sbd", 3>>
  <2>1. a1 = a /\ b1 = 3
      BY <1>8 DEF Effect
  <2>2. z = <<"padd", Segments>>
      BY <1>8, <1>0 DEF Follows, Opens, NoLine
  <2>3. Ready(z, a1, b1)
      BY <2>2 DEF Ready
  <2>. QED BY <1>0, <1>8, <2>1, <2>3
<1>9. \/ w = <<"padd", Segments>>
      \/ w = <<"sad", {}>> /\ a.ddr = Segments
      \/ \E d \in Digits : w = <<"sbd", d>> /\ a.data = {} /\ a.ddr = Segments
      \/ \E d \in Digits : w = <<"show", d>> /\ a.ddr = Segments /\ b = d
      \/ w = <<"sbd", NoLine>> /\ a.ddr = Segments
      \/ w = <<"padd", {}>> /\ b = NoLine
      \/ w = <<"sbd", 0>> \/ w = <<"sbd", 3>>
    BY DEF Ready
<1>10. ASSUME \E d \in Digits : w = <<"show", d>> /\ a.ddr = Segments /\ b = d
       PROVE  b \in Digits
    BY <1>10
<1>. QED BY <1>1, <1>2, <1>3, <1>4, <1>5, <1>6, <1>7, <1>8, <1>9, <1>10

(***************************************************************************)
(* The shadow buffer.                                                      *)
(***************************************************************************)
Age == 0 .. StaleAfterCycles + 1
DigitType == [pattern : SUBSET Segments, age : Age]

LEMMA Aging ==
    ASSUME NEW x \in Age, NEW n \in Nat
    PROVE  /\ Aged(x, n) \in Age
           /\ \A y \in Age : x <= y => Aged(x, n) <= Aged(y, n)
    BY PanelAssumption DEF Aged, Age

(* Every digit shows what was last given to it, for no longer than since   *)
(* it was given and no shorter than since a line drove it.                 *)
PictureKept ==
    \A d \in Digits :
        /\ display[d].pattern = given[d]
        /\ display[d].age <= givenAge[d]
        /\ drivenAge[d] <= display[d].age

BufferTyped ==
    /\ display \in [Digits -> DigitType]
    /\ given \in [Digits -> SUBSET Segments]
    /\ givenAge \in [Digits -> Age]
    /\ drivenAge \in [Digits -> Age]

(* What Instruction does to the buffer, field by field.                    *)
Refreshed(a, b, writes, n) ==
    /\ display' \in [Digits -> DigitType]
    /\ drivenAge' \in [Digits -> Age]
    /\ \A d \in Digits :
          IF writes /\ b = d /\ LitBy(a) # {}
          THEN display'[d].pattern = LitBy(a) /\ display'[d].age = Aged(0, n)
          ELSE /\ display'[d].pattern = display[d].pattern
               /\ display'[d].age = Aged(display[d].age, n)
    /\ \A d \in Digits : drivenAge'[d] =
          IF b = d /\ LitBy(a) # {} THEN 0 ELSE Aged(drivenAge[d], n)

LEMMA InstructionEffect ==
    ASSUME BufferTyped, NEW a \in PinsType, NEW b \in 0 .. NoLine, NEW writes \in BOOLEAN,
           NEW n \in Nat, Instruction(a, b, writes, n)
    PROVE  Refreshed(a, b, writes, n)
<1>1. \A d \in Digits : Decode74145(b) = d <=> b = d
    BY DigitLines DEF Decode74145, NoLine
<1>2. LitBy(a) \in SUBSET Segments
    BY DEF LitBy, PinsType
<1>3. 0 \in Age /\ StaleAfterCycles \in Nat
    BY PanelAssumption DEF Age
<1>. DEFINE latched == IF writes THEN RefreshDisplay(display, a, b) ELSE display
<1>4. /\ latched \in [Digits -> DigitType]
      /\ \A d \in Digits : latched[d] =
             IF writes /\ b = d /\ LitBy(a) # {} THEN [pattern |-> LitBy(a), age |-> 0] ELSE display[d]
  <2>1. CASE writes
    <3>1. latched = [d \in Digits |-> IF Decode74145(b) = d /\ LitBy(a) # {}
                                      THEN [pattern |-> LitBy(a), age |-> 0] ELSE display[d]]
        BY <2>1 DEF RefreshDisplay, LitBy
    <3>. HIDE DEF latched
    <3>2. [pattern |-> LitBy(a), age |-> 0] \in DigitType
        BY <1>2, <1>3 DEF DigitType
    <3>. QED BY <1>1, <2>1, <3>1, <3>2 DEF BufferTyped
  <2>2. CASE ~writes
      BY <2>2 DEF BufferTyped
  <2>. QED BY <2>1, <2>2
<1>5. display' = [d \in Digits |-> [latched[d] EXCEPT !.age = Aged(@, n)]]
    BY DEF Instruction
<1>6. drivenAge' = [d \in Digits |-> IF Decode74145(b) = d /\ LitBy(a) # {} THEN 0
                                     ELSE Aged(drivenAge[d], n)]
    BY DEF Instruction, LitBy
<1>. HIDE DEF latched
<1>7. \A d \in Digits : Aged(latched[d].age, n) \in Age /\ Aged(drivenAge[d], n) \in Age
    BY <1>4, Aging DEF BufferTyped, DigitType
<1>8. \A d \in Digits : [latched[d] EXCEPT !.age = Aged(@, n)] \in DigitType
    BY <1>4, <1>7 DEF DigitType
<1>9. \A d \in Digits : /\ display'[d].pattern = latched[d].pattern
                        /\ display'[d].age = Aged(latched[d].age, n)
    BY <1>4, <1>5 DEF DigitType
<1>10. /\ display' \in [Digits -> DigitType]
       /\ drivenAge' \in [Digits -> Age]
    BY <1>3, <1>5, <1>6, <1>7, <1>8
<1>11. \A d \in Digits : drivenAge'[d] = IF b = d /\ LitBy(a) # {} THEN 0 ELSE Aged(drivenAge[d], n)
    BY <1>1, <1>6
<1>. QED BY <1>4, <1>9, <1>10, <1>11 DEF Refreshed

(* An instruction that gives no digit a new pattern.                       *)
LEMMA NothingGiven ==
    ASSUME BufferTyped, PictureKept, NEW a \in PinsType, NEW b \in 0 .. NoLine,
           NEW writes \in BOOLEAN, NEW n \in Nat, Instruction(a, b, writes, n),
           b \in Digits /\ LitBy(a) # {} => LitBy(a) = given[b],
           given' = given, givenAge' = Older(n)
    PROVE  BufferTyped' /\ PictureKept'
<1>1. \A d \in Digits : /\ display[d] \in DigitType /\ display[d].age \in Age
                        /\ givenAge[d] \in Age /\ drivenAge[d] \in Age
    BY DEF BufferTyped, DigitType
<1>2. /\ givenAge' \in [Digits -> Age]
      /\ \A d \in Digits : givenAge'[d] = Aged(givenAge[d], n)
    BY <1>1, Aging DEF Older
<1>3. BufferTyped'
    BY <1>2, InstructionEffect DEF BufferTyped, Refreshed
<1>4. ASSUME NEW d \in Digits
      PROVE  /\ display'[d].pattern = given'[d]
             /\ display'[d].age <= givenAge'[d]
             /\ drivenAge'[d] <= display'[d].age
  <2>1. 0 \in Age /\ Aged(0, n) <= Aged(givenAge[d], n) /\ 0 <= Aged(0, n) /\ Aged(display[d].age, n) \in Age
    <3>1. 0 \in Age /\ 0 <= givenAge[d]
        BY <1>1, PanelAssumption DEF Age
    <3>2. Aged(0, n) \in Age /\ Aged(display[d].age, n) \in Age
        BY <1>1, <3>1, Aging
    <3>3. Aged(0, n) <= Aged(givenAge[d], n)
        BY <1>1, <3>1, Aging
    <3>. QED BY <3>1, <3>2, <3>3 DEF Age
  <2>2. /\ Aged(display[d].age, n) <= Aged(givenAge[d], n)
        /\ Aged(drivenAge[d], n) <= Aged(display[d].age, n)
      BY <1>1, Aging DEF PictureKept
  <2>3. 0 <= Aged(display[d].age, n)
      BY <2>1 DEF Age
  <2>4. CASE b = d /\ LitBy(a) # {} /\ writes
    <3>1. /\ display'[d].pattern = LitBy(a) /\ display'[d].age = Aged(0, n)
          /\ drivenAge'[d] = 0
        BY <2>4, InstructionEffect, ZenonT(30) DEF Refreshed
    <3>. QED BY <1>2, <2>1, <2>4, <3>1
  <2>5. CASE b = d /\ LitBy(a) # {} /\ ~writes
      BY <1>2, <2>2, <2>3, <2>5, InstructionEffect DEF PictureKept, Refreshed
  <2>6. CASE ~(b = d /\ LitBy(a) # {})
      BY <1>2, <2>2, <2>6, InstructionEffect DEF PictureKept, Refreshed
  <2>. QED BY <2>4, <2>5, <2>6
<1>. QED BY <1>3, <1>4 DEF PictureKept

(* The instruction that writes a digit's pattern.                          *)
LEMMA DigitGiven ==
    ASSUME BufferTyped, PictureKept, NEW a \in PinsType, NEW b \in Digits,
           NEW writes \in BOOLEAN, writes, NEW n \in Nat, Instruction(a, b, writes, n),
           LitBy(a) # {},
           given' = [given EXCEPT ![b] = LitBy(a)],
           givenAge' = [Older(n) EXCEPT ![b] = Aged(0, n)]
    PROVE  BufferTyped' /\ PictureKept'
<1>1. \A d \in Digits : /\ display[d] \in DigitType /\ display[d].age \in Age
                        /\ givenAge[d] \in Age /\ drivenAge[d] \in Age
    BY DEF BufferTyped, DigitType
<1>2. LitBy(a) \in SUBSET Segments /\ b \in 0 .. NoLine
    BY DigitLines DEF LitBy, PinsType
<1>3. 0 \in Age /\ Aged(0, n) \in Age
    BY Aging, PanelAssumption DEF Age
<1>0. Refreshed(a, b, writes, n)
    BY <1>2, InstructionEffect, Zenon
<1>4. /\ givenAge' \in [Digits -> Age]
      /\ \A d \in Digits : givenAge'[d] = IF d = b THEN Aged(0, n) ELSE Aged(givenAge[d], n)
    BY <1>1, <1>3, Aging DEF Older
<1>5. /\ given' \in [Digits -> SUBSET Segments]
      /\ \A d \in Digits : given'[d] = IF d = b THEN LitBy(a) ELSE given[d]
    BY <1>2 DEF BufferTyped
<1>6. BufferTyped'
    BY <1>0, <1>4, <1>5 DEF BufferTyped, Refreshed
<1>7. ASSUME NEW d \in Digits
      PROVE  /\ display'[d].pattern = given'[d]
             /\ display'[d].age <= givenAge'[d]
             /\ drivenAge'[d] <= display'[d].age
  <2>1. CASE d = b
    <3>1. /\ display'[d].pattern = LitBy(a) /\ display'[d].age = Aged(0, n)
          /\ drivenAge'[d] = 0
        BY <1>0, <2>1 DEF Refreshed
    <3>. QED BY <1>3, <1>4, <1>5, <2>1, <3>1 DEF Age
  <2>2. CASE d # b
    <3>1. /\ display'[d].pattern = display[d].pattern
          /\ display'[d].age = Aged(display[d].age, n)
          /\ drivenAge'[d] = Aged(drivenAge[d], n)
        BY <1>0, <2>2 DEF Refreshed
    <3>2. /\ Aged(display[d].age, n) <= Aged(givenAge[d], n)
          /\ Aged(drivenAge[d], n) <= Aged(display[d].age, n)
        BY <1>1, Aging DEF PictureKept
    <3>. QED BY <1>4, <1>5, <2>2, <3>1, <3>2 DEF PictureKept
  <2>. QED BY <2>1, <2>2
<1>. QED BY <1>6, <1>7 DEF PictureKept

(***************************************************************************)
(* The display's invariant.                                                *)
(***************************************************************************)
MonitorType == [runs : {"monitor", "program"}, pc : 1 .. Len(Scan), wants : [Digits -> Patterns]]

DisplayInv ==
    /\ sad \in PinsType
    /\ sbd \in 0 .. NoLine
    /\ monitor \in MonitorType
    /\ BufferTyped
    /\ Ready(Scan[monitor.pc], sad, sbd)
    /\ sad.ddr # Segments => sbd \notin Digits
    /\ sbd \in Digits /\ LitBy(sad) # {} => LitBy(sad) = given[sbd]
    /\ PictureKept

LEMMA DisplayStarts ==
    ASSUME DisplayInit
    PROVE  DisplayInv
<1>1. sad \in PinsType /\ sad.ddr = {} /\ sbd = 0 /\ sbd \in 0 .. NoLine /\ LitBy(sad) = {}
    BY DEF DisplayInit, NewPort, PinsType, NoLine, LitBy
<1>2. sbd \notin Digits
    BY <1>1, DigitLines
<1>3. (CHOOSE p \in Patterns : TRUE) \in Patterns
    BY DisplayAssumption
<1>4. Len(Scan) \in Nat \ {0} /\ Scan[1] = <<"padd", Segments>>
    BY ScanIsChain
<1>5. 1 \in 1 .. Len(Scan)
    BY <1>4
<1>6. monitor \in MonitorType /\ monitor.pc = 1
    BY <1>3, <1>5 DEF DisplayInit, MonitorType
<1>7. Ready(Scan[monitor.pc], sad, sbd)
    BY <1>4, <1>6 DEF Ready
<1>8. 0 \in Age
    BY PanelAssumption DEF Age
<1>9. BufferTyped
  <2>1. display \in [Digits -> DigitType]
      BY <1>8 DEF DisplayInit, NewDigit, DigitType
  <2>2. givenAge \in [Digits -> Age] /\ drivenAge \in [Digits -> Age]
      BY <1>8 DEF DisplayInit
  <2>3. given \in [Digits -> SUBSET Segments]
      BY DEF DisplayInit
  <2>. QED BY <2>1, <2>2, <2>3 DEF BufferTyped
<1>10. PictureKept
    BY DEF DisplayInit, NewDigit, PictureKept
<1>. QED BY <1>1, <1>2, <1>6, <1>7, <1>9, <1>10 DEF DisplayInv

LEMMA DisplayIdles ==
    ASSUME DisplayInv, UNCHANGED displayVars
    PROVE  DisplayInv'
<1>1. UNCHANGED <<sad, sbd, display, monitor, given, givenAge, drivenAge>>
    BY DEF displayVars
<1>2. BufferTyped'
    BY <1>1 DEF DisplayInv, BufferTyped
<1>3. PictureKept'
    BY <1>1 DEF DisplayInv, PictureKept
<1>. QED BY <1>1, <1>2, <1>3 DEF DisplayInv

LEMMA ScanStep ==
    ASSUME DisplayInv, NEW n \in ScanCycles, ScanWrites(n)
    PROVE  DisplayInv'
<1>1. n \in Nat /\ monitor \in MonitorType /\ sad \in PinsType /\ sbd \in 0 .. NoLine
    BY DisplayAssumption DEF DisplayInv
<1>2. PICK w : w = Scan[monitor.pc]
    OBVIOUS
<1>3. PICK a1, b1 : /\ Effect(w, sad, sbd, monitor.wants, a1, b1)
                    /\ Instruction(a1, b1, TRUE, n)
  <2>1. \/ w[1] = "padd" /\ Instruction(WriteDDR(sad, w[2]), sbd, TRUE, n)
        \/ w[1] = "sad" /\ Instruction(WriteData(sad, w[2]), sbd, TRUE, n)
        \/ w[1] = "sbd" /\ Instruction(sad, w[2], TRUE, n)
        \/ w[1] = "show" /\ Instruction(WriteData(sad, monitor.wants[w[2]]), sbd, TRUE, n)
      BY <1>2, Zenon DEF ScanWrites
  <2>. QED BY <2>1, Zenon DEF Effect
<1>4. PICK wants \in [Digits -> SUBSET Segments] : wants = monitor.wants
    BY <1>1, DisplayAssumption DEF MonitorType
<1>5. PICK l \in Nat \ {0} : l = Len(Scan)
    BY ScanIsChain
<1>6. monitor.pc \in 1 .. l /\ monitor' = [monitor EXCEPT !.pc = 1 + (monitor.pc % l)]
    BY <1>1, <1>5 DEF MonitorType, ScanWrites
<1>7. PICK next \in 1 .. l : next = 1 + (monitor.pc % l)
    BY <1>6
<1>8. monitor' \in MonitorType /\ monitor'.pc = next
    BY <1>1, <1>5, <1>6, <1>7 DEF MonitorType
<1>9. PICK z : z = Scan[next]
    OBVIOUS
<1>10. Follows(w, z)
    BY <1>2, <1>5, <1>6, <1>7, <1>9, ScanIsChain
<1>11. Ready(w, sad, sbd) /\ (sad.ddr # Segments => sbd \notin Digits)
    BY <1>2 DEF DisplayInv
<1>12. /\ a1 \in PinsType /\ b1 \in 0 .. NoLine
       /\ Ready(z, a1, b1)
       /\ a1.ddr # Segments => b1 \notin Digits
       /\ w[1] # "show" /\ b1 \in Digits /\ LitBy(a1) # {} => LitBy(a1) = LitBy(sad) /\ b1 = sbd
       /\ w[1] = "show" => sbd = w[2] /\ b1 = sbd /\ sbd \in Digits /\ LitBy(a1) = wants[sbd]
    BY <1>1, <1>3, <1>4, <1>10, <1>11, PortsStep
<1>13. sad' = a1 /\ sbd' = b1
    BY <1>3 DEF Instruction
<1>14. PICK writes \in BOOLEAN : writes /\ Instruction(a1, b1, writes, n)
  <2>1. TRUE \in BOOLEAN /\ TRUE /\ Instruction(a1, b1, TRUE, n)
      BY <1>3, Zenon
  <2>. QED BY <2>1, Zenon
<1>15. BufferTyped /\ PictureKept
    BY DEF DisplayInv
<1>16. CASE w[1] = "show" /\ wants[sbd] # {}
  <2>1. /\ given' = [given EXCEPT ![b1] = LitBy(a1)]
        /\ givenAge' = [Older(n) EXCEPT ![b1] = Aged(0, n)]
        /\ b1 \in Digits /\ LitBy(a1) # {}
      BY <1>2, <1>4, <1>12, <1>16 DEF ScanWrites
  <2>2. BufferTyped' /\ PictureKept'
      BY <1>1, <1>12, <1>14, <1>15, <2>1, DigitGiven
  <2>3. given'[b1] = LitBy(a1)
      BY <1>15, <2>1 DEF BufferTyped
  <2>. QED BY <1>8, <1>9, <1>12, <1>13, <2>2, <2>3 DEF DisplayInv
<1>17. CASE ~(w[1] = "show" /\ wants[sbd] # {})
  <2>1. given' = given /\ givenAge' = Older(n)
      BY <1>2, <1>4, <1>12, <1>17 DEF ScanWrites
  <2>2. b1 \in Digits /\ LitBy(a1) # {} => LitBy(a1) = given[b1]
      BY <1>12, <1>17 DEF DisplayInv
  <2>3. BufferTyped' /\ PictureKept'
      BY <1>1, <1>12, <1>14, <1>15, <2>1, <2>2, NothingGiven
  <2>. QED BY <1>8, <1>9, <1>12, <1>13, <2>1, <2>2, <2>3 DEF DisplayInv
<1>. QED BY <1>16, <1>17

LEMMA AwayStep ==
    ASSUME DisplayInv, NEW n \in ScanCycles, RunsElsewhere(n)
    PROVE  DisplayInv'
<1>1. PICK writes \in BOOLEAN : Instruction(sad, sbd, writes, n)
  <2>1. FALSE \in BOOLEAN /\ Instruction(sad, sbd, FALSE, n)
      BY Zenon DEF RunsElsewhere
  <2>. QED BY <2>1, Zenon
<1>2. /\ n \in Nat /\ sad \in PinsType /\ sbd \in 0 .. NoLine
      /\ BufferTyped /\ PictureKept
      /\ sbd \in Digits /\ LitBy(sad) # {} => LitBy(sad) = given[sbd]
    BY DisplayAssumption DEF DisplayInv
<1>3. UNCHANGED <<sad, sbd, monitor, given>> /\ givenAge' = Older(n)
    BY <1>1 DEF RunsElsewhere, Instruction
<1>4. BufferTyped' /\ PictureKept'
    BY <1>1, <1>2, <1>3, NothingGiven
<1>. QED BY <1>2, <1>3, <1>4 DEF DisplayInv

LEMMA MonitorStep ==
    ASSUME DisplayInv, NEW m \in MonitorType, MonitorBecomes(m),
           Ready(Scan[m.pc], sad, sbd)
    PROVE  DisplayInv'
<1>1. monitor' = m /\ UNCHANGED <<sad, sbd, display, given, givenAge, drivenAge>>
    BY DEF MonitorBecomes
<1>2. BufferTyped'
    BY <1>1 DEF DisplayInv, BufferTyped
<1>3. PictureKept'
    BY <1>1 DEF DisplayInv, PictureKept
<1>. QED BY <1>1, <1>2, <1>3 DEF DisplayInv

LEMMA DisplaySteps ==
    ASSUME DisplayInv, DisplayNext
    PROVE  DisplayInv'
<1>1. monitor \in MonitorType /\ Ready(Scan[monitor.pc], sad, sbd)
    BY DEF DisplayInv
<1>2. 1 \in 1 .. Len(Scan) /\ Ready(Scan[1], sad, sbd)
    BY ScanIsChain DEF Ready
<1>3. ASSUME NEW n \in ScanCycles, ScanWrites(n) PROVE DisplayInv'
    BY <1>3, ScanStep
<1>4. ASSUME NEW n \in ScanCycles, RunsElsewhere(n) PROVE DisplayInv'
    BY <1>4, AwayStep
<1>5. CASE Go
  <2>1. PICK m : m = [monitor EXCEPT !.runs = "program"]
      OBVIOUS
  <2>2. m \in MonitorType /\ m.pc = monitor.pc
      BY <1>1, <2>1 DEF MonitorType
  <2>3. MonitorBecomes(m)
      BY <1>5, <2>1 DEF Go
  <2>. QED BY <1>1, <2>2, <2>3, MonitorStep
<1>6. CASE PressRS
  <2>1. PICK m : m = [monitor EXCEPT !.runs = "monitor", !.pc = 1]
      OBVIOUS
  <2>2. m \in MonitorType /\ m.pc = 1
      BY <1>1, <1>2, <2>1 DEF MonitorType
  <2>3. MonitorBecomes(m)
      BY <1>6, <2>1 DEF PressRS
  <2>. QED BY <1>2, <2>2, <2>3, MonitorStep
<1>7. ASSUME NEW d \in Digits, NEW p \in Patterns, Wants(d, p) PROVE DisplayInv'
  <2>1. PICK m : m = [monitor EXCEPT !.wants[d] = p]
      OBVIOUS
  <2>2. m \in MonitorType /\ m.pc = monitor.pc
      BY <1>1, <2>1 DEF MonitorType
  <2>3. MonitorBecomes(m)
      BY <1>7, <2>1 DEF Wants
  <2>. QED BY <1>1, <2>2, <2>3, MonitorStep
<1>. QED BY <1>3, <1>4, <1>5, <1>6, <1>7 DEF DisplayNext

LEMMA DisplayPromises ==
    ASSUME DisplayInv
    PROVE  DisplayTypeOK /\ PictureTrue
<1>1. BufferTyped /\ PictureKept
    BY DEF DisplayInv
<1>2. DisplayTypeOK
    BY <1>1 DEF DisplayInv, BufferTyped, DisplayTypeOK, DigitType, Age, PinsType, MonitorType
<1>3. ASSUME NEW d \in Digits
      PROVE  /\ Shown(display[d]) \in {{}, given[d]}
             /\ givenAge[d] <= StaleAfterCycles => Shown(display[d]) = given[d]
             /\ drivenAge[d] > StaleAfterCycles => Shown(display[d]) = {}
  <2>1. /\ display[d].age \in Age /\ givenAge[d] \in Age /\ drivenAge[d] \in Age
        /\ StaleAfterCycles \in Nat
      BY <1>1, PanelAssumption DEF BufferTyped, DigitType
  <2>2. /\ display[d].pattern = given[d]
        /\ display[d].age <= givenAge[d]
        /\ drivenAge[d] <= display[d].age
      BY <1>1 DEF PictureKept
  <2>. QED BY <2>1, <2>2 DEF Shown, Age
<1>. QED BY <1>2, <1>3 DEF PictureTrue

(* A browser sees a digit as the monitor meant it or dark, for as long as  *)
(* the staleness allows and no longer (refreshDisplay, Update, Snapshot).  *)
THEOREM PictureHolds == DisplaySpec => []PictureTrue
<1>1. DisplayInv /\ [DisplayNext]_displayVars => DisplayInv'
    BY DisplaySteps, DisplayIdles
<1>. QED BY <1>1, DisplayStarts, DisplayPromises, PTL DEF DisplaySpec

(***************************************************************************)
(* The keypad: what is known of a key while news of it is under way.       *)
(***************************************************************************)
Message == [key : Keys, down : BOOLEAN]
ReleasedAfter(s, i, key) == \E j \in DOMAIN s : j > i /\ s[j] = [key |-> key, down |-> FALSE]
HeldOn(c, key) == \E b \in Browsers : conn[b] = c /\ pointer[b] = {key}

NewsPending ==
    \A c \in Conns : \A i \in DOMAIN underWay[c], key \in Keys \ abandoned :
        underWay[c][i] = [key |-> key, down |-> TRUE] =>
            ReleasedAfter(underWay[c], i, key) \/ HeldOn(c, key)

LostNamed ==
    \A c \in Conns \ Range(conn) : \A m \in Range(underWay[c]) : m.key \in abandoned

HeldOrLeaving ==
    \A key \in pressed \ abandoned :
        UpUnderWay(key) \/ \E c \in Conns : HeldOn(c, key)

PassSound ==
    /\ during.all \subseteq pressed
    /\ pressed \subseteq during.some

KeypadInv ==
    /\ KeypadTypeOK
    /\ NewsPending
    /\ LostNamed
    /\ HeldOrLeaving
    /\ PassSound
    /\ ScanFindsHeld

MessageSeq == Seq(Message)

LEMMA Ranges ==
    ASSUME NEW s \in MessageSeq
    PROVE  /\ DOMAIN s = 1 .. Len(s)
           /\ Len(s) \in Nat
           /\ \A m : m \in Range(s) <=> \E i \in 1 .. Len(s) : m = s[i]
           /\ \A i \in 1 .. Len(s) : s[i] \in Message
    BY RangeEquality, LenProperties, ElementOfSeq DEF MessageSeq

LEMMA Sent ==
    ASSUME NEW s \in MessageSeq, NEW m \in Message
    PROVE  /\ Append(s, m) \in MessageSeq
           /\ Len(Append(s, m)) = Len(s) + 1
           /\ \A i \in 1 .. Len(s) : Append(s, m)[i] = s[i]
           /\ Append(s, m)[Len(s) + 1] = m
    BY AppendProperties DEF MessageSeq

LEMMA Handled ==
    ASSUME NEW s \in MessageSeq, s # <<>>
    PROVE  /\ Tail(s) \in MessageSeq
           /\ Len(s) \in Nat \ {0}
           /\ Len(Tail(s)) = Len(s) - 1
           /\ \A i \in 1 .. Len(s) - 1 : Tail(s)[i] = s[i + 1]
           /\ Head(s) = s[1]
           /\ Head(s) \in Message
    BY HeadTailProperties, EmptySeq DEF MessageSeq

(* What a message sent last adds to the news, and what the oldest takes.   *)
LEMMA SentRange ==
    ASSUME NEW s \in MessageSeq, NEW m \in Message
    PROVE  Range(Append(s, m)) = Range(s) \cup {m}
<1>. DEFINE t == Append(s, m)
<1>1. /\ t \in MessageSeq
      /\ Len(t) = Len(s) + 1
      /\ \A j \in 1 .. Len(s) : t[j] = s[j]
      /\ t[Len(s) + 1] = m
    BY Sent
<1>2. /\ Len(s) \in Nat
      /\ \A x : x \in Range(t) <=> \E i \in 1 .. Len(t) : x = t[i]
      /\ \A x : x \in Range(s) <=> \E i \in 1 .. Len(s) : x = s[i]
    BY <1>1, Ranges
<1>. HIDE DEF t
<1>3. ASSUME NEW x PROVE x \in Range(t) <=> x \in Range(s) \/ x = m
  <2>1. ASSUME x \in Range(t) PROVE x \in Range(s) \/ x = m
      BY <2>1, <1>1, <1>2
  <2>2. ASSUME x \in Range(s) PROVE x \in Range(t)
      BY <2>2, <1>1, <1>2
  <2>3. m \in Range(t)
      BY <1>1, <1>2
  <2>. QED BY <2>1, <2>2, <2>3
<1>. QED BY <1>3 DEF t

LEMMA HandledRange ==
    ASSUME NEW s \in MessageSeq, s # <<>>
    PROVE  /\ Range(s) = Range(Tail(s)) \cup {Head(s)}
           /\ Range(Tail(s)) \subseteq Range(s)
<1>. DEFINE t == Tail(s)  n == Len(s)  h == Head(s)
<1>1. /\ t \in MessageSeq
      /\ n \in Nat \ {0}
      /\ Len(t) = n - 1
      /\ \A i \in 1 .. n - 1 : t[i] = s[i + 1]
      /\ h = s[1]
    BY Handled
<1>2. \A m : m \in Range(t) <=> \E i \in 1 .. Len(t) : m = t[i]
    BY <1>1, Ranges
<1>3. \A m : m \in Range(s) <=> \E i \in 1 .. n : m = s[i]
    BY Ranges
<1>. HIDE DEF t, n, h
<1>4. ASSUME NEW x, x \in Range(s) PROVE x \in Range(t) \/ x = h
  <2>1. PICK i \in 1 .. n : x = s[i]
      BY <1>3, <1>4
  <2>2. CASE i = 1
      BY <2>1, <2>2, <1>1
  <2>3. CASE i # 1
    <3>1. i - 1 \in 1 .. Len(t) /\ t[i - 1] = s[i]
        BY <2>1, <2>3, <1>1
    <3>. QED BY <3>1, <2>1, <1>2
  <2>. QED BY <2>2, <2>3
<1>5. ASSUME NEW x, x \in Range(t) PROVE x \in Range(s)
  <2>1. PICK i \in 1 .. Len(t) : x = t[i]
      BY <1>2, <1>5
  <2>2. i + 1 \in 1 .. n /\ x = s[i + 1]
      BY <2>1, <1>1
  <2>. QED BY <2>2, <1>3
<1>6. h \in Range(s)
    BY <1>1, <1>3
<1>. QED BY <1>4, <1>5, <1>6 DEF t, h

LEMMA SentReleases ==
    ASSUME NEW s \in MessageSeq, NEW m \in Message, NEW i \in 1 .. Len(s), NEW key
    PROVE  ReleasedAfter(Append(s, m), i, key)
               <=> ReleasedAfter(s, i, key) \/ m = [key |-> key, down |-> FALSE]
<1>. DEFINE t == Append(s, m)  up == [key |-> key, down |-> FALSE]
<1>1. /\ t \in MessageSeq
      /\ Len(t) = Len(s) + 1
      /\ \A j \in 1 .. Len(s) : t[j] = s[j]
      /\ t[Len(s) + 1] = m
    BY Sent
<1>2. DOMAIN t = 1 .. Len(s) + 1 /\ DOMAIN s = 1 .. Len(s) /\ Len(s) \in Nat
    BY <1>1, Ranges
<1>. HIDE DEF t, up
<1>3. (\E j \in DOMAIN t : j > i /\ t[j] = up) <=> (\E j \in DOMAIN s : j > i /\ s[j] = up) \/ m = up
  <2>1. ASSUME NEW j \in DOMAIN t, j > i, t[j] = up
        PROVE  (\E l \in DOMAIN s : l > i /\ s[l] = up) \/ m = up
      BY <2>1, <1>1, <1>2
  <2>2. ASSUME NEW j \in DOMAIN s, j > i, s[j] = up PROVE \E l \in DOMAIN t : l > i /\ t[l] = up
      BY <2>2, <1>1, <1>2
  <2>3. ASSUME m = up PROVE \E l \in DOMAIN t : l > i /\ t[l] = up
      BY <2>3, <1>1, <1>2
  <2>. QED BY <2>1, <2>2, <2>3
<1>. QED BY <1>3 DEF t, up, ReleasedAfter

LEMMA HandledReleases ==
    ASSUME NEW s \in MessageSeq, s # <<>>, NEW i \in 1 .. Len(s) - 1, NEW key,
           ReleasedAfter(s, i + 1, key)
    PROVE  ReleasedAfter(Tail(s), i, key)
<1>. DEFINE t == Tail(s)  up == [key |-> key, down |-> FALSE]
<1>1. /\ t \in MessageSeq
      /\ Len(s) \in Nat \ {0}
      /\ Len(t) = Len(s) - 1
      /\ \A j \in 1 .. Len(s) - 1 : t[j] = s[j + 1]
    BY Handled
<1>2. DOMAIN t = 1 .. Len(s) - 1 /\ DOMAIN s = 1 .. Len(s)
    BY <1>1, Ranges
<1>3. PICK j \in DOMAIN s : j > i + 1 /\ s[j] = up
    BY DEF ReleasedAfter
<1>. HIDE DEF t, up
<1>4. j - 1 \in DOMAIN t /\ j - 1 > i /\ t[j - 1] = up
    BY <1>1, <1>2, <1>3
<1>5. \E l \in DOMAIN t : l > i /\ t[l] = up
    BY <1>4
<1>. QED BY <1>5 DEF t, up, ReleasedAfter

(* A release after the oldest message is still under way without it.       *)
LEMMA ReleasedIsUnderWay ==
    ASSUME NEW s \in MessageSeq, s # <<>>, NEW key, ReleasedAfter(s, 1, key)
    PROVE  [key |-> key, down |-> FALSE] \in Range(Tail(s))
<1>. DEFINE t == Tail(s)  up == [key |-> key, down |-> FALSE]
<1>1. /\ t \in MessageSeq
      /\ Len(s) \in Nat \ {0}
      /\ Len(t) = Len(s) - 1
      /\ \A j \in 1 .. Len(s) - 1 : t[j] = s[j + 1]
    BY Handled
<1>2. /\ DOMAIN t = 1 .. Len(s) - 1 /\ DOMAIN s = 1 .. Len(s)
      /\ \A m : m \in Range(t) <=> \E i \in 1 .. Len(t) : m = t[i]
    BY <1>1, Ranges
<1>3. PICK j \in DOMAIN s : j > 1 /\ s[j] = up
    BY DEF ReleasedAfter
<1>. HIDE DEF t, up
<1>4. j - 1 \in 1 .. Len(t) /\ t[j - 1] = up
    BY <1>1, <1>2, <1>3
<1>5. up \in Range(t)
    BY <1>2, <1>4
<1>. QED BY <1>5 DEF t, up

(***************************************************************************)
(* Types.                                                                  *)
(***************************************************************************)
PointerType == {NoKey} \cup {{key} : key \in Keys}
ScanType == [read : 0 .. 3, found : SUBSET (KeyRows \X Segments)]

LEMMA Sending ==
    ASSUME KeypadTypeOK, NEW b \in Browsers, NEW key \in Keys, NEW down \in BOOLEAN,
           SendKey(b, key, down)
    PROVE  /\ underWay' \in [Conns -> MessageSeq]
           /\ \A c \in Conns : underWay'[c] =
                  IF conn[b] = c THEN Append(underWay[c], [key |-> key, down |-> down])
                  ELSE underWay[c]
<1>. DEFINE m == [key |-> key, down |-> down]
<1>1. m \in Message
    BY DEF Message
<1>2. underWay \in [Conns -> MessageSeq]
    BY DEF KeypadTypeOK, MessageSeq, Message
<1>3. MaxConns \in Nat \ {0} /\ conn[b] \in 0 .. accepted /\ accepted \in 0 .. MaxConns
    BY KeypadAssumption DEF KeypadTypeOK
<1>4. conn[b] = 0 \/ conn[b] \in Conns
    BY <1>3 DEF Conns
<1>5. CASE conn[b] = 0
  <2>1. underWay' = underWay
      BY <1>5 DEF SendKey
  <2>2. \A c \in Conns : conn[b] # c
      BY <1>5, <1>3 DEF Conns
  <2>. QED BY <2>1, <2>2, <1>2
<1>6. CASE conn[b] \in Conns
  <2>1. conn[b] # 0
      BY <1>6, <1>3 DEF Conns
  <2>2. underWay' = [underWay EXCEPT ![conn[b]] = Append(@, m)]
      BY <2>1 DEF SendKey
  <2>3. Append(underWay[conn[b]], m) \in MessageSeq
      BY <1>1, <1>2, <1>6, Sent
  <2>. HIDE DEF m
  <2>4. underWay' \in [Conns -> MessageSeq]
      BY <2>2, <2>3, <1>2
  <2>5. \A c \in Conns : underWay'[c] =
            IF conn[b] = c THEN Append(underWay[c], m) ELSE underWay[c]
      BY <2>2, <1>2
  <2>. QED BY <2>4, <2>5 DEF m
<1>. QED BY <1>4, <1>5, <1>6

LEMMA ColumnsTyped ==
    ASSUME NEW row \in KeyRows
    PROVE  ColumnsLow(row) \subseteq KeyRows \X Segments
    BY DEF ColumnsLow

LEMMA RowCount == Cardinality(KeyRows) = 3
<1>1. PICK a \in Int, b \in Int : a = 0 /\ b = 2
    OBVIOUS
<1>2. Cardinality(a .. b) = IF a > b THEN 0 ELSE b - a + 1
    BY FS_Interval
<1>3. KeyRows = a .. b
    BY <1>1, Zenon DEF KeyRows
<1>. QED BY <1>1, <1>2, <1>3

LEMMA KeypadTypesStep ==
    ASSUME KeypadTypeOK, KeypadNext
    PROVE  KeypadTypeOK'
<1>. USE DEF MessageSeq, Message
<1>1. ASSUME NEW b \in Browsers, NEW key \in Keys, Press(b, key)
      PROVE  KeypadTypeOK'
  <2>1. underWay' \in [Conns -> MessageSeq]
      BY <1>1, Sending DEF Press
  <2>2. pointer' \in [Browsers -> PointerType]
      BY <1>1 DEF Press, KeypadTypeOK, PointerType
  <2>. QED BY <1>1, <2>1, <2>2 DEF Press, KeypadTypeOK, PointerType
<1>2. ASSUME NEW b \in Browsers, NEW key \in Keys, Leave(b, key)
      PROVE  KeypadTypeOK'
  <2>1. underWay' \in [Conns -> MessageSeq]
      BY <1>2, Sending DEF Leave
  <2>2. pointer' \in [Browsers -> PointerType]
      BY <1>2 DEF Leave, KeypadTypeOK, PointerType
  <2>. QED BY <1>2, <2>1, <2>2 DEF Leave, KeypadTypeOK, PointerType
<1>3. ASSUME NEW b \in Browsers, Close(b)
      PROVE  KeypadTypeOK'
  <2>1. conn' \in [Browsers -> 0 .. accepted]
      BY <1>3, KeypadAssumption DEF Close, KeypadTypeOK
  <2>2. MaxConns \in Nat \ {0} /\ conn[b] \in 0 .. accepted /\ accepted \in 0 .. MaxConns
      BY KeypadAssumption DEF KeypadTypeOK
  <2>3. conn[b] \in Conns
      BY <1>3, <2>2 DEF Close, Conns
  <2>4. \A m \in Range(underWay[conn[b]]) : m.key \in Keys
    <3>1. underWay[conn[b]] \in MessageSeq
        BY <2>3 DEF KeypadTypeOK
    <3>2. Range(underWay[conn[b]]) \subseteq Message
        BY <3>1, RangeOfSeq
    <3>. QED BY <3>2
  <2>5. pointer[b] \subseteq Keys
    <3>1. pointer[b] \in PointerType
        BY DEF KeypadTypeOK, PointerType
    <3>. QED BY <3>1 DEF PointerType, NoKey
  <2>6. abandoned' \subseteq Keys
      BY <1>3, <2>4, <2>5 DEF Close, KeypadTypeOK
  <2>. QED BY <1>3, <2>1, <2>6 DEF Close, KeypadTypeOK
<1>4. ASSUME NEW b \in Browsers, Connect(b)
      PROVE  KeypadTypeOK'
  <2>1. accepted \in Nat /\ accepted' = accepted + 1 /\ accepted' \in 0 .. MaxConns
      BY <1>4, KeypadAssumption DEF Connect, KeypadTypeOK
  <2>2. conn' \in [Browsers -> 0 .. accepted']
      BY <1>4, <2>1 DEF Connect, KeypadTypeOK
  <2>. QED BY <1>4, <2>1, <2>2 DEF Connect, KeypadTypeOK
<1>5. ASSUME NEW c \in Conns, HandleKey(c)
      PROVE  KeypadTypeOK'
  <2>1. underWay[c] \in MessageSeq /\ underWay[c] # <<>>
      BY <1>5 DEF HandleKey, KeypadTypeOK
  <2>2. Head(underWay[c]) \in Message /\ Tail(underWay[c]) \in MessageSeq
      BY <2>1, Handled
  <2>3. underWay' \in [Conns -> MessageSeq]
      BY <1>5, <2>2 DEF HandleKey, KeypadTypeOK
  <2>4. PICK m \in Message : m = Head(underWay[c])
      BY <2>2
  <2>5. SetPressed(m)
      BY <1>5, <2>4 DEF HandleKey
  <2>6. pressed' \subseteq Keys
      BY <2>5 DEF SetPressed, KeypadTypeOK
  <2>7. during' \in [all : SUBSET Keys, some : SUBSET Keys]
      BY <2>5, <2>6 DEF SetPressed, KeypadTypeOK
  <2>. QED BY <1>5, <2>3, <2>6, <2>7 DEF HandleKey, KeypadTypeOK
<1>6. ASSUME NEW c \in Conns, ReadFails(c)
      PROVE  KeypadTypeOK'
  <2>1. <<>> \in MessageSeq
      BY EmptySeq
  <2>2. underWay' \in [Conns -> MessageSeq]
      BY <1>6, <2>1 DEF ReadFails, KeypadTypeOK
  <2>. QED BY <1>6, <2>2 DEF ReadFails, KeypadTypeOK
<1>7. ASSUME NEW on \in BOOLEAN, SelectTTY(on)
      PROVE  KeypadTypeOK'
    BY <1>7 DEF SelectTTY, KeypadTypeOK
<1>8. ASSUME ScanRow
      PROVE  KeypadTypeOK'
  <2>1. PICK row : row = scan.read % Cardinality(KeyRows)
      OBVIOUS
  <2>2. scan \in ScanType
      BY DEF KeypadTypeOK, ScanType
  <2>3. scan.read \in Nat
      BY <2>2 DEF ScanType
  <2>4. row \in KeyRows
      BY <2>1, <2>3, RowCount DEF KeyRows
  <2>5. scan' = [read |-> row + 1,
                 found |-> (IF row = 0 THEN {} ELSE scan.found) \cup ColumnsLow(row)]
      BY <1>8, <2>1 DEF ScanRow
  <2>6. ColumnsLow(row) \subseteq KeyRows \X Segments
      BY <2>4, ColumnsTyped
  <2>7. row + 1 \in 0 .. 3
      BY <2>4 DEF KeyRows
  <2>8. scan' \in ScanType
      BY <2>2, <2>5, <2>6, <2>7 DEF ScanType
  <2>9. during' \in [all : SUBSET Keys, some : SUBSET Keys]
      BY <1>8 DEF ScanRow, KeypadTypeOK
  <2>. QED BY <1>8, <2>8, <2>9 DEF ScanRow, KeypadTypeOK, ScanType
<1>. QED BY <1>1, <1>2, <1>3, <1>4, <1>5, <1>6, <1>7, <1>8 DEF KeypadNext

(***************************************************************************)
(* No key hangs, one action at a time.                                     *)
(***************************************************************************)
NewsKept == NewsPending /\ LostNamed /\ HeldOrLeaving

LEMMA LiveConns ==
    ASSUME KeypadTypeOK
    PROVE  /\ DOMAIN conn = Browsers
           /\ \A c : c \in Range(conn) <=> \E b \in Browsers : conn[b] = c
           /\ \A b \in Browsers : conn[b] = 0 \/ conn[b] \in Conns
           /\ 0 \notin Conns
           /\ \A c \in Conns : underWay[c] \in MessageSeq
<1>1. conn \in [Browsers -> 0 .. accepted] /\ accepted \in 0 .. MaxConns /\ MaxConns \in Nat
    BY KeypadAssumption DEF KeypadTypeOK
<1>2. \A c \in Conns : underWay[c] \in MessageSeq
    BY DEF KeypadTypeOK, MessageSeq, Message
<1>3. DOMAIN conn = Browsers /\ \A c : c \in Range(conn) <=> \E b \in Browsers : conn[b] = c
    BY <1>1 DEF Range
<1>4. 0 \notin Conns /\ \A b \in Browsers : conn[b] = 0 \/ conn[b] \in Conns
    BY <1>1 DEF Conns
<1>. QED BY <1>2, <1>3, <1>4

(* A browser sends news of a key: the keys held elsewhere stay held, the   *)
(* key is held if it went down and not if it came up.                      *)
LEMMA SendingKeepsNews ==
    ASSUME KeypadTypeOK, KeypadTypeOK', NewsKept, NEW b \in Browsers, NEW key \in Keys,
           NEW down \in BOOLEAN, SendKey(b, key, down),
           UNCHANGED <<pressed, conn, abandoned>>,
           \A a \in Browsers \ {b} : pointer'[a] = pointer[a],
           down => pointer[b] = {} /\ pointer'[b] = {key},
           ~down => pointer[b] \subseteq {key}
    PROVE  NewsKept'
<1>. DEFINE m == [key |-> key, down |-> down]
<1>1. \A c \in Conns : underWay'[c] = IF conn[b] = c THEN Append(underWay[c], m) ELSE underWay[c]
    BY Sending
<1>2. m \in Message /\ m.key = key /\ m.down = down
    BY DEF Message
<1>3. \A c \in Conns : Range(underWay'[c]) =
          IF conn[b] = c THEN Range(underWay[c]) \cup {m} ELSE Range(underWay[c])
  <2>. HIDE DEF m
  <2>1. ASSUME NEW c \in Conns PROVE Range(Append(underWay[c], m)) = Range(underWay[c]) \cup {m}
    <3>1. underWay[c] \in MessageSeq
        BY LiveConns
    <3>. QED BY <3>1, <1>2, SentRange
  <2>. QED BY <2>1, <1>1
<1>4. ASSUME NEW c \in Conns, NEW k, HeldOn(c, k)
      PROVE  HeldOn(c, k)' \/ (conn[b] = c /\ m = [key |-> k, down |-> FALSE])
  <2>1. PICK a \in Browsers : conn[a] = c /\ pointer[a] = {k}
      BY <1>4 DEF HeldOn
  <2>2. CASE a # b
      BY <2>1, <2>2 DEF HeldOn
  <2>3. CASE a = b
    <3>1. ~down
        BY <2>1, <2>3
    <3>2. k = key
        BY <2>1, <2>3, <3>1
    <3>. QED BY <2>1, <2>3, <3>1, <3>2
  <2>. QED BY <2>2, <2>3
<1>5. ASSUME down, conn[b] \in Conns PROVE HeldOn(conn[b], key)'
    BY <1>5 DEF HeldOn
<1>. HIDE DEF m
<1>6. NewsPending'
  <2>1. SUFFICES ASSUME NEW c \in Conns, NEW i \in DOMAIN underWay'[c],
                        NEW k \in Keys \ abandoned,
                        underWay'[c][i] = [key |-> k, down |-> TRUE]
                 PROVE  ReleasedAfter(underWay'[c], i, k) \/ HeldOn(c, k)'
      BY DEF NewsPending
  <2>2. underWay[c] \in MessageSeq
      BY LiveConns
  <2>3. CASE conn[b] # c
    <3>1. underWay'[c] = underWay[c]
        BY <1>1, <2>3
    <3>2. ReleasedAfter(underWay[c], i, k) \/ HeldOn(c, k)
        BY <2>1, <3>1 DEF NewsKept, NewsPending
    <3>. QED BY <3>1, <3>2, <1>4, <2>3
  <2>4. CASE conn[b] = c
    <3>1. underWay'[c] = Append(underWay[c], m)
        BY <1>1, <2>4
    <3>2. /\ Append(underWay[c], m) \in MessageSeq
          /\ Len(Append(underWay[c], m)) = Len(underWay[c]) + 1
          /\ \A j \in 1 .. Len(underWay[c]) : Append(underWay[c], m)[j] = underWay[c][j]
          /\ Append(underWay[c], m)[Len(underWay[c]) + 1] = m
        BY <1>2, <2>2, Sent
    <3>3. /\ i \in 1 .. Len(underWay[c]) + 1
          /\ Len(underWay[c]) \in Nat
          /\ DOMAIN underWay[c] = 1 .. Len(underWay[c])
        BY <3>1, <3>2, <2>2, Ranges
    <3>4. CASE i \in 1 .. Len(underWay[c])
      <4>2. underWay'[c][i] = underWay[c][i]
          BY <3>1, <3>2, <3>4
      <4>3. ReleasedAfter(underWay[c], i, k) \/ HeldOn(c, k)
          BY <2>1, <3>3, <3>4, <4>2 DEF NewsKept, NewsPending
      <4>4. ReleasedAfter(underWay'[c], i, k)
                <=> ReleasedAfter(underWay[c], i, k) \/ m = [key |-> k, down |-> FALSE]
          BY <1>2, <2>2, <3>1, <3>4, SentReleases
      <4>. QED BY <4>3, <4>4, <1>4
    <3>5. CASE i = Len(underWay[c]) + 1
      <4>1. underWay'[c][i] = m
          BY <3>1, <3>2, <3>5
      <4>2. down /\ k = key
          BY <2>1, <4>1, <1>2
      <4>3. HeldOn(c, key)'
          BY <1>5, <4>2, <2>4
      <4>. QED BY <4>2, <4>3
    <3>. QED BY <3>3, <3>4, <3>5
  <2>. QED BY <2>3, <2>4
<1>7. LostNamed'
  <2>1. SUFFICES ASSUME NEW c \in Conns, c \notin Range(conn), NEW x \in Range(underWay'[c])
                 PROVE  x.key \in abandoned
      BY DEF LostNamed
  <2>2. conn[b] # c
      BY <2>1, LiveConns
  <2>3. x \in Range(underWay[c])
      BY <2>1, <2>2, <1>3
  <2>. QED BY <2>1, <2>3 DEF NewsKept, LostNamed
<1>8. HeldOrLeaving'
  <2>1. SUFFICES ASSUME NEW k \in pressed \ abandoned
                 PROVE  UpUnderWay(k)' \/ \E c \in Conns : HeldOn(c, k)'
      BY DEF HeldOrLeaving
  <2>2. UpUnderWay(k) \/ \E c \in Conns : HeldOn(c, k)
      BY <2>1 DEF NewsKept, HeldOrLeaving
  <2>3. CASE UpUnderWay(k)
    <3>1. PICK c \in Conns : [key |-> k, down |-> FALSE] \in Range(underWay[c])
        BY <2>3 DEF UpUnderWay
    <3>2. [key |-> k, down |-> FALSE] \in Range(underWay'[c])
        BY <3>1, <1>3
    <3>. QED BY <3>2 DEF UpUnderWay
  <2>4. ASSUME NEW c \in Conns, HeldOn(c, k) PROVE UpUnderWay(k)' \/ HeldOn(c, k)'
    <3>1. CASE conn[b] = c /\ m = [key |-> k, down |-> FALSE]
      <4>1. [key |-> k, down |-> FALSE] \in Range(underWay'[c])
          BY <3>1, <1>3
      <4>. QED BY <4>1 DEF UpUnderWay
    <3>. QED BY <3>1, <2>4, <1>4
  <2>. QED BY <2>2, <2>3, <2>4
<1>. QED BY <1>6, <1>7, <1>8 DEF NewsKept

(* The oldest message of a connection is handled.                          *)
LEMMA HandlingKeepsNews ==
    ASSUME KeypadTypeOK, NewsKept, NEW c \in Conns, HandleKey(c)
    PROVE  NewsKept'
<1>1. underWay[c] # <<>> /\ underWay[c] \in MessageSeq
    BY LiveConns DEF HandleKey
<1>2. PICK h \in Message : h = Head(underWay[c])
    BY <1>1, Handled
<1>3. SetPressed(h)
    BY <1>2 DEF HandleKey
<1>4. \A d \in Conns : underWay'[d] = IF d = c THEN Tail(underWay[c]) ELSE underWay[d]
    BY DEF HandleKey, KeypadTypeOK
<1>5. UNCHANGED <<conn, pointer, abandoned>>
    BY DEF HandleKey
<1>6. /\ Tail(underWay[c]) \in MessageSeq
      /\ Len(underWay[c]) \in Nat \ {0}
      /\ Len(Tail(underWay[c])) = Len(underWay[c]) - 1
      /\ \A i \in 1 .. Len(underWay[c]) - 1 : Tail(underWay[c])[i] = underWay[c][i + 1]
      /\ h = underWay[c][1]
      /\ DOMAIN underWay[c] = 1 .. Len(underWay[c])
    BY <1>1, <1>2, Handled, Ranges
<1>7. /\ Range(underWay[c]) = Range(Tail(underWay[c])) \cup {h}
      /\ Range(Tail(underWay[c])) \subseteq Range(underWay[c])
    BY <1>1, <1>2, HandledRange
<1>8. \A d \in Conns : \A k : HeldOn(d, k)' <=> HeldOn(d, k)
    BY <1>5 DEF HeldOn
<1>9. NewsPending'
  <2>1. SUFFICES ASSUME NEW d \in Conns, NEW i \in DOMAIN underWay'[d],
                        NEW k \in Keys \ abandoned,
                        underWay'[d][i] = [key |-> k, down |-> TRUE]
                 PROVE  ReleasedAfter(underWay'[d], i, k) \/ HeldOn(d, k)'
      BY <1>5 DEF NewsPending
  <2>2. CASE d # c
    <3>1. underWay'[d] = underWay[d]
        BY <1>4, <2>2
    <3>2. ReleasedAfter(underWay[d], i, k) \/ HeldOn(d, k)
        BY <2>1, <3>1 DEF NewsKept, NewsPending
    <3>. QED BY <3>1, <3>2, <1>8
  <2>3. CASE d = c
    <3>1. underWay'[d] = Tail(underWay[c])
        BY <1>4, <2>3
    <3>2. i \in 1 .. Len(underWay[c]) - 1
        BY <1>6, <2>1, <3>1, Ranges
    <3>4. underWay'[d][i] = underWay[c][i + 1]
        BY <3>1, <3>2, <1>6
    <3>5. i + 1 \in DOMAIN underWay[c]
        BY <3>2, <1>6
    <3>6. ReleasedAfter(underWay[c], i + 1, k) \/ HeldOn(c, k)
        BY <2>1, <3>4, <3>5 DEF NewsKept, NewsPending
    <3>7. ReleasedAfter(underWay[c], i + 1, k) => ReleasedAfter(Tail(underWay[c]), i, k)
        BY <1>1, <3>2, HandledReleases
    <3>. QED BY <3>1, <3>6, <3>7, <1>8, <2>3
  <2>. QED BY <2>2, <2>3
<1>10. LostNamed'
    BY <1>4, <1>5, <1>7 DEF NewsKept, LostNamed
<1>11. HeldOrLeaving'
  <2>1. SUFFICES ASSUME NEW k \in pressed' \ abandoned
                 PROVE  UpUnderWay(k)' \/ \E d \in Conns : HeldOn(d, k)'
      BY <1>5 DEF HeldOrLeaving
  <2>2. CASE h.down /\ k = h.key
    <3>1. 1 \in DOMAIN underWay[c]
        BY <1>6
    <3>2. k \in Keys /\ underWay[c][1] = [key |-> k, down |-> TRUE]
        BY <2>2, <1>6 DEF Message
    <3>4. ReleasedAfter(underWay[c], 1, k) \/ HeldOn(c, k)
        BY <2>1, <3>1, <3>2 DEF NewsKept, NewsPending
    <3>3. CASE ReleasedAfter(underWay[c], 1, k)
      <4>1. [key |-> k, down |-> FALSE] \in Range(Tail(underWay[c]))
          BY <3>3, <1>1, ReleasedIsUnderWay
      <4>. QED BY <4>1, <1>4 DEF UpUnderWay
    <3>. QED BY <3>3, <3>4, <1>8
  <2>3. CASE ~(h.down /\ k = h.key)
    <3>1. k \in pressed /\ ~(k = h.key /\ ~h.down)
        BY <2>1, <2>3, <1>3 DEF SetPressed
    <3>2. UpUnderWay(k) \/ \E d \in Conns : HeldOn(d, k)
        BY <2>1, <3>1 DEF NewsKept, HeldOrLeaving
    <3>3. CASE UpUnderWay(k)
      <4>1. PICK d \in Conns : [key |-> k, down |-> FALSE] \in Range(underWay[d])
          BY <3>3 DEF UpUnderWay
      <4>2. [key |-> k, down |-> FALSE] # h
          BY <2>3, <3>1
      <4>3. [key |-> k, down |-> FALSE] \in Range(underWay'[d])
          BY <4>1, <4>2, <1>4, <1>7
      <4>. QED BY <4>3 DEF UpUnderWay
    <3>. QED BY <3>2, <3>3, <1>8
  <2>. QED BY <2>2, <2>3
<1>. QED BY <1>9, <1>10, <1>11 DEF NewsKept

(* A connection closes: what its browser held, and what was under way on   *)
(* it, counts as abandoned.                                                *)
LEMMA ClosingKeepsNews ==
    ASSUME KeypadTypeOK, NewsKept, NEW b \in Browsers, Close(b)
    PROVE  NewsKept'
<1>1. /\ conn' = [conn EXCEPT ![b] = 0]
      /\ abandoned' = abandoned \cup pointer[b] \cup {m.key : m \in Range(underWay[conn[b]])}
      /\ UNCHANGED <<pressed, pointer, underWay>>
      /\ conn \in [Browsers -> 0 .. accepted]
    BY DEF Close, KeypadTypeOK
<1>2. ASSUME NEW c \in Conns, NEW k, k \notin abandoned', HeldOn(c, k) PROVE HeldOn(c, k)'
  <2>1. PICK a \in Browsers : conn[a] = c /\ pointer[a] = {k}
      BY <1>2 DEF HeldOn
  <2>2. a # b
      BY <1>1, <1>2, <2>1
  <2>. QED BY <1>1, <2>1, <2>2 DEF HeldOn
<1>3. NewsPending'
    BY <1>1, <1>2 DEF NewsKept, NewsPending
<1>4. LostNamed'
  <2>1. SUFFICES ASSUME NEW c \in Conns, c \notin Range(conn'), NEW m \in Range(underWay[c])
                 PROVE  m.key \in abandoned'
      BY <1>1 DEF LostNamed
  <2>2. CASE c = conn[b]
      BY <1>1, <2>1, <2>2
  <2>3. CASE c # conn[b]
    <3>1. \A a \in Browsers : conn[a] = c => conn'[a] = c /\ a \in DOMAIN conn'
        BY <1>1, <2>3
    <3>2. c \notin Range(conn)
        BY <2>1, <3>1, LiveConns DEF Range
    <3>. QED BY <2>1, <3>2, <1>1 DEF NewsKept, LostNamed
  <2>. QED BY <2>2, <2>3
<1>5. HeldOrLeaving'
    BY <1>1, <1>2 DEF NewsKept, HeldOrLeaving, UpUnderWay
<1>. QED BY <1>3, <1>4, <1>5 DEF NewsKept

LEMMA ConnectingKeepsNews ==
    ASSUME KeypadTypeOK, NewsKept, NEW b \in Browsers, Connect(b)
    PROVE  NewsKept'
<1>1. /\ conn[b] = 0
      /\ conn' = [conn EXCEPT ![b] = accepted']
      /\ UNCHANGED <<pressed, pointer, underWay, abandoned>>
      /\ conn \in [Browsers -> 0 .. accepted]
      /\ DOMAIN conn' = Browsers
    BY DEF Connect, KeypadTypeOK
<1>2. \A a \in Browsers, c \in Conns : conn[a] = c => conn'[a] = c
    BY <1>1, LiveConns
<1>3. \A c \in Conns : \A k : HeldOn(c, k) => HeldOn(c, k)'
    BY <1>1, <1>2 DEF HeldOn
<1>4. \A c \in Conns : c \in Range(conn) => c \in Range(conn')
    BY <1>1, <1>2, LiveConns DEF Range
<1>5. NewsPending'
    BY <1>1, <1>3 DEF NewsKept, NewsPending
<1>6. LostNamed'
    BY <1>1, <1>4 DEF NewsKept, LostNamed
<1>7. HeldOrLeaving'
    BY <1>1, <1>3 DEF NewsKept, HeldOrLeaving, UpUnderWay
<1>. QED BY <1>5, <1>6, <1>7 DEF NewsKept

(* A handler returns: only the news of a closed connection is lost.        *)
LEMMA FailingKeepsNews ==
    ASSUME KeypadTypeOK, NewsKept, NEW c \in Conns, ReadFails(c)
    PROVE  NewsKept'
<1>1. /\ c \notin Range(conn)
      /\ \A d \in Conns : underWay'[d] = IF d = c THEN <<>> ELSE underWay[d]
      /\ UNCHANGED <<pressed, pointer, conn, abandoned>>
    BY DEF ReadFails, KeypadTypeOK
<1>2. Range(<<>>) = {} /\ DOMAIN <<>> = {}
    BY DEF Range
<1>3. \A d \in Conns : \A k : HeldOn(d, k)' <=> HeldOn(d, k)
    BY <1>1 DEF HeldOn
<1>4. NewsPending'
    BY <1>1, <1>2, <1>3 DEF NewsKept, NewsPending
<1>5. LostNamed'
    BY <1>1, <1>2 DEF NewsKept, LostNamed
<1>6. HeldOrLeaving'
  <2>1. SUFFICES ASSUME NEW k \in pressed \ abandoned
                 PROVE  UpUnderWay(k)' \/ \E d \in Conns : HeldOn(d, k)'
      BY <1>1 DEF HeldOrLeaving
  <2>2. CASE UpUnderWay(k)
    <3>1. PICK d \in Conns : [key |-> k, down |-> FALSE] \in Range(underWay[d])
        BY <2>2 DEF UpUnderWay
    <3>2. d # c
        BY <1>1, <2>1, <3>1 DEF NewsKept, LostNamed
    <3>. QED BY <1>1, <3>1, <3>2 DEF UpUnderWay
  <2>. QED BY <2>1, <2>2, <1>3 DEF NewsKept, HeldOrLeaving
<1>. QED BY <1>4, <1>5, <1>6 DEF NewsKept

(***************************************************************************)
(* What the scan finds.                                                    *)
(***************************************************************************)
LEMMA ColumnsOfRow ==
    ASSUME KeypadTypeOK, NEW row \in KeyRows
    PROVE  ColumnsLow(row) = {key \in pressed : key[1] = row}
<1>1. KeypadColumnInput(pressed, row, ttySelect) = ColumnBits(pressed, row)
    BY DEF KeypadColumnInput, Decode74145, KeyRows
<1>2. ReadPort(NewPort, ColumnBits(pressed, row)) = ColumnBits(pressed, row)
    BY DEF ReadPort, NewPort
<1>3. ColumnsLow(row) = {row} \X (Segments \ ColumnBits(pressed, row))
    BY <1>1, <1>2 DEF ColumnsLow
<1>4. Segments \ ColumnBits(pressed, row) = {c \in Segments : <<row, c>> \in pressed}
    BY DEF ColumnBits
<1>5. pressed \subseteq KeyRows \X Segments
    BY KeypadAssumption DEF KeypadTypeOK
<1>6. {row} \X {c \in Segments : <<row, c>> \in pressed} = {key \in pressed : key[1] = row}
    BY <1>5
<1>. QED BY <1>3, <1>4, <1>6

LEMMA MatrixChange ==
    ASSUME PassSound, ScanFindsHeld, NEW m \in Message, SetPressed(m), UNCHANGED scan
    PROVE  PassSound' /\ ScanFindsHeld'
<1>1. /\ during'.all = during.all \cap pressed'
      /\ during'.some = during.some \cup pressed'
    BY DEF SetPressed
<1>2. PassSound'
    BY <1>1 DEF PassSound
<1>3. ScanFindsHeld'
    BY <1>1 DEF ScanFindsHeld
<1>. QED BY <1>2, <1>3

LEMMA RowRead ==
    ASSUME KeypadTypeOK, PassSound, ScanFindsHeld, ScanRow
    PROVE  PassSound' /\ ScanFindsHeld'
<1>1. PICK row : row = scan.read % Cardinality(KeyRows)
    OBVIOUS
<1>2. scan \in ScanType
    BY DEF KeypadTypeOK, ScanType
<1>3. scan.read \in 0 .. 3
    BY <1>2 DEF ScanType
<1>4. row \in KeyRows /\ (row # 0 => row = scan.read)
    BY <1>1, <1>3, RowCount DEF KeyRows
<1>5. /\ scan'.read = row + 1
      /\ scan'.found = (IF row = 0 THEN {} ELSE scan.found) \cup {key \in pressed : key[1] = row}
      /\ pressed' = pressed
    BY <1>1, <1>4, ColumnsOfRow DEF ScanRow
<1>6. \A key \in pressed : key[1] \in KeyRows
    BY KeypadAssumption DEF KeypadTypeOK
<1>7. CASE row = 0
  <2>1. during'.all = pressed /\ during'.some = pressed
      BY <1>1, <1>7 DEF ScanRow
  <2>2. \A key \in pressed : key[1] < row + 1 => key[1] = row
      BY <1>6, <1>7 DEF KeyRows
  <2>. QED BY <2>1, <2>2, <1>5, <1>7 DEF PassSound, ScanFindsHeld
<1>8. CASE row # 0
  <2>1. during' = during
      BY <1>1, <1>8 DEF ScanRow
  <2>2. \A key \in pressed : key[1] < row + 1 => key[1] < scan.read \/ key[1] = row
      BY <1>4, <1>6, <1>8 DEF KeyRows
  <2>3. PassSound'
      BY <2>1, <1>5 DEF PassSound
  <2>4. ASSUME NEW key \in during.all, key[1] < row + 1 PROVE key \in scan'.found
      BY <2>2, <2>4, <1>5, <1>8 DEF PassSound, ScanFindsHeld
  <2>5. scan'.found \subseteq during.some
      BY <1>5, <1>8 DEF PassSound, ScanFindsHeld
  <2>. QED BY <2>1, <2>3, <2>4, <2>5, <1>5 DEF ScanFindsHeld
<1>. QED BY <1>7, <1>8

(***************************************************************************)
(* The keypad's invariant.                                                 *)
(***************************************************************************)
LEMMA KeypadStarts ==
    ASSUME KeypadInit
    PROVE  KeypadInv
<1>1. MaxConns \in Nat
    BY KeypadAssumption
<1>2. <<>> \in Seq([key : Keys, down : BOOLEAN])
    BY EmptySeq
<1>3. KeypadTypeOK
  <2>1. pointer \in [Browsers -> {NoKey} \cup {{key} : key \in Keys}]
      BY DEF KeypadInit
  <2>2. conn \in [Browsers -> 0 .. accepted] /\ accepted \in 0 .. MaxConns
      BY <1>1 DEF KeypadInit
  <2>3. underWay \in [Conns -> Seq([key : Keys, down : BOOLEAN])]
      BY <1>2 DEF KeypadInit
  <2>4. /\ scan \in [read : 0 .. 3, found : SUBSET (KeyRows \X Segments)]
        /\ during \in [all : SUBSET Keys, some : SUBSET Keys]
      BY DEF KeypadInit
  <2>. QED BY <2>1, <2>2, <2>3, <2>4 DEF KeypadInit, KeypadTypeOK
<1>4. \A c \in Conns : underWay[c] = <<>> /\ Range(<<>>) = {} /\ DOMAIN <<>> = {}
    BY DEF KeypadInit, Range
<1>5. NewsKept
    BY <1>4 DEF KeypadInit, NewsKept, NewsPending, LostNamed, HeldOrLeaving
<1>6. PassSound /\ ScanFindsHeld
    BY DEF KeypadInit, PassSound, ScanFindsHeld
<1>. QED BY <1>3, <1>5, <1>6 DEF KeypadInv, NewsKept

LEMMA KeypadIdles ==
    ASSUME KeypadInv, UNCHANGED keypadVars
    PROVE  KeypadInv'
<1>1. UNCHANGED <<pressed, ttySelect, pointer, conn, accepted, underWay, scan, during, abandoned>>
    BY DEF keypadVars
<1>2. KeypadTypeOK'
    BY <1>1 DEF KeypadInv, KeypadTypeOK
<1>3. NewsPending' /\ LostNamed' /\ HeldOrLeaving'
    BY <1>1 DEF KeypadInv, NewsPending, LostNamed, HeldOrLeaving, HeldOn, UpUnderWay
<1>4. PassSound' /\ ScanFindsHeld'
    BY <1>1 DEF KeypadInv, PassSound, ScanFindsHeld
<1>. QED BY <1>2, <1>3, <1>4 DEF KeypadInv

LEMMA KeypadSteps ==
    ASSUME KeypadInv, KeypadNext
    PROVE  KeypadInv'
<1>1. /\ KeypadTypeOK /\ NewsKept /\ PassSound /\ ScanFindsHeld
      /\ KeypadTypeOK'
    BY KeypadTypesStep DEF KeypadInv, NewsKept
<1>2. SUFFICES NewsKept' /\ PassSound' /\ ScanFindsHeld'
    BY <1>1 DEF KeypadInv, NewsKept
<1>3. ASSUME UNCHANGED <<pressed, scan, during>> PROVE PassSound' /\ ScanFindsHeld'
    BY <1>1, <1>3 DEF PassSound, ScanFindsHeld
<1>4. ASSUME UNCHANGED <<pressed, pointer, conn, underWay, abandoned>> PROVE NewsKept'
  <2>1. NewsPending' /\ LostNamed' /\ HeldOrLeaving'
      BY <1>1, <1>4 DEF NewsKept, NewsPending, LostNamed, HeldOrLeaving, HeldOn, UpUnderWay
  <2>. QED BY <2>1 DEF NewsKept
<1>5. ASSUME NEW b \in Browsers, NEW key \in Keys, Press(b, key)
      PROVE  NewsKept' /\ PassSound' /\ ScanFindsHeld'
  <2>1. /\ SendKey(b, key, TRUE)
        /\ UNCHANGED <<pressed, conn, abandoned, scan, during>>
        /\ pointer[b] = {} /\ pointer'[b] = {key}
        /\ \A a \in Browsers \ {b} : pointer'[a] = pointer[a]
      BY <1>1, <1>5 DEF Press, NoKey, KeypadTypeOK
  <2>2. NewsKept'
      BY <2>1, <1>1, SendingKeepsNews
  <2>. QED BY <2>1, <2>2, <1>3
<1>6. ASSUME NEW b \in Browsers, NEW key \in Keys, Leave(b, key)
      PROVE  NewsKept' /\ PassSound' /\ ScanFindsHeld'
  <2>1. /\ SendKey(b, key, FALSE)
        /\ UNCHANGED <<pressed, conn, abandoned, scan, during>>
        /\ pointer[b] \subseteq {key}
        /\ \A a \in Browsers \ {b} : pointer'[a] = pointer[a]
      BY <1>1, <1>6 DEF Leave, KeypadTypeOK
  <2>2. NewsKept'
      BY <2>1, <1>1, SendingKeepsNews
  <2>. QED BY <2>1, <2>2, <1>3
<1>7. ASSUME NEW b \in Browsers, Close(b)
      PROVE  NewsKept' /\ PassSound' /\ ScanFindsHeld'
  <2>1. UNCHANGED <<pressed, scan, during>>
      BY <1>7 DEF Close
  <2>. QED BY <2>1, <1>1, <1>3, <1>7, ClosingKeepsNews
<1>8. ASSUME NEW b \in Browsers, Connect(b)
      PROVE  NewsKept' /\ PassSound' /\ ScanFindsHeld'
  <2>1. UNCHANGED <<pressed, scan, during>>
      BY <1>8 DEF Connect
  <2>. QED BY <2>1, <1>1, <1>3, <1>8, ConnectingKeepsNews
<1>9. ASSUME NEW c \in Conns, HandleKey(c)
      PROVE  NewsKept' /\ PassSound' /\ ScanFindsHeld'
  <2>1. PICK m \in Message : m = Head(underWay[c])
    <3>1. underWay[c] # <<>> /\ underWay[c] \in MessageSeq
        BY <1>1, <1>9, LiveConns DEF HandleKey
    <3>. QED BY <3>1, Handled
  <2>2. SetPressed(m) /\ UNCHANGED scan
      BY <2>1, <1>9 DEF HandleKey
  <2>3. PassSound' /\ ScanFindsHeld'
      BY <2>2, <1>1, MatrixChange
  <2>. QED BY <2>3, <1>1, <1>9, HandlingKeepsNews
<1>10. ASSUME NEW c \in Conns, ReadFails(c)
       PROVE  NewsKept' /\ PassSound' /\ ScanFindsHeld'
  <2>1. UNCHANGED <<pressed, scan, during>>
      BY <1>10 DEF ReadFails
  <2>. QED BY <2>1, <1>1, <1>3, <1>10, FailingKeepsNews
<1>11. ASSUME NEW on \in BOOLEAN, SelectTTY(on)
       PROVE  NewsKept' /\ PassSound' /\ ScanFindsHeld'
    BY <1>3, <1>4, <1>11 DEF SelectTTY
<1>12. ASSUME ScanRow
       PROVE  NewsKept' /\ PassSound' /\ ScanFindsHeld'
  <2>1. UNCHANGED <<pressed, pointer, conn, underWay, abandoned>>
      BY <1>12 DEF ScanRow
  <2>. QED BY <2>1, <1>1, <1>4, <1>12, RowRead
<1>. QED BY <1>5, <1>6, <1>7, <1>8, <1>9, <1>10, <1>11, <1>12 DEF KeypadNext

LEMMA KeypadPromises ==
    ASSUME KeypadInv
    PROVE  NoKeyHangs
    BY DEF KeypadInv, HeldOrLeaving, HeldOn, NoKeyHangs

(* No key stays down in the matrix that no browser holds and no release is *)
(* under way for, but for what a closed connection left (handleWS, the     *)
(* page's press, release and leave handlers).                              *)
THEOREM KeysComeUp == KeypadSpec => []NoKeyHangs
<1>1. KeypadInv /\ [KeypadNext]_keypadVars => KeypadInv'
    BY KeypadSteps, KeypadIdles
<1>. QED BY <1>1, KeypadStarts, KeypadPromises, PTL DEF KeypadSpec

(* The monitor's pass finds what is held through it and nothing that was   *)
(* up all the time (keypadColumnInput, ColumnBits).                        *)
THEOREM ScanHolds == KeypadSpec => []ScanFindsHeld
<1>1. KeypadInv /\ [KeypadNext]_keypadVars => KeypadInv'
    BY KeypadSteps, KeypadIdles
<1>2. KeypadInv => ScanFindsHeld
    BY DEF KeypadInv
<1>. QED BY <1>1, <1>2, KeypadStarts, PTL DEF KeypadSpec

(***************************************************************************)
(* The four devices, of which a behaviour exercises one.                   *)
(***************************************************************************)
DevicesInv == TimerInv /\ SpiInv /\ DisplayInv /\ KeypadInv

LEMMA DevicesKeepInv ==
    ASSUME DevicesInv, [Next]_<<bench, timerVars, spiVars, displayVars, keypadVars>>
    PROVE  DevicesInv'
<1>1. TimerInv /\ [TimerNext]_timerVars => TimerInv'
    BY TimerSteps, TimerIdles
<1>2. SpiInv /\ [SpiNext]_spiVars => SpiInv'
    BY StepsCarryBytes
<1>3. DisplayInv /\ [DisplayNext]_displayVars => DisplayInv'
    BY DisplaySteps, DisplayIdles
<1>4. KeypadInv /\ [KeypadNext]_keypadVars => KeypadInv'
    BY KeypadSteps, KeypadIdles
<1>5. /\ [TimerNext]_timerVars /\ [SpiNext]_spiVars
      /\ [DisplayNext]_displayVars /\ [KeypadNext]_keypadVars
    BY Zenon DEF Next
<1>. QED BY <1>1, <1>2, <1>3, <1>4, <1>5, Zenon DEF DevicesInv

(* The devices' states are those their types describe, and the timer's     *)
(* prescaler is never left exhausted (timer.go's Tick).                    *)
THEOREM DeviceTypesHold == Spec => []DevicesTypeOK
<1>1. Init => DevicesInv
    BY TimerStarts, StartsSilent, DisplayStarts, KeypadStarts, Zenon DEF Init, DevicesInv
<1>2. DevicesInv /\ [Next]_<<bench, timerVars, spiVars, displayVars, keypadVars>> => DevicesInv'
    BY DevicesKeepInv
<1>3. DevicesInv => DevicesTypeOK
  <2>1. SpiInv => SpiTypeOK
      BY DEF SpiInv, Types, SpiTypeOK, SpiType, PortType, Exchanged, Phases
  <2>2. KeypadInv => KeypadTypeOK
      BY DEF KeypadInv
  <2>. QED BY <2>1, <2>2, TimerPromises, DisplayPromises, Zenon DEF DevicesInv, DevicesTypeOK
<1>. QED BY <1>1, <1>2, <1>3, PTL DEF Spec
=============================================================================
