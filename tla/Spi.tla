--------------------------------- MODULE Spi ---------------------------------
(***************************************************************************)
(* internal/kim1/spi.go: the SD card's SPI bus on the App RIOT's Port A,   *)
(* edge by edge, between the card, which sees whole bytes, and a program   *)
(* that bit-bangs them.  The program is not part of the sources; it does   *)
(* what the tests' spiByte does, and may give up at any edge (RS, then a   *)
(* new start), leaving the pins as they are: the RIOT is not reset.        *)
(* A byte is the sequence of its bits, the highest first.                  *)
(***************************************************************************)
EXTENDS RiotPort, Naturals, Sequences

CONSTANTS
    Width,          \* bits in a byte (8)
    MaxTransfers    \* bound: bytes transferred while the card is selected

ASSUME SpiAssumption ==
    /\ Width \in Nat \ {0}
    /\ MaxTransfers \in Nat

VARIABLES
    appA,       \* App RIOT Port A, the pins of the bus
    switchA,    \* System.AppSwitchA, as far as PA1 goes
    spi,        \* the spiState struct; its bit is the length of in
    driver      \* the program: phase, byte to send, bits received

(* History variables, as in ByteBus: since CS was last raised. *)
VARIABLES asked, wire, heard

spiVars == <<appA, switchA, spi, driver, asked, wire, heard>>

Byte == [1 .. Width -> BOOLEAN]
Ones == [i \in 1 .. Width |-> TRUE]

MISO == "PA1"
MOSI == "PA2"
SCK == "PA3"
CS == "PA4"
Driven == {MOSI, SCK, CS}

(* AttachSDCard *)
NewSpi == [cs |-> TRUE, sck |-> FALSE, in |-> <<>>, out |-> Ones, miso |-> TRUE]

----------------------------------------------------------------------------
(* Faulty variant: a change of CS leaves the bit counter alone. *)
MisalignedBy(s, port) == [s EXCEPT !.cs = PinLevel(port, CS)]

(* A change of CS, either way, starts a new byte. *)
AlignedBy(s, port) ==
    IF PinLevel(port, CS) = s.cs THEN s
    ELSE [s EXCEPT !.cs = PinLevel(port, CS), !.in = <<>>]

Deselects(s, port) == PinLevel(port, CS) /\ ~s.cs

(* A rising edge of SCK with CS low. *)
Clocks(s, port) == PinLevel(port, SCK) /\ ~s.sck /\ ~PinLevel(port, CS)

(* The byte taken from the host, if this edge completes it. *)
Collected(s, port) == Append(AlignedBy(s, port).in, PinLevel(port, MOSI))

Completes(s, port) == Clocks(s, port) /\ Len(Collected(s, port)) = Width

(* clockSPI, for pin levels that port gives and the card's answer. *)
ClockSPI(s, port, answer) ==
    LET in   == Collected(s, port)
        seen == [AlignedBy(s, port) EXCEPT !.sck = PinLevel(port, SCK)]
        bit  == [seen EXCEPT !.miso = s.out[Len(in)], !.in = in]
    IN  IF ~Clocks(s, port) THEN seen
        ELSE IF Len(in) < Width THEN bit
        ELSE [bit EXCEPT !.out = answer, !.in = <<>>]

(* A write to the App RIOT's I/O window that makes its Port A port: the    *)
(* pins change and the bus looks at them.  Deselect and Exchange are the   *)
(* card's; wire records them.                                              *)
AppWrite(port) ==
    /\ appA' = port
    /\ \E answer \in IF Completes(spi, port) THEN Byte ELSE {Ones} :
          spi' = ClockSPI(spi, port, answer)
    /\ wire' = IF Deselects(spi, port) THEN <<>>
               ELSE IF Completes(spi, port)
               THEN Append(wire, [took |-> Collected(spi, port), drove |-> spi.out])
               ELSE wire

(* appPortAInput: the card drives PA1, idle-high while deselected. *)
AppPortAInput ==
    IF ~spi.cs /\ ~spi.miso THEN switchA \ {MISO} ELSE switchA \cup {MISO}

SampledMISO == MISO \in ReadPort(appA, AppPortAInput)

----------------------------------------------------------------------------
(* The program.  Its first act is to make the pins outputs, which drops CS *)
(* if the latch still holds 0.                                             *)
SetUp ==
    /\ driver.phase = "off"
    /\ AppWrite(WriteDDR(appA, Driven))
    /\ driver' = [driver EXCEPT !.phase = "stopped"]
    /\ UNCHANGED <<switchA, asked, heard>>

(* From wherever it is, with SCK high or low: CS goes up. *)
Release(extra) ==
    /\ driver.phase # "off"
    /\ AppWrite(WriteData(appA, {CS} \cup extra))
    /\ driver' = [phase |-> "idle", byte |-> Ones, got |-> <<>>]
    /\ asked' = <<>>
    /\ heard' = <<>>
    /\ UNCHANGED switchA

(* MOSI is set with SCK low; the first time, CS goes down with it. *)
Presented(bit) == AppWrite(WriteData(appA, IF bit THEN {MOSI} ELSE {}))

BeginByte(b) ==
    /\ driver.phase \in {"idle", "between"}
    /\ Len(asked) < MaxTransfers
    /\ Presented(b[1])
    /\ driver' = [phase |-> "low", byte |-> b, got |-> <<>>]
    /\ asked' = Append(asked, b)
    /\ UNCHANGED <<switchA, heard>>

NextBit ==
    /\ driver.phase = "sampled"
    /\ Presented(driver.byte[Len(driver.got) + 1])
    /\ driver' = [driver EXCEPT !.phase = "low"]
    /\ UNCHANGED <<switchA, asked, heard>>

RaiseSCK ==
    /\ driver.phase = "low"
    /\ AppWrite(WriteData(appA, appA.data \cup {SCK}))
    /\ driver' = [driver EXCEPT !.phase = "high"]
    /\ UNCHANGED <<switchA, asked, heard>>

Sample ==
    /\ driver.phase = "high"
    /\ LET got == Append(driver.got, SampledMISO)
       IN  IF Len(got) < Width
           THEN driver' = [driver EXCEPT !.phase = "sampled", !.got = got] /\ UNCHANGED heard
           ELSE /\ driver' = [phase |-> "between", byte |-> Ones, got |-> <<>>]
                /\ heard' = Append(heard, got)
    /\ UNCHANGED <<appA, switchA, spi, asked, wire>>

(* A timer or the other port of the App RIOT is written. *)
WriteElsewhere ==
    /\ AppWrite(appA)
    /\ UNCHANGED <<switchA, driver, asked, heard>>

(* SetAppSwitch, from a browser. *)
SetAppSwitch(on) ==
    /\ switchA' = IF on THEN switchA \cup {MISO} ELSE switchA \ {MISO}
    /\ UNCHANGED <<appA, spi, driver, asked, wire, heard>>

SpiInit ==
    /\ appA = NewPort
    /\ switchA = {}
    /\ spi = NewSpi
    /\ driver = [phase |-> "off", byte |-> Ones, got |-> <<>>]
    /\ asked = <<>>
    /\ wire = <<>>
    /\ heard = <<>>

SpiNext ==
    \/ SetUp \/ NextBit \/ RaiseSCK \/ Sample \/ WriteElsewhere
    \/ \E extra \in SUBSET {SCK, MOSI} : Release(extra)
    \/ \E b \in Byte : BeginByte(b)
    \/ \E on \in BOOLEAN : SetAppSwitch(on)

SpiSpec == SpiInit /\ [][SpiNext]_spiVars

----------------------------------------------------------------------------
(* Types. *)
SpiTypeOK ==
    /\ appA \in [data : SUBSET Driven, ddr : {{}, Driven}]
    /\ switchA \subseteq {MISO}
    /\ spi \in [cs : BOOLEAN, sck : BOOLEAN, in : Seq(BOOLEAN), out : Byte, miso : BOOLEAN]
    /\ Len(spi.in) < Width
    /\ driver.phase \in {"off", "stopped", "idle", "low", "high", "sampled", "between"}
    /\ asked \in Seq(Byte)
    /\ wire \in Seq([took : Byte, drove : Byte])
    /\ heard \in Seq(Byte)

Bus == INSTANCE ByteBus WITH ready <- spi.out

(* The bit-banged bus carries whole bytes: what the program sends reaches  *)
(* the card unchanged and in order, for each byte it receives the one the  *)
(* card had ready, whatever the switches say -- although SCK, CS and MOSI  *)
(* may move in one write, although the card's next byte replaces the one   *)
(* whose last bit has not been read, and wherever in a byte the program    *)
(* was stopped before.                                                     *)
CarriesBytes == Bus!BusSpec
=============================================================================
