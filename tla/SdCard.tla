------------------------------- MODULE SdCard -------------------------------
(***************************************************************************)
(* internal/sdcard: an SDHC card in SPI mode.  Bytes are their numbers, as *)
(* in the code; sectors are SectorSize bytes (512 in the code).            *)
(***************************************************************************)
EXTENDS Naturals, Sequences

CONSTANTS
    SectorSize,     \* bytes per block
    Sectors,        \* Card.sectors
    IOErrors        \* whether the backing image may report errors

MaxSectors == 256 * 256 * 256     \* 8 GB

ASSUME CardAssumption ==
    /\ SectorSize \in Nat \ {0}
    /\ Sectors \in 1 .. MaxSectors - 1
    /\ IOErrors \in BOOLEAN

VARIABLES
    card,   \* the Card struct
    image   \* the backing store: one block per sector

cardVars == <<card, image>>

Byte == 0 .. 255
Block == [1 .. SectorSize -> Byte]
CommandLen == 6
CrcLen == 2

Idle == 255                         \* an undriven bus reads as ones
StartBlock == 254
R1Idle == 1
R1IllegalCmd == 4
R1AddrError == 32
DataAccepted == 5
DataWriteError == 13
Busy == 0

NewCard == [state |-> "idle", cmd |-> <<>>, idle |-> TRUE, appCmd |-> FALSE,
            writeSector |-> 0, buf |-> <<>>, out |-> <<>>, err |-> FALSE]

----------------------------------------------------------------------------
IsCommandStart(in) == in \div 64 = 1

Index(cmd) == cmd[1] % 64

(* The 32-bit argument; one with a high byte is out of range here. *)
Arg(cmd) == IF cmd[2] = 0 THEN (cmd[3] * 256 + cmd[4]) * 256 + cmd[5] ELSE MaxSectors

R1(c) == IF c.idle THEN R1Idle ELSE 0

Answer(c, bytes) == [c EXCEPT !.out = @ \o bytes]

(* Deselect drops a half-sent command; queued response bytes are kept. *)
Deselected(c) == IF c.state = "command" THEN [c EXCEPT !.state = "idle"] ELSE c

(* Faulty variant: the sector of the last write is read. *)
ReadBlockWritten(c, sector, fails) ==
    IF sector >= Sectors THEN Answer(c, <<R1(c) + R1AddrError>>)
    ELSE Answer(c, <<R1(c), Idle, StartBlock>> \o image[c.writeSector] \o <<Idle, Idle>>)

(* read: CMD17 with the block at hand, or with the image failing. *)
ReadBlock(c, sector, fails) ==
    IF sector >= Sectors THEN Answer(c, <<R1(c) + R1AddrError>>)
    ELSE IF fails THEN [Answer(c, <<R1(c) + R1AddrError>>) EXCEPT !.err = TRUE]
    ELSE Answer(c, <<R1(c), Idle, StartBlock>> \o image[sector] \o <<Idle, Idle>>)

(* Faulty variants: the sector is not checked; it is not noted. *)
WriteBlockUnchecked(c, sector) ==
    [Answer(c, <<R1(c)>>) EXCEPT !.writeSector = sector, !.state = "writeWait"]

WriteBlockUnnoted(c, sector) ==
    IF sector >= Sectors THEN Answer(c, <<R1(c) + R1AddrError>>)
    ELSE [Answer(c, <<R1(c)>>) EXCEPT !.state = "writeWait"]

WriteBlock(c, sector) ==
    IF sector >= Sectors THEN Answer(c, <<R1(c) + R1AddrError>>)
    ELSE [Answer(c, <<R1(c)>>) EXCEPT !.writeSector = sector, !.state = "writeWait"]

(* Faulty variant: an initialised card stays initialised. *)
GoIdleReadied(c) == Answer(c, <<R1Idle>>)

GoIdle(c) == Answer([c EXCEPT !.idle = TRUE], <<R1Idle>>)

(* Faulty variant: CMD55 holds for every later command. *)
AppCmdStays(c) == c

(* CMD55 holds for the next command only. *)
AppCmdEnds(c) == [c EXCEPT !.appCmd = FALSE]

(* execute, for a card whose six command bytes are complete.  Every        *)
(* response follows one filler byte.                                       *)
Execute(card0, fails) ==
    LET app == card0.appCmd
        cmd == card0.cmd
        c   == Answer(AppCmdEnds(card0), <<Idle>>)
    IN  CASE Index(cmd) = 0  -> GoIdle(c)
          [] Index(cmd) = 8  -> Answer(c, <<R1(c), 0, 0, cmd[4] % 16, cmd[5]>>)
          [] Index(cmd) = 55 -> Answer([c EXCEPT !.appCmd = TRUE], <<R1(c)>>)
          [] Index(cmd) = 41 /\ app -> Answer([c EXCEPT !.idle = FALSE], <<0>>)
          [] Index(cmd) = 58 -> Answer(c, <<R1(c), 192, 255, 128, 0>>)
          [] Index(cmd) = 16 -> Answer(c, <<R1(c)>>)
          [] Index(cmd) = 17 -> ReadBlock(c, Arg(cmd), fails)
          [] Index(cmd) = 24 -> WriteBlock(c, Arg(cmd))
          [] OTHER           -> Answer(c, <<R1(c) + R1IllegalCmd>>)

----------------------------------------------------------------------------
(* Faulty variant: the card stays busy while it has a block in its buffer. *)
DrivenWhileBuffered(c) ==
    IF c.out # <<>> THEN Head(c.out)
    ELSE IF c.state = "idle" /\ c.buf # <<>> THEN Busy ELSE Idle

(* Exchange: what the card drives, and what it makes of the byte sent. *)
Driven(c) == IF c.out = <<>> THEN Idle ELSE Head(c.out)

Drained(c) == IF c.out = <<>> THEN c ELSE [c EXCEPT !.out = Tail(@)]

(* stIdle: a new command abandons what is left of the last response. *)
AwaitCommand(c, in) ==
    /\ c.state = "idle"
    /\ card' = IF IsCommandStart(in)
               THEN [c EXCEPT !.state = "command", !.cmd = <<in>>, !.out = <<>>]
               ELSE c
    /\ UNCHANGED image

TakeCommand(c, in) ==
    /\ c.state = "command"
    /\ LET cmd == Append(c.cmd, in)
       IN  IF Len(cmd) < CommandLen
           THEN card' = [c EXCEPT !.cmd = cmd]
           ELSE \E fails \in {FALSE, IOErrors} :
                   card' = Execute([c EXCEPT !.cmd = cmd, !.state = "idle"], fails)
    /\ UNCHANGED image

AwaitBlock(c, in) ==
    /\ c.state = "writeWait"
    /\ card' = IF in = StartBlock THEN [c EXCEPT !.state = "writeData", !.buf = <<>>]
                                  ELSE c
    /\ UNCHANGED image

(* finishWrite: the block without its CRC goes to the image; when that     *)
(* fails, some first part of it may be there all the same.                 *)
FinishWrite(c) ==
    LET Stored(n) == [i \in 1 .. SectorSize |->
                         IF i <= n THEN c.buf[i] ELSE image[c.writeSector][i]]
    IN  \/ /\ image' = [image EXCEPT ![c.writeSector] = Stored(SectorSize)]
           /\ card' = Answer(c, <<DataAccepted, Busy>>)
        \/ /\ IOErrors
           /\ \E n \in 0 .. SectorSize - 1 :
                 image' = [image EXCEPT ![c.writeSector] = Stored(n)]
           /\ card' = [Answer(c, <<DataWriteError, Busy>>) EXCEPT !.err = TRUE]

TakeBlock(c, in) ==
    /\ c.state = "writeData"
    /\ LET got == [c EXCEPT !.buf = Append(@, in)]
       IN  IF Len(got.buf) < SectorSize + CrcLen
           THEN card' = got /\ UNCHANGED image
           ELSE FinishWrite([got EXCEPT !.state = "idle"])

Exchange(in) ==
    \/ AwaitCommand(Drained(card), in)
    \/ TakeCommand(Drained(card), in)
    \/ AwaitBlock(Drained(card), in)
    \/ TakeBlock(Drained(card), in)

Deselect ==
    /\ card' = Deselected(card)
    /\ UNCHANGED image

CardInit(blocks) ==
    /\ card = NewCard
    /\ image \in [0 .. Sectors - 1 -> blocks]

CardTypeOK ==
    /\ card.state \in {"idle", "command", "writeWait", "writeData"}
    /\ card.idle \in BOOLEAN /\ card.appCmd \in BOOLEAN /\ card.err \in BOOLEAN
    /\ card.writeSector \in 0 .. Sectors - 1
    /\ card.cmd \in Seq(Byte) /\ Len(card.cmd) <= CommandLen
    /\ card.buf \in Seq(Byte) /\ Len(card.buf) <= SectorSize + CrcLen
    /\ card.out \in Seq(Byte)
    /\ image \in [0 .. Sectors - 1 -> Block]
=============================================================================
