------------------------------- MODULE SdHost -------------------------------
(***************************************************************************)
(* A 6502 program driving the card over the SPI wiring of internal/kim1:   *)
(* the byte pipeline of spi.go (the card's answer to one byte is shifted   *)
(* out during the next) between SdCard and the driver.  The driver is not  *)
(* part of the sources; it follows the protocol their tests follow         *)
(* (command, waitResult, initCard, the block read and write): CMD0, CMD8,  *)
(* CMD55 + ACMD41, then CMD17 and CMD24 one block at a time.  Pressing RS  *)
(* stops it at any byte, and booting again starts from CMD0.               *)
(***************************************************************************)
EXTENDS SdCard

CONSTANTS
    Blocks,         \* the blocks a program writes, and an image may hold
    MaxPolls,       \* polls waitResult makes before it gives up
    MaxRestarts     \* bound: how often RS is pressed

ASSUME HostAssumption ==
    /\ Blocks \subseteq Block
    /\ MaxPolls \in Nat
    /\ MaxRestarts \in Nat

VARIABLES
    shift,      \* spiState.out: the byte the card shifts out next
    host,       \* the driver: its phase, bytes to send, bytes received
    restarts

(* History variables. *)
VARIABLES
    acked,      \* per sector, the last block whose write was acknowledged
    damaged     \* sectors with a later write that failed or was cut off

hostVars == <<cardVars, shift, host, restarts, acked, damaged>>

Command(index, arg) ==
    <<64 + index, 0, arg \div 65536, (arg \div 256) % 256, arg % 256, 1>>

(* CMD8 asks for 3.3 V (1) and has the pattern 170 echoed. *)
InitCommands == <<Command(0, 0), Command(8, 256 + 170), Command(55, 0), Command(41, 0)>>

(* READ_OCR, SET_BLOCKLEN, SEND_CSD (not implemented) and ACMD41 without   *)
(* its CMD55.                                                              *)
ProbeIndexes == {58, 16, 9, 41}

(* phase: what the driver does with the next byte; todo: bytes left to     *)
(* send; step: the init command sent, or 5 for a block command; op, sector *)
(* and block: the job; got: bytes read; polls: polls in this wait.         *)
Booting == [phase |-> "send", todo |-> InitCommands[1], step |-> 1, op |-> "init", index |-> 0,
            sector |-> 0, block |-> <<>>, got |-> <<>>, polls |-> 0]

----------------------------------------------------------------------------
(* One byte each way: the driver receives the byte the card drove while    *)
(* the last one was exchanged.                                             *)
Transfer(in) ==
    /\ Exchange(in)
    /\ shift' = Driven(card)

Quiet == UNCHANGED <<restarts, acked, damaged>>

Sending(h, phase, bytes) == [h EXCEPT !.phase = phase, !.todo = bytes, !.polls = 0]

(* The block job's result: the driver is ready for the next one. *)
Finished(h) == [h EXCEPT !.phase = "ready", !.todo = <<>>, !.polls = 0]
Failed(h) == [h EXCEPT !.phase = "failed", !.todo = <<>>, !.polls = 0]

SendByte ==
    /\ host.todo # <<>>
    /\ Transfer(Head(host.todo))
    /\ host' = [host EXCEPT !.todo = Tail(@)]
    /\ Quiet

(* waitResult: clock idle bytes until something else comes back. *)
Waiting(phase) == host.phase = phase /\ host.todo = <<>>

PollCard(phase) ==
    /\ Waiting(phase)
    /\ Transfer(Idle)
    /\ shift = Idle
    /\ host' = IF host.polls < MaxPolls THEN [host EXCEPT !.polls = @ + 1]
                                        ELSE Failed(host)
    /\ Quiet

Result(phase) ==
    /\ Waiting(phase)
    /\ Transfer(Idle)
    /\ shift # Idle

InitAnswered ==
    /\ host.step <= 4
    /\ Result("send")
    /\ host' = IF shift # (IF host.step = 4 THEN 0 ELSE R1Idle) THEN Failed(host)
               ELSE IF host.step = 4 THEN Finished(host)
               ELSE [Sending(host, "send", InitCommands[host.step + 1])
                        EXCEPT !.step = @ + 1]
    /\ Quiet

ReadAnswered ==
    /\ host.op = "read"
    /\ Result("send")
    /\ host' = IF shift = 0 THEN Sending(host, "token", <<>>) ELSE Failed(host)
    /\ Quiet

(* CMD58, CMD16 and the like: the driver looks at R1 and leaves the rest   *)
(* of the response unread.                                                 *)
ProbeAnswered ==
    /\ host.op = "probe"
    /\ Result("send")
    /\ host' = [Finished(host) EXCEPT !.got = <<shift>>]
    /\ Quiet

TokenSeen ==
    /\ Result("token")
    /\ host' = IF shift = StartBlock THEN [host EXCEPT !.phase = "data", !.got = <<>>]
                                     ELSE Failed(host)
    /\ Quiet

(* A block and its CRC are read by count, whatever the bytes. *)
DataByte ==
    /\ Waiting("data")
    /\ Transfer(Idle)
    /\ LET got == Append(host.got, shift)
       IN  host' = IF Len(got) < SectorSize + CrcLen THEN [host EXCEPT !.got = got]
                   ELSE [Finished(host) EXCEPT !.got = SubSeq(got, 1, SectorSize)]
    /\ Quiet

(* R1 to CMD24: the block follows at once, after its start token. *)
WriteAnswered ==
    /\ host.op = "write"
    /\ Result("send")
    /\ host' = IF shift = 0
               THEN Sending(host, "response", <<StartBlock>> \o host.block \o <<Idle, Idle>>)
               ELSE Failed(host)
    /\ Quiet

ResponseSeen ==
    /\ Result("response")
    /\ host' = IF shift % 32 = DataAccepted THEN Sending(host, "busy", <<>>)
                                            ELSE Failed(host)
    /\ UNCHANGED <<restarts, acked, damaged>>

(* The card holds the bus low while it programs; then the write is done. *)
StillBusy ==
    /\ Waiting("busy")
    /\ Transfer(Idle)
    /\ shift # Idle
    /\ UNCHANGED host
    /\ Quiet

Programmed ==
    /\ Waiting("busy")
    /\ Transfer(Idle)
    /\ shift = Idle
    /\ host' = Finished(host)
    /\ acked' = [acked EXCEPT ![host.sector] = host.block]
    /\ damaged' = damaged \ {host.sector}
    /\ UNCHANGED restarts

----------------------------------------------------------------------------
(* The program asks for a block to be read or written, or probes the card. *)
Start(op, index, sector, block) ==
    /\ host.phase = "ready"
    /\ host' = [Sending(host, "send", Command(index, sector))
                   EXCEPT !.step = 5, !.op = op, !.index = index, !.sector = sector,
                          !.block = block, !.got = <<>>]
    /\ damaged' = IF op = "write" /\ sector < Sectors THEN damaged \cup {sector} ELSE damaged
    /\ UNCHANGED <<cardVars, shift, restarts, acked>>

(* RS at any byte, then the program is started again: it raises CS, which  *)
(* deselects the card, and begins with CMD0.                               *)
Restart ==
    /\ restarts < MaxRestarts
    /\ Deselect
    /\ host' = Booting
    /\ restarts' = restarts + 1
    /\ UNCHANGED <<shift, acked, damaged>>

(* Without RS: a driver whose boot failed is started over by its user.     *)
Retry ==
    /\ host.phase = "failed"
    /\ Deselect
    /\ host' = Booting
    /\ UNCHANGED <<shift, restarts, acked, damaged>>

HostInitWith(driver) ==
    /\ CardInit(Blocks)
    /\ shift = Idle
    /\ host = driver
    /\ restarts = 0
    /\ acked = image
    /\ damaged = {}

HostInit == HostInitWith(Booting)

DriverNext ==
    \/ SendByte
    \/ \E phase \in {"send", "token", "response"} : PollCard(phase)
    \/ InitAnswered \/ ReadAnswered \/ TokenSeen \/ DataByte
    \/ ProbeAnswered \/ WriteAnswered \/ ResponseSeen \/ StillBusy \/ Programmed
    \/ Retry

HostNext ==
    \/ DriverNext
    \/ \E sector \in 0 .. Sectors : Start("read", 17, sector, <<>>)
    \/ \E sector \in 0 .. Sectors, block \in Blocks : Start("write", 24, sector, block)
    \/ \E index \in ProbeIndexes : Start("probe", index, 0, <<>>)
    \/ Restart

(* The CPU keeps running the driver's loop; nobody has to start a job.     *)
HostSpec == HostInit /\ [][HostNext]_hostVars /\ WF_hostVars(DriverNext)

----------------------------------------------------------------------------
(* Types. *)
HostTypeOK ==
    /\ CardTypeOK
    /\ shift \in Byte
    /\ host.phase \in {"send", "token", "data", "response", "busy", "ready", "failed"}
    /\ restarts \in 0 .. MaxRestarts
    /\ acked \in [0 .. Sectors - 1 -> Blocks]
    /\ damaged \subseteq 0 .. Sectors - 1

(* What a program reads is what was last written and acknowledged: a block *)
(* read back whole equals the block whose write the card accepted last,    *)
(* through the one-byte SPI delay, data that looks like commands, tokens   *)
(* or an idle bus, image errors, and restarts in the middle of anything.   *)
(* Sectors whose last write failed or was cut off are excepted.            *)
ReadsBack ==
    host.phase = "ready" /\ host.op = "read" /\ host.sector \notin damaged =>
        host.got = acked[host.sector]

(* An interrupted or failed write harms no sector but its own: the others  *)
(* keep their acknowledged contents on the image.                          *)
OthersIntact ==
    \A s \in 0 .. Sectors - 1 : s \notin damaged => image[s] = acked[s]

(* The card knows which command it was given: an initialised card accepts  *)
(* CMD58 and CMD16 and rejects CMD9 and a CMD41 that no CMD55 announced,   *)
(* whatever was sent or left unread before.                                *)
ProbesTold ==
    host.phase = "ready" /\ host.op = "probe" =>
        host.got = <<IF host.index \in {9, 41} THEN R1IllegalCmd ELSE 0>>

(* Card and driver together are a Disk: a program that asks for blocks     *)
(* sees none of the bytes, tokens and restarts (sdcard.go's Exchange).     *)
Requested(h) ==
    IF h.op \notin {"read", "write"} \/ h.phase \in {"ready", "failed"}
    THEN [op |-> "none", sector |-> <<>>, block |-> <<>>]
    ELSE [op |-> h.op, sector |-> h.sector, block |-> IF h.op = "write" THEN h.block ELSE <<>>]

Answered(h) == IF h.op = "read" /\ h.phase = "ready" THEN h.got ELSE <<>>

D == INSTANCE Disk WITH
        Places <- 0 .. Sectors - 1,
        Numbers <- 0 .. Sectors,
        Data <- Block,
        None <- <<>>,
        contents <- image,
        torn <- damaged,
        request <- Requested(host),
        answer <- Answered(host)

ImplementsDisk == D!DiskSpec

(* A driver that is left running gets every job done or refused. *)
JobsEnd == host.phase \notin {"ready", "failed"} ~> host.phase \in {"ready", "failed"}

(* Started again, the program gets the card through its initialisation in  *)
(* the end, whatever RS interrupted: a command, a response, half a block   *)
(* (which the next boot's bytes fill up).  One state has no way out but a  *)
(* start token: a write announced and never begun, in which the card takes *)
(* every command byte for a gap.                                           *)
BootsAgain == host.op = "init" ~> host.phase = "ready" \/ card.state = "writeWait"
=============================================================================
