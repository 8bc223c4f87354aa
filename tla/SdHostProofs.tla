---------------------------- MODULE SdHostProofs ----------------------------
(***************************************************************************)
(* The card and the driver, for blocks and cards of any size, any number   *)
(* of polls and restarts, and images that may fail: blocks read are the    *)
(* blocks written, other sectors are left alone, commands are told apart.  *)
(***************************************************************************)
EXTENDS SdHost, SequenceTheorems, TLAPS

SectorNumbers == 0 .. Sectors - 1
CardStates == {"idle", "command", "writeWait", "writeData"}
Phases == {"send", "token", "data", "response", "busy", "ready", "failed"}

CardType ==
    [state : CardStates, cmd : Seq(Byte), idle : BOOLEAN, appCmd : BOOLEAN,
     writeSector : SectorNumbers, buf : Seq(Byte), out : Seq(Byte), err : BOOLEAN]

HostType ==
    [phase : Phases, todo : Seq(Byte), step : 1 .. 5, op : {"init", "read", "write", "probe"},
     index : 0 .. 63, sector : 0 .. Sectors, block : Seq(Byte), got : Seq(Byte), polls : Nat]

CardTypes ==
    /\ card \in CardType
    /\ Len(card.cmd) <= CommandLen /\ (card.state = "command" => Len(card.cmd) < CommandLen)
    /\ Len(card.buf) <= SectorSize + CrcLen
    /\ card.state = "writeData" => Len(card.buf) < SectorSize + CrcLen
    /\ image \in [SectorNumbers -> Block]
    /\ shift \in Byte

Types ==
    /\ CardTypes
    /\ host \in HostType
    /\ restarts \in 0 .. MaxRestarts
    /\ acked \in [SectorNumbers -> Blocks]
    /\ damaged \subseteq SectorNumbers

JobKnown ==
    /\ host.op = "init" <=> host.step <= 4
    /\ host.op = "read" => host.index = 17
    /\ host.op = "write" => host.index = 24 /\ host.block \in Blocks
    /\ host.op = "probe" => host.index \in ProbeIndexes

(* A write is under way only to a sector counted as damaged. *)
WriteUnfinished ==
    /\ card.state \in {"writeWait", "writeData"} => card.writeSector \in damaged
    /\ card.state = "writeWait" => Len(card.out) <= 2
    /\ card.state = "writeData" => shift = Idle /\ card.out = <<>>
    /\ host.op = "write" /\ host.phase # "ready" => host.sector = Sectors \/ host.sector \in damaged

----------------------------------------------------------------------------
(* The command being sent, and the card's flags behind the n-th of a boot; *)
(* they stay as they are behind the last.                                  *)
CommandSent ==
    IF host.step <= 4 THEN InitCommands[host.step] ELSE Command(host.index, host.sector)

Flags(n) ==
    CASE n = 0      -> TRUE
      [] n \in 1 .. 2 -> card.idle /\ ~card.appCmd
      [] n = 3      -> card.idle /\ card.appCmd
      [] OTHER      -> ~card.idle /\ ~card.appCmd

CommandUnderWay ==
    /\ Flags(host.step - 1)
    /\ \/ card.state = "idle" /\ host.todo = CommandSent
       \/ /\ card.state = "command"
          /\ card.cmd \o host.todo = CommandSent
          /\ card.cmd # <<>>
          /\ card.out = <<>>
          /\ Len(card.cmd) > 1 => shift = Idle

(* RS in the middle of a write: the card takes CMD0 for data or for a gap, *)
(* and what it answers is not what the driver waits for.                   *)
Lost ==
    /\ host.step = 1
    /\ \A i \in 1 .. Len(host.todo) : host.todo[i] \in IF i = 1 THEN {0, 1, 64} ELSE {0, 1}
    /\ \/ /\ card.state = "writeWait"
          /\ \/ Len(card.out) + CommandLen - Len(host.todo) <= 2
             \/ shift = Idle /\ card.out = <<>>
       \/ card.state = "writeData"
       \/ /\ card.state = "idle"
          /\ host.todo # <<>> => host.todo[1] # 64
          /\ shift # R1Idle
          /\ \A i \in 1 .. Len(card.out) : card.out[i] # R1Idle

Replies == Seq(Byte)
Crc == <<Idle, Idle>>
Delivered == image[host.sector] \o Crc

Coming(first, more) ==
    \/ shift = Idle /\ card.out = <<Idle>> \o (<<first>> \o more)
    \/ shift = Idle /\ card.out = <<first>> \o more
    \/ shift = first /\ card.out = more

Framed(more) == more = <<Idle>> \o (<<StartBlock>> \o Delivered)

Meant(first, more) ==
    /\ host.step <= 3 => first = R1Idle
    /\ host.step = 4 => first = 0
    /\ host.op = "probe" => first = IF host.index \in {9, 41} THEN R1IllegalCmd ELSE 0
    /\ host.op = "read" =>
          \/ first = R1AddrError
          \/ /\ first = 0
             /\ host.sector \in SectorNumbers
             /\ Framed(more)
    /\ host.op = "write" =>
          \/ first = R1AddrError /\ card.state = "idle"
          \/ first = 0 /\ more = <<>> /\ card.state = "writeWait" /\ card.writeSector = host.sector
    /\ host.op # "write" => card.state = "idle"

Answering ==
    /\ Flags(host.step)
    /\ \E first \in Byte \ {Idle}, more \in Replies : Coming(first, more) /\ Meant(first, more)

----------------------------------------------------------------------------
Reading ==
    /\ Flags(5)
    /\ host.step = 5
    /\ card.state = "idle"
    /\ host.op = "read"
    /\ host.sector \in SectorNumbers
    /\ host.todo = <<>>

TokenDue ==
    /\ Reading
    /\ \/ shift = Idle /\ card.out = <<StartBlock>> \o Delivered
       \/ shift = StartBlock /\ card.out = Delivered

DataDue ==
    /\ Reading
    /\ host.got \o (<<shift>> \o card.out) = Delivered

Writing ==
    /\ Flags(5)
    /\ host.step = 5
    /\ host.op = "write"
    /\ host.sector \in SectorNumbers

BlockUnderWay ==
    /\ Writing
    /\ card.writeSector = host.sector
    /\ \/ /\ card.state = "writeWait"
          /\ host.todo = <<StartBlock>> \o (host.block \o Crc)
          /\ shift = Idle /\ card.out = <<>>
       \/ /\ card.state = "writeData"
          /\ card.buf \o host.todo = host.block \o Crc

ResponseDue ==
    /\ Writing
    /\ card.state = "idle"
    /\ \E first \in {DataAccepted, DataWriteError} :
          /\ \/ shift = Idle /\ card.out = <<first>> \o <<Busy>>
             \/ shift = first /\ card.out = <<Busy>>
          /\ first = DataAccepted => image[host.sector] = host.block

IdleDue ==
    /\ Writing
    /\ card.state = "idle"
    /\ host.todo = <<>>
    /\ image[host.sector] = host.block
    /\ card.out = <<>>
    /\ shift \in {Busy, Idle}

Done ==
    /\ Flags(5)
    /\ card.state = "idle"
    /\ host.todo = <<>>
    /\ host.op = "read" => host.sector \in SectorNumbers /\ host.got = image[host.sector]

Protocol ==
    /\ host.phase = "send" =>
          \/ Lost
          \/ IF host.todo = <<>> THEN Answering ELSE CommandUnderWay
    /\ host.phase = "token" => TokenDue
    /\ host.phase = "data" => DataDue
    /\ host.phase = "response" => IF host.todo = <<>> THEN ResponseDue ELSE BlockUnderWay
    /\ host.phase = "busy" => IdleDue
    /\ host.phase = "ready" => Done /\ ProbesTold
    /\ host.phase = "failed" => host.todo = <<>>

HostInv == Types /\ JobKnown /\ WriteUnfinished /\ OthersIntact /\ Protocol
(* Sequences, element by element.                                          *)
LEMMA Cons ==
    ASSUME NEW S, NEW b \in S, NEW s \in Seq(S)
    PROVE  /\ <<b>> \o s \in Seq(S)
           /\ <<b>> \o s # <<>>
           /\ Head(<<b>> \o s) = b
           /\ Tail(<<b>> \o s) = s
           /\ Len(<<b>> \o s) = Len(s) + 1
           /\ (<<b>> \o s)[1] = b
           /\ \A i \in 1 .. Len(s) : (<<b>> \o s)[i + 1] = s[i]
<1>1. <<b>> \in Seq(S) /\ Len(<<b>>) = 1 /\ <<b>>[1] = b
    OBVIOUS
<1>2. /\ <<b>> \o s \in Seq(S)
      /\ Len(<<b>> \o s) = 1 + Len(s)
      /\ \A i \in 1 .. 1 + Len(s) : (<<b>> \o s)[i] = IF i <= 1 THEN <<b>>[i] ELSE s[i - 1]
    BY <1>1, ConcatProperties
<1>3. Len(s) \in Nat
    BY LenProperties
<1>4. <<b>> \o s # <<>> /\ (<<b>> \o s)[1] = b /\ \A i \in 1 .. Len(s) : (<<b>> \o s)[i + 1] = s[i]
    BY <1>1, <1>2, <1>3, EmptySeq
<1>5. Head(<<b>> \o s) = b
    BY <1>4
<1>6. Tail(<<b>> \o s) = s
    BY <1>2, <1>3, <1>4, HeadTailProperties, SeqEqual
<1>. QED BY <1>2, <1>3, <1>4, <1>5, <1>6

LEMMA ConsOf ==
    ASSUME NEW S, NEW s \in Seq(S), s # <<>>
    PROVE  /\ Head(s) \in S /\ Tail(s) \in Seq(S)
           /\ s = <<Head(s)>> \o Tail(s) /\ Len(s) = Len(Tail(s)) + 1 /\ s[1] = Head(s)
<1>1. Head(s) \in S /\ Tail(s) \in Seq(S) /\ Len(Tail(s)) = Len(s) - 1
      /\ \A i \in 1 .. Len(Tail(s)) : Tail(s)[i] = s[i + 1]
    BY HeadTailProperties
<1>2. Len(s) \in Nat \ {0}
    BY EmptySeq
<1>3. /\ <<Head(s)>> \o Tail(s) \in Seq(S) /\ Len(<<Head(s)>> \o Tail(s)) = Len(s)
      /\ (<<Head(s)>> \o Tail(s))[1] = s[1]
      /\ \A i \in 1 .. Len(Tail(s)) : (<<Head(s)>> \o Tail(s))[i + 1] = s[i + 1]
    BY <1>1, <1>2, Cons
<1>4. \A i \in 1 .. Len(s) : s[i] = (<<Head(s)>> \o Tail(s))[i]
  <2>1. TAKE i \in 1 .. Len(s)
  <2>2. CASE i = 1
    BY <2>2, <1>3
  <2>3. CASE i # 1
    <3>1. i - 1 \in 1 .. Len(Tail(s)) /\ i = (i - 1) + 1
      BY <2>3, <1>1, <1>2
    <3>. QED BY <3>1, <1>3
  <2>. QED BY <2>2, <2>3
<1>. QED BY <1>1, <1>2, <1>3, <1>4, SeqEqual

LEMMA Shifted ==
    ASSUME NEW S, NEW s \in Seq(S), NEW x \in S, NEW t \in Seq(S)
    PROVE  Append(s, x) \o t = s \o (<<x>> \o t)
<1>1. Append(s, x) = s \o <<x>>
    BY AppendIsConcat
<1>2. <<x>> \in Seq(S)
    OBVIOUS
<1>. QED BY <1>1, <1>2, ConcatAssociative

LEMMA Pairs ==
    ASSUME NEW S, NEW a \in S, NEW b \in S
    PROVE  /\ <<a, b>> = <<a>> \o <<b>>
           /\ <<a, b>> \in Seq(S) /\ Len(<<a, b>>) = 2
           /\ <<b>> \in Seq(S) /\ Len(<<b>>) = 1 /\ <<b>> # <<>>
<1>1. /\ <<a, b>> \in Seq(S) /\ Len(<<a, b>>) = 2 /\ <<a, b>>[1] = a /\ <<a, b>>[2] = b
      /\ <<b>> \in Seq(S) /\ Len(<<b>>) = 1 /\ <<b>> # <<>> /\ <<b>>[1] = b
    OBVIOUS
<1>2. /\ <<a>> \o <<b>> \in Seq(S) /\ Len(<<a>> \o <<b>>) = 2
      /\ (<<a>> \o <<b>>)[1] = a /\ (<<a>> \o <<b>>)[1 + 1] = b
    BY <1>1, Cons
<1>3. \A i \in 1 .. 2 : <<a, b>>[i] = (<<a>> \o <<b>>)[i]
    BY <1>1, <1>2
<1>. QED BY <1>1, <1>2, <1>3, SeqEqual

LEMMA Threes ==
    ASSUME NEW S, NEW a \in S, NEW b \in S, NEW c \in S
    PROVE  /\ <<a, b, c>> \in Seq(S)
           /\ <<a, b, c>> = <<a>> \o (<<b>> \o <<c>>)
<1>1. /\ <<a, b, c>> \in Seq(S) /\ Len(<<a, b, c>>) = 3
      /\ <<a, b, c>>[1] = a /\ <<a, b, c>>[2] = b /\ <<a, b, c>>[3] = c
    OBVIOUS
<1>2. <<b>> \o <<c>> \in Seq(S) /\ Len(<<b>> \o <<c>>) = 2
      /\ (<<b>> \o <<c>>)[1] = b /\ (<<b>> \o <<c>>)[2] = c
    BY Pairs
<1>3. /\ <<a>> \o (<<b>> \o <<c>>) \in Seq(S) /\ Len(<<a>> \o (<<b>> \o <<c>>)) = 3
      /\ (<<a>> \o (<<b>> \o <<c>>))[1] = a
      /\ (<<a>> \o (<<b>> \o <<c>>))[1 + 1] = b
      /\ (<<a>> \o (<<b>> \o <<c>>))[2 + 1] = c
    BY <1>2, Cons
<1>4. \A i \in 1 .. 3 : <<a, b, c>>[i] = (<<a>> \o (<<b>> \o <<c>>))[i]
    BY <1>1, <1>3
<1>. QED BY <1>1, <1>3, <1>4, SeqEqual

LEMMA Sixes ==
    ASSUME NEW a \in Byte, NEW b \in Byte, NEW c \in Byte,
           NEW d \in Byte, NEW e \in Byte, NEW f \in Byte
    PROVE  /\ <<a, b, c, d, e, f>> \in Seq(Byte)
           /\ Len(<<a, b, c, d, e, f>>) = 6
           /\ <<a, b, c, d, e, f>> # <<>>
           /\ Head(<<a, b, c, d, e, f>>) = a
    OBVIOUS

----------------------------------------------------------------------------
(* Exchange, one card state at a time, for a card whose queue is drained.  *)
LEMMA Draining ==
    ASSUME card \in CardType
    PROVE  /\ Drained(card) \in CardType
           /\ Driven(card) \in Byte
           /\ Drained(card).state = card.state
           /\ Drained(card).cmd = card.cmd
           /\ Drained(card).idle = card.idle
           /\ Drained(card).appCmd = card.appCmd
           /\ Drained(card).writeSector = card.writeSector
           /\ Drained(card).buf = card.buf
           /\ card.out = <<>> => Drained(card) = card /\ Driven(card) = Idle
           /\ card.out # <<>> => /\ Drained(card).out = Tail(card.out)
                                 /\ Driven(card) = Head(card.out)
<1>1. card.out \in Seq(Byte)
    BY DEF CardType
<1>2. CASE card.out = <<>>
    BY <1>2 DEF Drained, Driven, Idle, Byte
<1>3. CASE card.out # <<>>
  <2>1. Head(card.out) \in Byte /\ Tail(card.out) \in Seq(Byte)
    BY <1>1, <1>3, ConsOf
  <2>. QED BY <1>3, <2>1 DEF Drained, Driven, CardType
<1>. QED BY <1>2, <1>3

(* A byte the card has no use for: the queue moves on, nothing else does.  *)
LEMMA Passed ==
    ASSUME card \in CardType, NEW in \in Byte, Exchange(in),
           \/ card.state = "idle" /\ ~IsCommandStart(in)
           \/ card.state = "writeWait" /\ in # StartBlock
    PROVE  card' = Drained(card) /\ image' = image
<1>1. Drained(card).state = card.state
    BY Draining
<1>. QED BY <1>1 DEF Exchange, AwaitCommand, TakeCommand, AwaitBlock, TakeBlock

LEMMA CommandBegun ==
    ASSUME card \in CardType, NEW in \in Byte, Exchange(in),
           card.state = "idle", IsCommandStart(in)
    PROVE  /\ card' = [card EXCEPT !.state = "command", !.cmd = <<in>>, !.out = <<>>]
           /\ image' = image
<1>1. Drained(card).state = card.state
    BY Draining
<1>2. /\ card' = [Drained(card) EXCEPT !.state = "command", !.cmd = <<in>>, !.out = <<>>]
      /\ image' = image
    BY <1>1 DEF Exchange, AwaitCommand, TakeCommand, AwaitBlock, TakeBlock
<1>. QED BY <1>2 DEF Drained, CardType

LEMMA CommandTaken ==
    ASSUME card \in CardType, NEW in \in Byte, Exchange(in),
           card.state = "command", card.out = <<>>
    PROVE  /\ image' = image
           /\ IF Len(Append(card.cmd, in)) < CommandLen
              THEN card' = [card EXCEPT !.cmd = Append(card.cmd, in)]
              ELSE \E fails \in BOOLEAN :
                      card' = Execute([card EXCEPT !.cmd = Append(card.cmd, in), !.state = "idle"],
                                      fails)
<1>1. Drained(card) = card
    BY Draining
<1>. QED BY <1>1, CardAssumption DEF Exchange, AwaitCommand, TakeCommand, AwaitBlock, TakeBlock

LEMMA BlockBegun ==
    ASSUME card \in CardType, Exchange(StartBlock), card.state = "writeWait", card.out = <<>>
    PROVE  card' = [card EXCEPT !.state = "writeData", !.buf = <<>>] /\ image' = image
<1>1. Drained(card) = card
    BY Draining
<1>. QED BY <1>1 DEF Exchange, AwaitCommand, TakeCommand, AwaitBlock, TakeBlock

LEMMA BlockTaken ==
    ASSUME card \in CardType, NEW in \in Byte, Exchange(in),
           card.state = "writeData", card.out = <<>>
    PROVE  LET got == [card EXCEPT !.buf = Append(card.buf, in)]
           IN  IF Len(got.buf) < SectorSize + CrcLen
               THEN card' = got /\ image' = image
               ELSE FinishWrite([got EXCEPT !.state = "idle"])
<1>1. Drained(card) = card
    BY Draining
<1>. QED BY <1>1 DEF Exchange, AwaitCommand, TakeCommand, AwaitBlock, TakeBlock

----------------------------------------------------------------------------
(* Commands: what is in their bytes, and what the card makes of them.      *)
LEMMA SectorNumbered ==
    /\ MaxSectors \in Nat /\ MaxSectors > 1000
    /\ \A a \in Nat : a < MaxSectors => a \div 256 < 65536
    BY SMT DEF MaxSectors

LEMMA CommandBytes ==
    ASSUME NEW i \in 0 .. 63, NEW a \in 0 .. MaxSectors - 1
    PROVE  /\ Command(i, a) \in Seq(Byte) /\ Len(Command(i, a)) = CommandLen
           /\ Command(i, a) # <<>>
           /\ Head(Command(i, a)) = 64 + i
           /\ IsCommandStart(64 + i)
           /\ Index(Command(i, a)) = i
           /\ Arg(Command(i, a)) = a
           /\ Command(i, a)[4] % 16 \in Byte /\ Command(i, a)[5] \in Byte
<1> DEFINE q == a \div 256
<1>1. /\ q \in Nat /\ q < 65536
      /\ a % 256 \in Nat /\ a % 256 < 256
      /\ a = (256 * q) + (a % 256)
  <2>1. a \in Nat /\ a < MaxSectors
    BY SectorNumbered
  <2>2. q < 65536
    BY <2>1, SectorNumbered
  <2>3. q \in Nat /\ a % 256 \in Nat /\ a % 256 < 256 /\ a = (256 * q) + (a % 256)
    BY <2>1
  <2>. HIDE DEF q
  <2>. QED BY <2>2, <2>3
<1>2. /\ q \div 256 \in Nat /\ q \div 256 < 256
      /\ q % 256 \in Nat /\ q % 256 < 256
      /\ q = (256 * (q \div 256)) + (q % 256)
  <2>1. q \in Nat /\ q < 65536
    BY <1>1
  <2>. HIDE DEF q
  <2>. QED BY <2>1
<1>3. a \div 65536 = q \div 256
    BY <1>1
<1>4. (64 + i) \div 64 = 1 /\ (64 + i) % 64 = i
    OBVIOUS
<1>5. /\ 64 + i \in Byte /\ 0 \in Byte /\ 1 \in Byte
      /\ a \div 65536 \in Byte /\ (a \div 256) % 256 \in Byte /\ a % 256 \in Byte
  <2>1. \A x \in Nat : x < 256 => x \in Byte
    BY DEF Byte
  <2>2. 64 + i \in Nat /\ 64 + i < 256
    OBVIOUS
  <2>. QED BY <1>1, <1>2, <1>3, <2>1, <2>2
<1>6. /\ IsCommandStart(64 + i)
      /\ ((a \div 65536) * 256 + ((a \div 256) % 256)) * 256 + (a % 256) = a
  <2>. HIDE DEF q
  <2>1. PICK h \in Nat, l \in Nat, r \in Nat :
            h = q \div 256 /\ l = q % 256 /\ r = a % 256
    BY <1>1, <1>2
  <2>2. (h * 256 + l) * 256 + r = a
    BY <2>1, <1>1, <1>2
  <2>3. (a \div 65536) * 256 + ((a \div 256) % 256) = h * 256 + l
    BY <2>1, <1>3 DEF q
  <2>4. ((a \div 65536) * 256 + ((a \div 256) % 256)) * 256 + (a % 256) = a
    BY <2>1, <2>2, <2>3
  <2>. QED BY <2>4, <1>4 DEF IsCommandStart
<1>7. ((a \div 256) % 256) % 16 \in Byte
  <2>1. \A x \in Nat : x % 16 <= 255 /\ x % 16 \in Nat
    OBVIOUS
  <2>2. (a \div 256) % 256 \in Nat
    BY <1>2
  <2>. QED BY <2>1, <2>2 DEF Byte
<1>8. /\ Command(i, a) \in Seq(Byte) /\ Len(Command(i, a)) = 6
      /\ Command(i, a) # <<>> /\ Head(Command(i, a)) = 64 + i
    BY <1>5, Sixes DEF Command
<1>9. /\ Command(i, a)[1] = 64 + i /\ Command(i, a)[2] = 0
      /\ Command(i, a)[3] = a \div 65536 /\ Command(i, a)[4] = (a \div 256) % 256
      /\ Command(i, a)[5] = a % 256
    BY DEF Command
<1>. QED BY <1>4, <1>5, <1>6, <1>8, <1>9, <1>7 DEF Index, Arg, CommandLen

Answers(c, first, more) == c.out = <<Idle>> \o (<<first>> \o more)

SameButOut(e, c) ==
    /\ e.state = c.state /\ e.cmd = c.cmd /\ e.idle = c.idle /\ e.appCmd = c.appCmd
    /\ e.writeSector = c.writeSector /\ e.buf = c.buf /\ e.err = c.err

LEMMA AnswerFields ==
    ASSUME NEW c \in CardType, NEW bytes \in Seq(Byte)
    PROVE  /\ Answer(c, bytes) \in CardType
           /\ SameButOut(Answer(c, bytes), c)
           /\ Answer(c, bytes).out = c.out \o bytes
<1>1. c.out \o bytes \in Seq(Byte)
    BY ConcatProperties DEF CardType
<1>. QED BY <1>1 DEF Answer, CardType, SameButOut

(* A response behind its filler byte: the first byte is R1, more follows   *)
(* it.                                                                     *)
LEMMA Queued ==
    ASSUME NEW c \in CardType, c.out = <<Idle>>, NEW first \in Byte, NEW more \in Seq(Byte)
    PROVE  /\ Answer(c, <<first>> \o more) \in CardType
           /\ SameButOut(Answer(c, <<first>> \o more), c)
           /\ Answers(Answer(c, <<first>> \o more), first, more)
<1>1. <<first>> \o more \in Seq(Byte)
    BY Cons
<1>2. /\ Answer(c, <<first>> \o more) \in CardType
      /\ SameButOut(Answer(c, <<first>> \o more), c)
      /\ Answer(c, <<first>> \o more).out = <<Idle>> \o (<<first>> \o more)
    BY <1>1, AnswerFields
<1>. QED BY <1>2 DEF Answers

LEMMA QueuedAlone ==
    ASSUME NEW c \in CardType, c.out = <<Idle>>, NEW first \in Byte
    PROVE  /\ Answer(c, <<first>>) \in CardType
           /\ SameButOut(Answer(c, <<first>>), c)
           /\ Answers(Answer(c, <<first>>), first, <<>>)
<1>1. <<>> \in Seq(Byte) /\ <<first>> \in Seq(Byte) /\ <<first>> \o <<>> = <<first>>
    BY ConcatEmptySeq
<1>. QED BY <1>1, Queued

R1Bytes == {R1Idle, 0}

LEMMA BlockSeq ==
    ASSUME image \in [SectorNumbers -> Block], NEW s \in SectorNumbers
    PROVE  image[s] \in Seq(Byte) /\ Len(image[s]) = SectorSize
<1>1. SectorSize \in Nat /\ image[s] \in [1 .. SectorSize -> Byte]
    BY CardAssumption DEF Block
<1>. QED BY <1>1

LEMMA CrcSeq == Crc \in Seq(Byte) /\ Len(Crc) = CrcLen
    BY DEF Crc, Idle, Byte, CrcLen

(* The response that carries a block, without its filler. *)
Header(r) == <<r, Idle, StartBlock>>

LEMMA ReadFramed ==
    ASSUME NEW r \in Byte, NEW s \in Seq(Byte)
    PROVE  /\ <<Idle>> \o (<<StartBlock>> \o (s \o Crc)) \in Seq(Byte)
           /\ (Header(r) \o s) \o Crc = <<r>> \o (<<Idle>> \o (<<StartBlock>> \o (s \o Crc)))
<1>1. Idle \in Byte /\ StartBlock \in Byte /\ Crc \in Seq(Byte)
    BY CrcSeq DEF Idle, StartBlock, Byte
<1>2. /\ Header(r) \in Seq(Byte) /\ Header(r) = <<r>> \o (<<Idle>> \o <<StartBlock>>)
    BY <1>1, Threes DEF Header
<1>3. /\ <<r>> \in Seq(Byte) /\ <<Idle>> \in Seq(Byte) /\ <<StartBlock>> \in Seq(Byte)
      /\ <<Idle>> \o <<StartBlock>> \in Seq(Byte)
    BY <1>1, Cons, EmptySeq
<1>4. /\ s \o Crc \in Seq(Byte) /\ <<StartBlock>> \o (s \o Crc) \in Seq(Byte)
      /\ <<Idle>> \o (<<StartBlock>> \o (s \o Crc)) \in Seq(Byte)
    BY <1>1, <1>3, ConcatProperties
<1>5. (Header(r) \o s) \o Crc = Header(r) \o (s \o Crc)
    BY <1>1, <1>2, ConcatAssociative
<1>6. Header(r) \o (s \o Crc) = <<r>> \o ((<<Idle>> \o <<StartBlock>>) \o (s \o Crc))
    BY <1>2, <1>3, <1>4, ConcatAssociative
<1>7. (<<Idle>> \o <<StartBlock>>) \o (s \o Crc) = <<Idle>> \o (<<StartBlock>> \o (s \o Crc))
    BY <1>3, <1>4, ConcatAssociative
<1>. QED BY <1>4, <1>5, <1>6, <1>7

(* What execute makes of command i with argument a.                        *)
ResultOf(e, c, i, a) ==
    /\ e \in CardType
    /\ e.cmd = c.cmd /\ e.buf = c.buf
    /\ i # 24 => e.state = "idle"
    /\ i \notin {0, 41} => e.idle = c.idle
    /\ i # 55 => ~e.appCmd
    /\ i = 0 => e.idle /\ Answers(e, R1Idle, <<>>)
    /\ i = 8 => \E more \in Seq(Byte) : Answers(e, R1(c), more)
    /\ i = 55 => e.appCmd /\ Answers(e, R1(c), <<>>)
    /\ i = 41 => IF c.appCmd THEN ~e.idle /\ Answers(e, 0, <<>>)
                 ELSE e.idle = c.idle /\ Answers(e, R1(c) + R1IllegalCmd, <<>>)
    /\ i = 58 => \E more \in Seq(Byte) : Answers(e, R1(c), more)
    /\ i = 16 => Answers(e, R1(c), <<>>)
    /\ i = 9 => Answers(e, R1(c) + R1IllegalCmd, <<>>)
    /\ i = 17 =>
          \/ Answers(e, R1(c) + R1AddrError, <<>>)
          \/ /\ a \in SectorNumbers
             /\ Answers(e, R1(c), <<Idle>> \o (<<StartBlock>> \o (image[a] \o Crc)))
    /\ i = 24 =>
          \/ e.state = "idle" /\ Answers(e, R1(c) + R1AddrError, <<>>)
          \/ /\ a \in SectorNumbers /\ e.state = "writeWait" /\ e.writeSector = a
             /\ Answers(e, R1(c), <<>>)

Commands == {0, 8, 55, 41, 58, 16, 9, 17, 24}

(* execute, for every command a driver sends.                              *)
LEMMA Executed ==
    ASSUME NEW c \in CardType, c.state = "idle", c.out = <<>>,
           NEW i \in Commands, NEW a \in 0 .. MaxSectors - 1, c.cmd = Command(i, a),
           image \in [SectorNumbers -> Block], NEW fails \in BOOLEAN
    PROVE  ResultOf(Execute(c, fails), c, i, a)
<1> DEFINE d == Answer(AppCmdEnds(c), <<Idle>>)
           e == Execute(c, fails)
<1>1. /\ c.cmd \in Seq(Byte) /\ Index(c.cmd) = i /\ Arg(c.cmd) = a
      /\ c.cmd[4] % 16 \in Byte /\ c.cmd[5] \in Byte
  <2>1. i \in 0 .. 63
    BY DEF Commands
  <2>. QED BY <2>1, CommandBytes
<1>2. /\ d \in CardType /\ d.out = <<Idle>>
      /\ d.state = "idle" /\ d.cmd = c.cmd /\ d.idle = c.idle /\ d.appCmd = FALSE
      /\ d.writeSector = c.writeSector /\ d.buf = c.buf
  <2>1. /\ AppCmdEnds(c) = [c EXCEPT !.appCmd = FALSE]
        /\ AppCmdEnds(c) \in CardType /\ AppCmdEnds(c).out = <<>>
    BY DEF AppCmdEnds, CardType
  <2>2. <<Idle>> \in Seq(Byte) /\ <<>> \o <<Idle>> = <<Idle>>
    BY ConcatEmptySeq DEF Idle, Byte
  <2>3. d \in CardType /\ SameButOut(d, AppCmdEnds(c)) /\ d.out = <<>> \o <<Idle>>
    BY <2>1, <2>2, AnswerFields
  <2>. HIDE DEF d
  <2>. QED BY <2>1, <2>2, <2>3 DEF SameButOut, CardType
<1>. HIDE DEF d
<1>3. /\ R1(c) \in R1Bytes /\ R1(d) = R1(c)
      /\ R1(c) \in Byte /\ R1(c) + R1IllegalCmd \in Byte /\ R1(c) + R1AddrError \in Byte
    BY <1>2 DEF R1, R1Bytes, R1Idle, R1IllegalCmd, R1AddrError, Byte
<1>4. <<>> \in Seq(Byte) /\ 0 \in Byte /\ 192 \in Byte /\ 255 \in Byte /\ 128 \in Byte
      /\ R1Idle \in Byte /\ Idle \in Byte /\ StartBlock \in Byte
    BY DEF Byte, R1Idle, Idle, StartBlock
<1>5. ASSUME NEW g \in CardType, g.out = <<Idle>>, NEW first \in Byte, e = Answer(g, <<first>>)
      PROVE  e \in CardType /\ SameButOut(e, g) /\ Answers(e, first, <<>>)
    BY <1>5, QueuedAlone
<1>6. CASE i = 0
  <2> DEFINE g == [d EXCEPT !.idle = TRUE]
  <2>1. e = Answer(g, <<R1Idle>>)
    BY <1>1, <1>6 DEF Execute, GoIdle, d
  <2>2. /\ g \in CardType /\ g.out = <<Idle>> /\ g.idle /\ ~g.appCmd
        /\ g.state = "idle" /\ g.cmd = c.cmd /\ g.buf = c.buf
    BY <1>2 DEF CardType
  <2>. HIDE DEF g, e
  <2>3. e \in CardType /\ SameButOut(e, g) /\ Answers(e, R1Idle, <<>>)
    BY <1>4, <1>5, <2>1, <2>2
  <2>. QED BY <1>6, <2>2, <2>3 DEF SameButOut, ResultOf, e
<1>7. CASE i = 8
  <2> DEFINE more == <<0, 0, c.cmd[4] % 16, c.cmd[5]>>
  <2>1. e = Answer(d, <<R1(d), 0, 0, c.cmd[4] % 16, c.cmd[5]>>)
    BY <1>1, <1>2, <1>7 DEF Execute, d
  <2>2. more \in Seq(Byte)
    BY <1>1, <1>4
  <2>3. <<R1(c), 0, 0, c.cmd[4] % 16, c.cmd[5]>> = <<R1(c)>> \o more
    OBVIOUS
  <2>. HIDE DEF more, e
  <2>4. e = Answer(d, <<R1(c)>> \o more)
    BY <1>3, <2>1, <2>3
  <2>5. e \in CardType /\ SameButOut(e, d) /\ Answers(e, R1(c), more)
    BY <1>2, <1>3, <2>2, <2>4, Queued
  <2>. QED BY <1>2, <1>7, <2>2, <2>5 DEF SameButOut, ResultOf, e
<1>8. CASE i = 55
  <2> DEFINE g == [d EXCEPT !.appCmd = TRUE]
  <2>1. e = Answer(g, <<R1(c)>>)
    BY <1>1, <1>2, <1>3, <1>8, SMTT(30) DEF Execute, R1, d
  <2>2. /\ g \in CardType /\ g.out = <<Idle>> /\ g.idle = c.idle /\ g.appCmd
        /\ g.state = "idle" /\ g.cmd = c.cmd /\ g.buf = c.buf
    BY <1>2 DEF CardType
  <2>. HIDE DEF g, e
  <2>3. e \in CardType /\ SameButOut(e, g) /\ Answers(e, R1(c), <<>>)
    BY <1>3, <1>5, <2>1, <2>2
  <2>. QED BY <1>8, <2>2, <2>3 DEF SameButOut, ResultOf, e
<1>9. CASE i = 41 /\ c.appCmd
  <2> DEFINE g == [d EXCEPT !.idle = FALSE]
  <2>1. e = Answer(g, <<0>>)
    BY <1>1, <1>9 DEF Execute, d
  <2>2. /\ g \in CardType /\ g.out = <<Idle>> /\ ~g.idle /\ ~g.appCmd
        /\ g.state = "idle" /\ g.cmd = c.cmd /\ g.buf = c.buf
    BY <1>2 DEF CardType
  <2>. HIDE DEF g, e
  <2>3. e \in CardType /\ SameButOut(e, g) /\ Answers(e, 0, <<>>)
    BY <1>4, <1>5, <2>1, <2>2
  <2>. QED BY <1>9, <2>2, <2>3 DEF SameButOut, ResultOf, e
<1>10. CASE (i = 41 /\ ~c.appCmd) \/ i = 9
  <2>1. e = Answer(d, <<R1(d) + R1IllegalCmd>>)
    BY <1>1, <1>10, SMTT(30) DEF Execute, d
  <2>. HIDE DEF e
  <2>2. e \in CardType /\ SameButOut(e, d) /\ Answers(e, R1(c) + R1IllegalCmd, <<>>)
    BY <1>2, <1>3, <1>5, <2>1
  <2>. QED BY <1>2, <1>10, <2>2 DEF SameButOut, ResultOf, e
<1>11. CASE i = 58
  <2> DEFINE more == <<192, 255, 128, 0>>
  <2>1. e = Answer(d, <<R1(d), 192, 255, 128, 0>>)
    BY <1>1, <1>11 DEF Execute, d
  <2>2. more \in Seq(Byte) /\ <<R1(c), 192, 255, 128, 0>> = <<R1(c)>> \o more
    BY <1>4
  <2>. HIDE DEF more, e
  <2>3. e = Answer(d, <<R1(c)>> \o more)
    BY <1>3, <2>1, <2>2
  <2>4. e \in CardType /\ SameButOut(e, d) /\ Answers(e, R1(c), more)
    BY <1>2, <1>3, <2>2, <2>3, Queued
  <2>. QED BY <1>2, <1>11, <2>2, <2>4 DEF SameButOut, ResultOf, e
<1>12. CASE i = 16
  <2>1. e = Answer(d, <<R1(c)>>)
    BY <1>1, <1>2, <1>3, <1>12 DEF Execute, d
  <2>. HIDE DEF e
  <2>2. e \in CardType /\ SameButOut(e, d) /\ Answers(e, R1(c), <<>>)
    BY <1>2, <1>3, <1>5, <2>1
  <2>. QED BY <1>2, <1>12, <2>2 DEF SameButOut, ResultOf, e
<1>13. CASE i = 17
  <2>1. e = ReadBlock(d, a, fails)
    BY <1>1, <1>13 DEF Execute, d
  <2>. HIDE DEF e
  <2>2. CASE a >= Sectors
    <3>1. e = Answer(d, <<R1(c) + R1AddrError>>)
      BY <1>3, <2>1, <2>2 DEF ReadBlock
    <3>2. e \in CardType /\ SameButOut(e, d) /\ Answers(e, R1(c) + R1AddrError, <<>>)
      BY <1>2, <1>3, <1>5, <3>1
    <3>. QED BY <1>2, <1>13, <3>2 DEF SameButOut, ResultOf, e
  <2>3. CASE ~(a >= Sectors) /\ fails
    <3> DEFINE g == Answer(d, <<R1(c) + R1AddrError>>)
    <3>1. e = [g EXCEPT !.err = TRUE]
      BY <1>3, <2>1, <2>3 DEF ReadBlock
    <3>2. g \in CardType /\ SameButOut(g, d) /\ Answers(g, R1(c) + R1AddrError, <<>>)
      BY <1>2, <1>3, QueuedAlone
    <3>. HIDE DEF g
    <3>3. e \in CardType /\ e.out = g.out /\ e.state = g.state /\ e.cmd = g.cmd
          /\ e.idle = g.idle /\ e.appCmd = g.appCmd /\ e.buf = g.buf
      BY <3>1, <3>2 DEF CardType
    <3>4. Answers(e, R1(c) + R1AddrError, <<>>)
      BY <3>2, <3>3 DEF Answers
    <3>. QED BY <1>2, <1>13, <3>2, <3>3, <3>4 DEF SameButOut, ResultOf, e
  <2>4. CASE ~(a >= Sectors) /\ ~fails
    <3>1. a \in SectorNumbers /\ image[a] \in Seq(Byte)
      BY <2>4, CardAssumption, BlockSeq DEF SectorNumbers
    <3> DEFINE more == <<Idle>> \o (<<StartBlock>> \o (image[a] \o Crc))
    <3>2. e = Answer(d, (Header(R1(c)) \o image[a]) \o Crc)
      BY <1>3, <2>1, <2>4 DEF ReadBlock, Crc, Header
    <3>3. /\ more \in Seq(Byte)
          /\ (Header(R1(c)) \o image[a]) \o Crc = <<R1(c)>> \o more
      BY <1>3, <3>1, ReadFramed
    <3>. HIDE DEF more
    <3>4. e \in CardType /\ SameButOut(e, d) /\ Answers(e, R1(c), more)
      BY <1>2, <1>3, <3>2, <3>3, Queued
    <3>. QED BY <1>2, <1>13, <3>1, <3>4 DEF SameButOut, ResultOf, e, more
  <2>. QED BY <2>2, <2>3, <2>4
<1>14. CASE i = 24
  <2>1. e = WriteBlock(d, a)
    BY <1>1, <1>14 DEF Execute, d
  <2>. HIDE DEF e
  <2>2. CASE a >= Sectors
    <3>1. e = Answer(d, <<R1(c) + R1AddrError>>)
      BY <1>3, <2>1, <2>2 DEF WriteBlock
    <3>2. e \in CardType /\ SameButOut(e, d) /\ Answers(e, R1(c) + R1AddrError, <<>>)
      BY <1>2, <1>3, <1>5, <3>1
    <3>. QED BY <1>2, <1>14, <3>2 DEF SameButOut, ResultOf, e
  <2>3. CASE ~(a >= Sectors)
    <3> DEFINE g == Answer(d, <<R1(c)>>)
    <3>1. e = [g EXCEPT !.writeSector = a, !.state = "writeWait"]
      BY <1>3, <2>1, <2>3 DEF WriteBlock
    <3>2. g \in CardType /\ SameButOut(g, d) /\ Answers(g, R1(c), <<>>)
      BY <1>2, <1>3, QueuedAlone
    <3>3. a \in SectorNumbers
      BY <2>3, CardAssumption DEF SectorNumbers
    <3>. HIDE DEF g
    <3>4. e \in CardType /\ e.out = g.out /\ e.state = "writeWait" /\ e.writeSector = a
          /\ e.cmd = g.cmd /\ e.idle = g.idle /\ e.appCmd = g.appCmd /\ e.buf = g.buf
      BY <3>1, <3>2, <3>3 DEF CardType, CardStates
    <3>5. Answers(e, R1(c), <<>>)
      BY <3>2, <3>4 DEF Answers
    <3>. QED BY <1>2, <1>14, <3>2, <3>3, <3>4, <3>5 DEF SameButOut, ResultOf, e
  <2>. QED BY <2>2, <2>3
<1>. QED BY <1>6, <1>7, <1>8, <1>9, <1>10, <1>11, <1>12, <1>13, <1>14 DEF Commands

----------------------------------------------------------------------------
(* A byte the card has no use for.                                         *)
Ignored(in) ==
    \/ card.state = "idle" /\ ~IsCommandStart(in)
    \/ card.state = "writeWait" /\ in # StartBlock

LEMMA IdleIgnored ==
    ASSUME card.state \in {"idle", "writeWait"}
    PROVE  Ignored(Idle)
    BY DEF Ignored, Idle, IsCommandStart, StartBlock

SameCard ==
    /\ card'.state = card.state /\ card'.cmd = card.cmd /\ card'.idle = card.idle
    /\ card'.appCmd = card.appCmd /\ card'.writeSector = card.writeSector
    /\ card'.buf = card.buf

(* Then the response in the queue moves on by one byte.                    *)
LEMMA MovesOn ==
    ASSUME CardTypes, NEW in \in Byte, Transfer(in), Ignored(in)
    PROVE  /\ CardTypes' /\ image' = image /\ SameCard
           /\ card.out = <<>> => shift' = Idle /\ card'.out = <<>>
           /\ \A b \in Byte, s \in Seq(Byte) :
                 card.out = <<b>> \o s => shift' = b /\ card'.out = s
           /\ card.out # <<>> => /\ shift' = Head(card.out) /\ card'.out = Tail(card.out)
                                 /\ Len(card'.out) = Len(card.out) - 1
<1>1. card \in CardType /\ card' = Drained(card) /\ shift' = Driven(card) /\ image' = image
  <2>1. card \in CardType /\ Exchange(in) /\ shift' = Driven(card)
    BY DEF CardTypes, Transfer
  <2>2. card' = Drained(card) /\ image' = image
    BY <2>1, Passed DEF Ignored
  <2>. QED BY <2>1, <2>2
<1>2. CardTypes' /\ SameCard
    BY <1>1, Draining DEF CardTypes, SameCard
<1>3. card.out = <<>> => shift' = Idle /\ card'.out = <<>>
    BY <1>1, Draining
<1>4. card.out # <<>> => shift' = Head(card.out) /\ card'.out = Tail(card.out)
    BY <1>1, Draining
<1>5. \A b \in Byte, s \in Seq(Byte) :
         card.out = <<b>> \o s => shift' = b /\ card'.out = s
  <2>1. TAKE b \in Byte, s \in Seq(Byte)
  <2>2. <<b>> \o s # <<>> /\ Head(<<b>> \o s) = b /\ Tail(<<b>> \o s) = s
    BY Cons
  <2>. QED BY <1>4, <2>2
<1>6. card.out # <<>> => Len(card'.out) = Len(card.out) - 1
    BY <1>1, <1>4, HeadTailProperties DEF CardType
<1>. QED BY <1>1, <1>2, <1>3, <1>4, <1>5, <1>6

SameJob ==
    /\ host'.step = host.step /\ host'.op = host.op /\ host'.index = host.index
    /\ host'.sector = host.sector /\ host'.block = host.block

LEMMA JobKept ==
    ASSUME JobKnown, SameJob
    PROVE  JobKnown'
    BY DEF JobKnown, SameJob

(* Such a step of a driver that is not between two jobs: what is left to   *)
(* show is where in the protocol it ends.                                  *)
LEMMA AfterIgnored ==
    ASSUME HostInv, NEW in \in Byte, Transfer(in), Ignored(in), Quiet,
           host.phase # "ready", host' \in HostType, JobKnown',
           host'.op = host.op, host'.sector = host.sector
    PROVE  Types' /\ JobKnown' /\ WriteUnfinished' /\ OthersIntact'
<1>1. /\ CardTypes' /\ image' = image /\ SameCard
      /\ card.out = <<>> => shift' = Idle /\ card'.out = <<>>
      /\ card.out # <<>> => Len(card'.out) = Len(card.out) - 1
    BY MovesOn DEF HostInv, Types
<1>2. Types'
    BY <1>1 DEF HostInv, Types, Quiet
<1>3. card.state \in {"idle", "writeWait"}
    BY DEF Ignored
<1>4. WriteUnfinished'
  <2>1. Len(card.out) \in Nat /\ Len(<<>>) = 0
    BY LenProperties DEF HostInv, Types, CardTypes, CardType
  <2>2. card.state = "writeWait" => Len(card'.out) <= 2
    BY <1>1, <2>1 DEF HostInv, WriteUnfinished
  <2>. QED BY <1>1, <1>3, <2>2 DEF HostInv, WriteUnfinished, SameCard, Quiet
<1>5. OthersIntact'
    BY <1>1 DEF HostInv, OthersIntact, Quiet
<1>. QED BY <1>2, <1>4, <1>5

----------------------------------------------------------------------------
(* The driver waits: for R1, for the start token, for the data response.   *)
LEMMA FlagsKept ==
    ASSUME SameCard, NEW n
    PROVE  Flags(n)' = Flags(n)
    BY DEF Flags, SameCard

LEMMA DeliveredKept ==
    ASSUME SameJob, image' = image
    PROVE  Delivered' = Delivered
    BY DEF Delivered, SameJob

LEMMA MeantKept ==
    ASSUME SameCard, SameJob, image' = image, NEW first, NEW more, Meant(first, more)
    PROVE  Meant(first, more)'
<1>1. Delivered' = Delivered
    BY DeliveredKept
<1>. QED BY <1>1 DEF Meant, Framed, SameCard, SameJob

LEMMA AnswerState ==
    ASSUME CardTypes, NEW first, NEW more, Meant(first, more)
    PROVE  card.state \in {"idle", "writeWait"}
    BY DEF Meant

LEMMA Held ==
    ASSUME HostInv
    PROVE  /\ CardTypes /\ card \in CardType /\ card.out \in Seq(Byte) /\ shift \in Byte
           /\ host \in HostType /\ host.todo \in Seq(Byte) /\ host.step \in 1 .. 5
           /\ Idle \in Byte /\ <<>> \in Seq(Byte)
    BY DEF HostInv, Types, CardTypes, CardType, HostType, Idle, Byte

(* Two things a wait may end in: another poll, or giving up.               *)
LEMMA Polled ==
    ASSUME HostInv, NEW phase, PollCard(phase), phase \in Phases \ {"ready"}
    PROVE  /\ host' \in HostType /\ SameJob
           /\ \/ host'.phase = phase /\ host'.todo = host.todo /\ host'.got = host.got
              \/ host'.phase = "failed" /\ host'.todo = <<>>
<1>1. host \in HostType /\ host.phase = phase
    BY Held DEF PollCard, Waiting
<1>2. CASE host.polls < MaxPolls
  <2>1. host' = [host EXCEPT !.polls = host.polls + 1]
    BY <1>2 DEF PollCard
  <2>2. host.polls + 1 \in Nat
    BY <1>1 DEF HostType
  <2>. QED BY <1>1, <2>1, <2>2 DEF HostType, SameJob
<1>3. CASE ~(host.polls < MaxPolls)
    BY <1>1, <1>3, EmptySeq DEF PollCard, HostType, SameJob, Failed, Phases
<1>. QED BY <1>2, <1>3

(* A failed driver promises nothing.                                       *)
LEMMA GivenUp ==
    ASSUME host'.phase = "failed", host'.todo = <<>>
    PROVE  Protocol'
    BY DEF Protocol

(* R1 is still under way when the poll finds an idle bus.                  *)
LEMMA PollAnswer ==
    ASSUME HostInv, PollCard("send"), ~Lost
    PROVE  HostInv'
<1>1. /\ host.phase = "send" /\ host.todo = <<>> /\ shift = Idle
      /\ Transfer(Idle) /\ Quiet
    BY DEF PollCard, Waiting
<1>2. PICK first \in Byte \ {Idle}, more \in Replies :
          Coming(first, more) /\ Meant(first, more) /\ Flags(host.step)
    BY <1>1 DEF HostInv, Protocol, Answering
<1>3. Ignored(Idle)
    BY <1>2, AnswerState, IdleIgnored, Held
<1>4. host' \in HostType /\ SameJob
    BY Polled DEF Phases
<1>5. Types' /\ JobKnown' /\ WriteUnfinished' /\ OthersIntact'
    BY <1>1, <1>3, <1>4, AfterIgnored, JobKept, Held DEF HostInv, SameJob
<1>6. CardTypes' /\ image' = image /\ SameCard
      /\ \A b \in Byte, s \in Seq(Byte) : card.out = <<b>> \o s => shift' = b /\ card'.out = s
    BY <1>1, <1>3, MovesOn, Held
<1>7. Coming(first, more)'
  <2>1. <<first>> \o more \in Seq(Byte) /\ more \in Seq(Byte) /\ first \in Byte
    BY <1>2, Cons DEF Replies
  <2>. QED BY <1>1, <1>2, <1>6, <2>1, Held DEF Coming
<1>8. Answering'
    BY <1>2, <1>4, <1>6, <1>7, FlagsKept, MeantKept DEF Answering, SameJob
<1>9. Protocol'
    BY <1>1, <1>8, Polled, GivenUp DEF Protocol, Phases
<1>. QED BY <1>5, <1>9 DEF HostInv

(* So is the start token.                                                  *)
LEMMA PollToken ==
    ASSUME HostInv, PollCard("token")
    PROVE  HostInv'
<1>1. /\ host.phase = "token" /\ host.todo = <<>> /\ shift = Idle
      /\ Transfer(Idle) /\ Quiet
    BY DEF PollCard, Waiting
<1>2. TokenDue
    BY <1>1 DEF HostInv, Protocol
<1>3. Ignored(Idle)
    BY <1>2, IdleIgnored DEF TokenDue, Reading
<1>4. host' \in HostType /\ SameJob
    BY Polled DEF Phases
<1>5. Types' /\ JobKnown' /\ WriteUnfinished' /\ OthersIntact'
    BY <1>1, <1>3, <1>4, AfterIgnored, JobKept, Held DEF HostInv, SameJob
<1>6. CardTypes' /\ image' = image /\ SameCard
      /\ \A b \in Byte, s \in Seq(Byte) : card.out = <<b>> \o s => shift' = b /\ card'.out = s
    BY <1>1, <1>3, MovesOn, Held
<1>7. Delivered' = Delivered /\ Delivered \in Seq(Byte)
  <2>1. image[host.sector] \in Seq(Byte)
    BY <1>2, BlockSeq, Held DEF TokenDue, Reading, CardTypes
  <2>. QED BY <1>4, <1>6, <2>1, CrcSeq, ConcatProperties DEF Delivered, SameJob
<1>8. host'.todo = <<>> => TokenDue'
  <2>1. StartBlock \in Byte /\ StartBlock # Idle
    BY DEF StartBlock, Byte, Idle
  <2>2. shift' = StartBlock /\ card'.out = Delivered
    BY <1>1, <1>2, <1>6, <1>7, <2>1 DEF TokenDue
  <2>. QED BY <1>2, <1>4, <1>6, <1>7, <2>2, FlagsKept DEF TokenDue, Reading, SameJob, SameCard
<1>9. Protocol'
    BY <1>1, <1>8, Polled, GivenUp DEF Protocol, Phases
<1>. QED BY <1>5, <1>9 DEF HostInv

(* And the data response.                                                  *)
LEMMA PollResponse ==
    ASSUME HostInv, PollCard("response")
    PROVE  HostInv'
<1>1. /\ host.phase = "response" /\ host.todo = <<>> /\ shift = Idle
      /\ Transfer(Idle) /\ Quiet
    BY DEF PollCard, Waiting
<1>2. ResponseDue
    BY <1>1 DEF HostInv, Protocol
<1>3. Ignored(Idle)
    BY <1>2, IdleIgnored DEF ResponseDue
<1>4. host' \in HostType /\ SameJob
    BY Polled DEF Phases
<1>5. Types' /\ JobKnown' /\ WriteUnfinished' /\ OthersIntact'
    BY <1>1, <1>3, <1>4, AfterIgnored, JobKept, Held DEF HostInv, SameJob
<1>6. CardTypes' /\ image' = image /\ SameCard
      /\ \A b \in Byte, s \in Seq(Byte) : card.out = <<b>> \o s => shift' = b /\ card'.out = s
    BY <1>1, <1>3, MovesOn, Held
<1>7. PICK first \in {DataAccepted, DataWriteError} :
          /\ \/ shift = Idle /\ card.out = <<first>> \o <<Busy>>
             \/ shift = first /\ card.out = <<Busy>>
          /\ first = DataAccepted => image[host.sector] = host.block
    BY <1>2 DEF ResponseDue
<1>8. first \in Byte /\ first # Idle /\ <<Busy>> \in Seq(Byte)
    BY DEF DataAccepted, DataWriteError, Busy, Idle, Byte
<1>9. shift' = first /\ card'.out = <<Busy>>
    BY <1>1, <1>6, <1>7, <1>8
<1>10. ResponseDue'
    BY <1>2, <1>4, <1>6, <1>7, <1>9, FlagsKept DEF ResponseDue, Writing, SameJob, SameCard
<1>11. Protocol'
    BY <1>1, <1>10, Polled, GivenUp DEF Protocol, Phases
<1>. QED BY <1>5, <1>11 DEF HostInv

(* R1 arrives.                                                             *)
LEMMA AnswerDue ==
    ASSUME HostInv, Result("send"), ~Lost
    PROVE  /\ Flags(host.step)
           /\ card.out \in Seq(Byte)
           /\ Meant(shift, card.out)
           /\ Ignored(Idle)
<1>1. host.phase = "send" /\ host.todo = <<>> /\ shift # Idle
    BY DEF Result, Waiting
<1>2. PICK first \in Byte \ {Idle}, more \in Replies :
          Coming(first, more) /\ Meant(first, more) /\ Flags(host.step)
    BY <1>1 DEF HostInv, Protocol, Answering
<1>3. shift = first /\ card.out = more
    BY <1>1, <1>2 DEF Coming
<1>. QED BY <1>2, <1>3, AnswerState, IdleIgnored, Held DEF Replies

(* After RS in the middle of a write the card does not answer CMD0 as the  *)
(* driver wants it to.                                                     *)
LEMMA LostAnswer ==
    ASSUME HostInv, Result("send"), Lost
    PROVE  host.step = 1 /\ shift # R1Idle /\ Ignored(Idle)
<1>1. host.phase = "send" /\ host.todo = <<>> /\ shift # Idle
    BY DEF Result, Waiting
<1>2. Len(card.out) \in Nat /\ Len(host.todo) = 0
    BY <1>1, Held, LenProperties
<1>3. card.state # "writeData"
    BY <1>1 DEF HostInv, WriteUnfinished
<1>4. card.state # "writeWait"
    BY <1>1, <1>2 DEF Lost, CommandLen
<1>. QED BY <1>3, <1>4, IdleIgnored DEF Lost

(* A wait that ends.                                                       *)
LEMMA ResultParts ==
    ASSUME NEW phase, Result(phase)
    PROVE  host.phase = phase /\ host.todo = <<>> /\ shift # Idle /\ Transfer(Idle)
    BY DEF Result, Waiting

LEMMA FailedHost ==
    ASSUME host \in HostType, host' = Failed(host)
    PROVE  host' \in HostType /\ SameJob /\ Protocol'
<1>1. /\ host' \in HostType /\ SameJob /\ host'.phase = "failed" /\ host'.todo = <<>>
    BY EmptySeq DEF HostType, SameJob, Failed, Phases
<1>. QED BY <1>1, GivenUp

LEMMA FinishedHost ==
    ASSUME NEW h \in HostType
    PROVE  /\ Finished(h) \in HostType
           /\ Finished(h).phase = "ready" /\ Finished(h).todo = <<>>
           /\ Finished(h).step = h.step /\ Finished(h).op = h.op /\ Finished(h).index = h.index
           /\ Finished(h).sector = h.sector /\ Finished(h).block = h.block
           /\ Finished(h).got = h.got
    BY EmptySeq DEF HostType, Finished, Phases

LEMMA SendingHost ==
    ASSUME NEW h \in HostType, NEW phase \in Phases, NEW bytes \in Seq(Byte)
    PROVE  /\ Sending(h, phase, bytes) \in HostType
           /\ Sending(h, phase, bytes).phase = phase /\ Sending(h, phase, bytes).todo = bytes
           /\ Sending(h, phase, bytes).step = h.step /\ Sending(h, phase, bytes).op = h.op
           /\ Sending(h, phase, bytes).index = h.index
           /\ Sending(h, phase, bytes).sector = h.sector
           /\ Sending(h, phase, bytes).block = h.block
           /\ Sending(h, phase, bytes).got = h.got
    BY DEF HostType, Sending

LEMMA SendingNothing ==
    ASSUME host \in HostType, NEW phase \in Phases, host' = Sending(host, phase, <<>>)
    PROVE  host' \in HostType /\ SameJob /\ host'.phase = phase /\ host'.todo = <<>>
<1>1. <<>> \in Seq(Byte)
    OBVIOUS
<1>2. PICK none \in Seq(Byte) : none = <<>>
    BY <1>1
<1>3. host' = Sending(host, phase, none)
    BY <1>2
<1>4. host' \in HostType /\ host'.phase = phase /\ host'.todo = none
    BY <1>3, SendingHost
<1>5. SameJob
    BY <1>3, SendingHost DEF SameJob
<1>. QED BY <1>2, <1>4, <1>5

LEMMA InitCommandBytes ==
    ASSUME NEW n \in 1 .. 4
    PROVE  /\ InitCommands[n] \in Seq(Byte) /\ InitCommands[n] # <<>>
           /\ InitCommands[n] = CASE n = 1 -> Command(0, 0)
                                  [] n = 2 -> Command(8, 256 + 170)
                                  [] n = 3 -> Command(55, 0)
                                  [] OTHER -> Command(41, 0)
<1>1. InitCommands[n] = CASE n = 1 -> Command(0, 0)
                          [] n = 2 -> Command(8, 256 + 170)
                          [] n = 3 -> Command(55, 0)
                          [] OTHER -> Command(41, 0)
    BY DEF InitCommands
<1>2. 0 \in 0 .. MaxSectors - 1 /\ 256 + 170 \in 0 .. MaxSectors - 1
    BY SectorNumbered
<1>3. 0 \in 0 .. 63 /\ 8 \in 0 .. 63 /\ 55 \in 0 .. 63 /\ 41 \in 0 .. 63
    OBVIOUS
<1>4. /\ Command(0, 0) \in Seq(Byte) /\ Command(0, 0) # <<>>
      /\ Command(8, 256 + 170) \in Seq(Byte) /\ Command(8, 256 + 170) # <<>>
      /\ Command(55, 0) \in Seq(Byte) /\ Command(55, 0) # <<>>
      /\ Command(41, 0) \in Seq(Byte) /\ Command(41, 0) # <<>>
    BY <1>2, <1>3, CommandBytes
<1>. QED BY <1>1, <1>4

(* One initialisation command is answered and the next follows it.         *)
LEMMA InitAnsweredKeeps ==
    ASSUME HostInv, InitAnswered
    PROVE  HostInv'
<1>1. /\ host.step \in 1 .. 4 /\ Result("send") /\ Quiet
      /\ host.phase = "send" /\ host.todo = <<>> /\ shift # Idle /\ Transfer(Idle)
    BY Held, ResultParts DEF InitAnswered
<1>2. Ignored(Idle)
    BY <1>1, AnswerDue, LostAnswer
<1>3. CardTypes' /\ image' = image /\ SameCard
    BY <1>1, <1>2, MovesOn, Held
<1>4. CASE host' = Failed(host)
  <2>1. host' \in HostType /\ SameJob /\ Protocol'
    BY <1>4, FailedHost, Held
  <2>. QED BY <1>1, <1>2, <2>1, AfterIgnored, JobKept, Held DEF HostInv, SameJob
<1>5. CASE host' # Failed(host) /\ host.step = 4
  <2>1. host' = Finished(host) /\ shift = 0 /\ ~Lost
    BY <1>1, <1>5, LostAnswer DEF InitAnswered
  <2>2. host' \in HostType /\ SameJob /\ host'.phase = "ready" /\ host'.todo = <<>>
    BY <2>1, FinishedHost, Held DEF SameJob
  <2>3. host.op = "init"
    BY <1>1 DEF HostInv, JobKnown
  <2>4. Flags(5) /\ card.state = "idle"
    BY <1>1, <1>5, <2>1, <2>3, AnswerDue DEF Flags, Meant
  <2>5. Done' /\ ProbesTold'
    BY <1>3, <2>2, <2>3, <2>4, FlagsKept DEF Done, ProbesTold, SameJob, SameCard
  <2>6. Protocol'
    BY <2>2, <2>5 DEF Protocol
  <2>. QED BY <1>1, <1>2, <2>2, <2>6, AfterIgnored, JobKept, Held DEF HostInv, SameJob
<1>6. CASE host' # Failed(host) /\ host.step # 4
  <2> DEFINE n == host.step + 1
             h == Sending(host, "send", InitCommands[n])
  <2>1. n \in 2 .. 4 /\ n \in 1 .. 5 /\ n - 1 = host.step
    BY <1>1, <1>6
  <2>2. host' = [h EXCEPT !.step = n] /\ shift = R1Idle
    BY <1>1, <1>6 DEF InitAnswered, Sending
  <2>3. InitCommands[n] \in Seq(Byte) /\ InitCommands[n] # <<>>
    BY <2>1, InitCommandBytes
  <2>4. host \in HostType /\ "send" \in Phases
    BY Held DEF Phases
  <2>. HIDE DEF n
  <2>5. /\ h \in HostType /\ h.phase = "send" /\ h.todo = InitCommands[n]
        /\ h.op = host.op /\ h.index = host.index /\ h.sector = host.sector
        /\ h.block = host.block
    BY <2>3, <2>4, SendingHost
  <2>. HIDE DEF h
  <2>6. /\ host' \in HostType /\ host'.phase = "send" /\ host'.todo = InitCommands[n]
        /\ host'.step = n /\ host'.op = host.op /\ host'.index = host.index
        /\ host'.sector = host.sector /\ host'.block = host.block
    BY <2>1, <2>2, <2>5 DEF HostType
  <2>7. JobKnown'
    BY <1>1, <2>1, <2>6 DEF HostInv, JobKnown
  <2>8. ~Lost
    BY <1>1, <2>2, LostAnswer
  <2>9. Flags(host.step) /\ card.state = "idle"
    BY <1>1, <2>8, AnswerDue DEF Meant, HostInv, JobKnown
  <2>10. CommandUnderWay'
    <3>1. CommandSent' = InitCommands[n]
      BY <2>1, <2>6 DEF CommandSent
    <3>2. Flags(host.step - 1)'
      <4>1. (host.step - 1)' = host.step
        BY <2>1, <2>6
      <4>. QED BY <1>3, <2>9, <4>1, FlagsKept DEF Flags, SameCard
    <3>. QED BY <1>3, <2>6, <2>9, <3>1, <3>2 DEF CommandUnderWay, SameCard
  <2>11. Protocol'
    BY <2>3, <2>6, <2>10 DEF Protocol
  <2>. QED BY <1>1, <1>2, <2>6, <2>7, <2>11, AfterIgnored, Held DEF HostInv
<1>. QED BY <1>4, <1>5, <1>6

(* A block command is sent by a driver that got through its boot.          *)
LEMMA BlockCommandFound ==
    ASSUME HostInv, host.op # "init"
    PROVE  host.step = 5 /\ ~Lost /\ (Flags(host.step) <=> Flags(5))
    BY Held DEF HostInv, JobKnown, Lost

(* Behind a good R1 to CMD17 the block is on its way.                      *)
LEMMA ReadAnsweredKeeps ==
    ASSUME HostInv, ReadAnswered
    PROVE  HostInv'
<1>1. /\ host.op = "read" /\ Result("send") /\ Quiet
      /\ host.phase = "send" /\ host.todo = <<>> /\ shift # Idle /\ Transfer(Idle)
    BY ResultParts DEF ReadAnswered
<1>2. host.step = 5 /\ ~Lost /\ Flags(5)
    BY <1>1, BlockCommandFound, AnswerDue
<1>3. Ignored(Idle) /\ Meant(shift, card.out)
    BY <1>1, <1>2, AnswerDue
<1>4. CardTypes' /\ image' = image /\ SameCard
      /\ \A b \in Byte, s \in Seq(Byte) : card.out = <<b>> \o s => shift' = b /\ card'.out = s
    BY <1>1, <1>3, MovesOn, Held
<1>5. CASE shift # 0
  <2>1. host' \in HostType /\ SameJob /\ Protocol'
    BY <1>5, FailedHost, Held DEF ReadAnswered
  <2>. QED BY <1>1, <1>3, <2>1, AfterIgnored, JobKept, Held DEF HostInv, SameJob
<1>6. CASE shift = 0
  <2>1. "token" \in Phases /\ host' = Sending(host, "token", <<>>)
    BY <1>6 DEF ReadAnswered, Phases
  <2>2. host' \in HostType /\ SameJob /\ host'.phase = "token" /\ host'.todo = <<>>
    BY <2>1, SendingNothing, Held, Zenon
  <2>3. /\ host.sector \in SectorNumbers /\ card.state = "idle"
        /\ card.out = <<Idle>> \o (<<StartBlock>> \o Delivered)
    BY <1>1, <1>3, <1>6 DEF Meant, Framed, R1AddrError
  <2>4. /\ Idle \in Byte /\ <<StartBlock>> \o Delivered \in Seq(Byte)
        /\ Delivered' = Delivered
    <3>1. image[host.sector] \in Seq(Byte)
      BY <2>3, BlockSeq, Held DEF CardTypes
    <3>2. Delivered \in Seq(Byte) /\ StartBlock \in Byte
      BY <3>1, CrcSeq, ConcatProperties DEF Delivered, StartBlock, Byte
    <3>3. Delivered' = Delivered
      BY <1>4, <2>2, DeliveredKept
    <3>. QED BY <3>2, <3>3, Cons, Held
  <2>5. shift' = Idle /\ card'.out = <<StartBlock>> \o Delivered
    BY <1>4, <2>3, <2>4
  <2>6. TokenDue'
    BY <1>1, <1>2, <1>4, <2>2, <2>3, <2>4, <2>5, FlagsKept
       DEF TokenDue, Reading, SameJob, SameCard
  <2>7. Protocol'
    BY <2>2, <2>6 DEF Protocol
  <2>. QED BY <1>1, <1>3, <2>2, <2>7, AfterIgnored, JobKept, Held DEF HostInv, SameJob
<1>. QED BY <1>5, <1>6

(* R1 tells a probe by its command; what else was queued stays queued.     *)
LEMMA ProbeAnsweredKeeps ==
    ASSUME HostInv, ProbeAnswered
    PROVE  HostInv'
<1>1. /\ host.op = "probe" /\ Result("send") /\ Quiet
      /\ host.phase = "send" /\ host.todo = <<>> /\ shift # Idle /\ Transfer(Idle)
    BY ResultParts DEF ProbeAnswered
<1>2. host.step = 5 /\ ~Lost /\ Flags(5)
    BY <1>1, BlockCommandFound, AnswerDue
<1>3. Ignored(Idle) /\ Meant(shift, card.out)
    BY <1>1, <1>2, AnswerDue
<1>4. CardTypes' /\ image' = image /\ SameCard
    BY <1>1, <1>3, MovesOn, Held
<1>5. /\ host' \in HostType /\ SameJob /\ host'.phase = "ready" /\ host'.todo = <<>>
      /\ host'.got = <<shift>>
  <2> DEFINE h == Finished(host)
  <2>1. /\ h \in HostType /\ h.phase = "ready" /\ h.todo = <<>>
        /\ h.step = host.step /\ h.op = host.op /\ h.index = host.index
        /\ h.sector = host.sector /\ h.block = host.block
    BY FinishedHost, Held
  <2>2. host' = [h EXCEPT !.got = <<shift>>] /\ <<shift>> \in Seq(Byte)
    BY Held DEF ProbeAnswered
  <2>. HIDE DEF h
  <2>. QED BY <2>1, <2>2 DEF HostType, SameJob
<1>6. Done' /\ ProbesTold'
    BY <1>1, <1>2, <1>3, <1>4, <1>5, FlagsKept DEF Done, ProbesTold, Meant, SameJob, SameCard
<1>7. Protocol'
    BY <1>5, <1>6 DEF Protocol
<1>. QED BY <1>1, <1>3, <1>5, <1>7, AfterIgnored, JobKept, Held DEF HostInv, SameJob

(* Behind the token: the block and its CRC, and nothing before them.       *)
LEMMA TokenSeenKeeps ==
    ASSUME HostInv, TokenSeen
    PROVE  HostInv'
<1>1. /\ host.phase = "token" /\ host.todo = <<>> /\ shift # Idle /\ Transfer(Idle) /\ Quiet
    BY ResultParts DEF TokenSeen
<1>2. /\ Reading /\ shift = StartBlock /\ card.out = Delivered
    BY <1>1 DEF HostInv, Protocol, TokenDue
<1>3. Ignored(Idle)
    BY <1>2, IdleIgnored DEF Reading
<1>4. /\ CardTypes' /\ image' = image /\ SameCard
      /\ card.out # <<>> => shift' = Head(card.out) /\ card'.out = Tail(card.out)
    BY <1>1, <1>3, MovesOn, Held
<1>5. /\ host' \in HostType /\ SameJob /\ host'.phase = "data" /\ host'.todo = <<>>
      /\ host'.got = <<>>
  <2>1. host' = [host EXCEPT !.phase = "data", !.got = <<>>]
    BY <1>2 DEF TokenSeen
  <2>. QED BY <1>1, <2>1, Held DEF HostType, SameJob, Phases
<1>6. Delivered' = Delivered
    BY <1>4, <1>5, DeliveredKept
<1>7. Delivered \in Seq(Byte) /\ Delivered # <<>>
  <2>1. image[host.sector] \in Seq(Byte) /\ Len(image[host.sector]) = SectorSize
    BY <1>2, BlockSeq, Held DEF CardTypes, Reading
  <2>2. /\ Delivered \in Seq(Byte) /\ Len(Delivered) = SectorSize + CrcLen
    BY <2>1, CrcSeq, ConcatProperties DEF Delivered
  <2>. QED BY <2>2, EmptySeq, CardAssumption DEF CrcLen
<1>8. host'.got \o (<<shift'>> \o card'.out) = Delivered
  <2>1. card.out = <<Head(card.out)>> \o Tail(card.out)
    BY <1>2, <1>7, ConsOf
  <2>2. <<shift'>> \o card'.out = Delivered
    BY <1>2, <1>4, <1>7, <2>1
  <2>. QED BY <1>5, <1>7, <2>2, ConcatEmptySeq
<1>9. DataDue'
  <2>1. Reading'
    BY <1>2, <1>4, <1>5, FlagsKept DEF Reading, SameJob, SameCard
  <2>. QED BY <1>6, <1>8, <2>1 DEF DataDue
<1>10. Protocol'
    BY <1>5, <1>9 DEF Protocol
<1>. QED BY <1>1, <1>3, <1>5, <1>10, AfterIgnored, JobKept, Held DEF HostInv, SameJob

LEMMA DeliveredSeq ==
    ASSUME CardTypes, host.sector \in SectorNumbers
    PROVE  /\ Delivered \in Seq(Byte)
           /\ Len(Delivered) = SectorSize + CrcLen
           /\ image[host.sector] \in Seq(Byte)
           /\ SubSeq(Delivered, 1, SectorSize) = image[host.sector]
<1>1. image[host.sector] \in Seq(Byte) /\ Len(image[host.sector]) = SectorSize
    BY BlockSeq DEF CardTypes
<1>2. Delivered \in Seq(Byte) /\ Len(Delivered) = SectorSize + CrcLen
    BY <1>1, CrcSeq, ConcatProperties DEF Delivered
<1>3. SectorSize \in Nat \ {0}
    BY CardAssumption
<1>4. SubSeq(Delivered, 1, SectorSize) = SubSeq(image[host.sector], 1, SectorSize)
    BY <1>1, <1>3, CrcSeq, SubSeqOfConcat1 DEF Delivered
<1>5. SubSeq(image[host.sector], 1, SectorSize) = image[host.sector]
    BY <1>1, SubSeqFull
<1>. QED BY <1>1, <1>2, <1>4, <1>5

(* Bytes received, the one shifted out and those queued make up the block. *)
LEMMA DataByteKeeps ==
    ASSUME HostInv, DataByte
    PROVE  HostInv'
<1> DEFINE got == Append(host.got, shift)
<1>1. /\ host.phase = "data" /\ host.todo = <<>> /\ Transfer(Idle) /\ Quiet
    BY DEF DataByte, Waiting
<1>2. Reading /\ host.got \o (<<shift>> \o card.out) = Delivered
    BY <1>1 DEF HostInv, Protocol, DataDue
<1>3. Ignored(Idle)
    BY <1>2, IdleIgnored DEF Reading
<1>4. /\ CardTypes' /\ image' = image /\ SameCard
      /\ card.out # <<>> => shift' = Head(card.out) /\ card'.out = Tail(card.out)
    BY <1>1, <1>3, MovesOn, Held
<1>5. /\ Delivered \in Seq(Byte) /\ Len(Delivered) = SectorSize + CrcLen
      /\ SubSeq(Delivered, 1, SectorSize) = image[host.sector]
      /\ image[host.sector] \in Seq(Byte)
    BY <1>2, DeliveredSeq, Held DEF Reading
<1>6. /\ got \in Seq(Byte) /\ got \o card.out = Delivered
      /\ Len(got) \in Nat /\ Len(card.out) \in Nat
      /\ Len(got) + Len(card.out) = SectorSize + CrcLen
  <2>1. host.got \in Seq(Byte) /\ shift \in Byte /\ card.out \in Seq(Byte)
    BY Held DEF HostType
  <2>2. got \in Seq(Byte)
    BY <2>1, AppendProperties
  <2>3. got \o card.out = Delivered
    <3> DEFINE s == host.got
               t == card.out
    <3>1. s \in Seq(Byte) /\ t \in Seq(Byte) /\ s \o (<<shift>> \o t) = Delivered
      BY <1>2, <2>1
    <3>. HIDE DEF s, t
    <3>2. Append(s, shift) \o t = s \o (<<shift>> \o t)
      BY <2>1, <3>1, Shifted
    <3>. QED BY <3>1, <3>2 DEF s, t
  <2>. HIDE DEF got
  <2>4. Len(got \o card.out) = Len(got) + Len(card.out)
    BY <2>1, <2>2, ConcatProperties
  <2>. QED BY <1>5, <2>1, <2>2, <2>3, <2>4, LenProperties
<1>7. SectorSize \in Nat /\ CrcLen \in Nat
    BY CardAssumption DEF CrcLen
<1>8. CASE Len(got) < SectorSize + CrcLen
  <2>1. host' = [host EXCEPT !.got = got]
    BY <1>8 DEF DataByte
  <2>. HIDE DEF got
  <2>2. /\ host' \in HostType /\ SameJob /\ host'.phase = "data" /\ host'.todo = <<>>
        /\ host'.got = got
    BY <1>1, <1>6, <2>1, Held DEF HostType, SameJob
  <2>3. card.out # <<>>
    BY <1>6, <1>7, <1>8, EmptySeq
  <2>4. card.out = <<Head(card.out)>> \o Tail(card.out)
    BY <2>3, ConsOf, Held
  <2>5. host'.got \o (<<shift'>> \o card'.out) = Delivered
    BY <1>4, <1>6, <2>2, <2>3, <2>4
  <2>6. Delivered' = Delivered
    BY <1>4, <2>2, DeliveredKept
  <2>7. Reading'
    BY <1>2, <1>4, <2>2, FlagsKept DEF Reading, SameJob, SameCard
  <2>8. Protocol'
    BY <2>2, <2>5, <2>6, <2>7 DEF Protocol, DataDue
  <2>. QED BY <1>1, <1>3, <2>2, <2>8, AfterIgnored, JobKept, Held DEF HostInv, SameJob
<1>9. CASE ~(Len(got) < SectorSize + CrcLen)
  <2> DEFINE h == Finished(host)
  <2>1. host' = [h EXCEPT !.got = SubSeq(got, 1, SectorSize)]
    BY <1>9 DEF DataByte
  <2>. HIDE DEF got
  <2>2. card.out = <<>>
    BY <1>6, <1>7, <1>9, EmptySeq, Held
  <2>3. got = Delivered
    BY <1>6, <2>2, ConcatEmptySeq
  <2>4. /\ h \in HostType /\ h.phase = "ready" /\ h.todo = <<>>
        /\ h.step = host.step /\ h.op = host.op /\ h.index = host.index
        /\ h.sector = host.sector /\ h.block = host.block
    BY FinishedHost, Held
  <2>. HIDE DEF h
  <2>5. /\ host' \in HostType /\ SameJob /\ host'.phase = "ready" /\ host'.todo = <<>>
        /\ host'.got = image[host.sector]
    BY <1>5, <2>1, <2>3, <2>4 DEF HostType, SameJob
  <2>6. Done' /\ ProbesTold'
    BY <1>2, <1>4, <2>5, FlagsKept DEF Done, ProbesTold, Reading, SameJob, SameCard
  <2>7. Protocol'
    BY <2>5, <2>6 DEF Protocol
  <2>. QED BY <1>1, <1>3, <2>5, <2>7, AfterIgnored, JobKept, Held DEF HostInv, SameJob
<1>. QED BY <1>8, <1>9

LEMMA WrittenBlock ==
    ASSUME HostInv, host.op = "write"
    PROVE  /\ host.block \in Blocks /\ host.block \in Block
           /\ host.block \in Seq(Byte) /\ Len(host.block) = SectorSize
           /\ host.block \o Crc \in Seq(Byte) /\ Len(host.block \o Crc) = SectorSize + CrcLen
<1>1. host.block \in Blocks /\ host.block \in Block
    BY HostAssumption DEF HostInv, JobKnown
<1>2. host.block \in Seq(Byte) /\ Len(host.block) = SectorSize
  <2>1. SectorSize \in Nat /\ host.block \in [1 .. SectorSize -> Byte]
    BY <1>1, CardAssumption DEF Block
  <2>. QED BY <2>1
<1>. QED BY <1>1, <1>2, CrcSeq, ConcatProperties

(* Behind a good R1 to CMD24 the card waits for the block.                 *)
LEMMA WriteAnsweredKeeps ==
    ASSUME HostInv, WriteAnswered
    PROVE  HostInv'
<1>1. /\ host.op = "write" /\ Result("send") /\ Quiet
      /\ host.phase = "send" /\ host.todo = <<>> /\ shift # Idle /\ Transfer(Idle)
    BY ResultParts DEF WriteAnswered
<1>2. host.step = 5 /\ ~Lost /\ Flags(5)
    BY <1>1, BlockCommandFound, AnswerDue
<1>3. Ignored(Idle) /\ Meant(shift, card.out)
    BY <1>1, <1>2, AnswerDue
<1>4. /\ CardTypes' /\ image' = image /\ SameCard
      /\ card.out = <<>> => shift' = Idle /\ card'.out = <<>>
    BY <1>1, <1>3, MovesOn, Held
<1>5. CASE shift # 0
  <2>1. host' \in HostType /\ SameJob /\ Protocol'
    BY <1>5, FailedHost, Held DEF WriteAnswered
  <2>. QED BY <1>1, <1>3, <2>1, AfterIgnored, JobKept, Held DEF HostInv, SameJob
<1>6. CASE shift = 0
  <2> DEFINE bytes == <<StartBlock>> \o (host.block \o Crc)
  <2>1. host' = Sending(host, "response", (<<StartBlock>> \o host.block) \o Crc)
    BY <1>6 DEF WriteAnswered, Crc
  <2>2. /\ bytes \in Seq(Byte) /\ bytes # <<>>
        /\ (<<StartBlock>> \o host.block) \o Crc = bytes
    <3>1. StartBlock \in Byte /\ <<StartBlock>> \in Seq(Byte)
      BY DEF StartBlock, Byte
    <3> DEFINE b == host.block
    <3>2. b \in Seq(Byte) /\ b \o Crc \in Seq(Byte) /\ Crc \in Seq(Byte)
      BY <1>1, WrittenBlock, CrcSeq
    <3>. HIDE DEF b
    <3>3. (<<StartBlock>> \o b) \o Crc = <<StartBlock>> \o (b \o Crc)
      BY <3>1, <3>2, ConcatAssociative
    <3>4. <<StartBlock>> \o (b \o Crc) \in Seq(Byte) /\ <<StartBlock>> \o (b \o Crc) # <<>>
      BY <3>1, <3>2, Cons
    <3>. QED BY <3>3, <3>4 DEF b
  <2>. HIDE DEF bytes
  <2>3. "response" \in Phases
    BY DEF Phases
  <2>4. host' \in HostType /\ SameJob /\ host'.phase = "response" /\ host'.todo = bytes
    <3>1. host' = Sending(host, "response", bytes)
      BY <2>1, <2>2
    <3>. QED BY <2>2, <2>3, <3>1, SendingHost, Held DEF SameJob
  <2>5. /\ card.out = <<>> /\ card.state = "writeWait" /\ card.writeSector = host.sector
    BY <1>1, <1>3, <1>6 DEF Meant, R1AddrError
  <2>6. host.sector \in SectorNumbers
    BY <2>5, Held DEF CardType
  <2>7. host'.todo = <<StartBlock>> \o (host'.block \o Crc)
    BY <2>4 DEF SameJob, bytes
  <2>8. BlockUnderWay'
    BY <1>1, <1>2, <1>4, <2>4, <2>5, <2>6, <2>7, FlagsKept
       DEF BlockUnderWay, Writing, SameJob, SameCard
  <2>9. Protocol'
    BY <2>2, <2>4, <2>8 DEF Protocol
  <2>. QED BY <1>1, <1>3, <2>4, <2>9, AfterIgnored, JobKept, Held DEF HostInv, SameJob
<1>. QED BY <1>5, <1>6

(* An accepted block is on the image before its response is seen.          *)
LEMMA ResponseSeenKeeps ==
    ASSUME HostInv, ResponseSeen
    PROVE  HostInv'
<1>1. /\ host.phase = "response" /\ host.todo = <<>> /\ shift # Idle /\ Transfer(Idle) /\ Quiet
    BY ResultParts DEF ResponseSeen, Quiet
<1>2. ResponseDue
    BY <1>1 DEF HostInv, Protocol
<1>3. /\ shift \in {DataAccepted, DataWriteError} /\ card.out = <<Busy>>
      /\ shift = DataAccepted => image[host.sector] = host.block
    BY <1>1, <1>2 DEF ResponseDue
<1>4. Ignored(Idle)
    BY <1>2, IdleIgnored DEF ResponseDue
<1>5. /\ CardTypes' /\ image' = image /\ SameCard
      /\ card.out # <<>> => shift' = Head(card.out) /\ card'.out = Tail(card.out)
    BY <1>1, <1>4, MovesOn, Held
<1>6. CASE shift = DataWriteError
  <2>1. host' = Failed(host)
    BY <1>6 DEF ResponseSeen, DataAccepted, DataWriteError
  <2>2. host' \in HostType /\ SameJob /\ Protocol'
    BY <2>1, FailedHost, Held
  <2>. QED BY <1>1, <1>4, <2>2, AfterIgnored, JobKept, Held DEF HostInv, SameJob
<1>7. CASE shift = DataAccepted
  <2>1. host' = Sending(host, "busy", <<>>) /\ "busy" \in Phases
    BY <1>7 DEF ResponseSeen, DataAccepted, Phases
  <2>2. host' \in HostType /\ SameJob /\ host'.phase = "busy" /\ host'.todo = <<>>
    BY <2>1, SendingNothing, Held, Zenon
  <2>3. shift' = Busy /\ card'.out = <<>>
    BY <1>3, <1>5
  <2>4. IdleDue'
    BY <1>2, <1>3, <1>5, <1>7, <2>2, <2>3, FlagsKept
       DEF ResponseDue, IdleDue, Writing, SameJob, SameCard
  <2>5. Protocol'
    BY <2>2, <2>4 DEF Protocol
  <2>. QED BY <1>1, <1>4, <2>2, <2>5, AfterIgnored, JobKept, Held DEF HostInv, SameJob
<1>. QED BY <1>3, <1>6, <1>7

(* The card programs.                                                      *)
LEMMA StillBusyKeeps ==
    ASSUME HostInv, StillBusy
    PROVE  HostInv'
<1>1. /\ host.phase = "busy" /\ Transfer(Idle) /\ Quiet /\ host' = host
    BY DEF StillBusy, Waiting
<1>2. IdleDue
    BY <1>1 DEF HostInv, Protocol
<1>3. Ignored(Idle)
    BY <1>2, IdleIgnored DEF IdleDue
<1>4. /\ CardTypes' /\ image' = image /\ SameCard
      /\ card.out = <<>> => shift' = Idle /\ card'.out = <<>>
    BY <1>1, <1>3, MovesOn, Held
<1>5. SameJob
    BY <1>1 DEF SameJob
<1>6. IdleDue'
    BY <1>1, <1>2, <1>4, <1>5, FlagsKept DEF IdleDue, Writing, SameJob, SameCard
<1>7. Protocol'
    BY <1>1, <1>6 DEF Protocol
<1>. QED BY <1>1, <1>3, <1>5, <1>7, AfterIgnored, JobKept, Held DEF HostInv, SameJob

(* The write is acknowledged: the sector holds the block and is whole.     *)
LEMMA ProgrammedKeeps ==
    ASSUME HostInv, Programmed
    PROVE  HostInv'
<1>1. /\ host.phase = "busy" /\ Transfer(Idle) /\ host' = Finished(host)
      /\ acked' = [acked EXCEPT ![host.sector] = host.block]
      /\ damaged' = damaged \ {host.sector} /\ restarts' = restarts
    BY DEF Programmed, Waiting
<1>2. IdleDue
    BY <1>1 DEF HostInv, Protocol
<1>3. Ignored(Idle)
    BY <1>2, IdleIgnored DEF IdleDue
<1>4. CardTypes' /\ image' = image /\ SameCard
    BY <1>1, <1>3, MovesOn, Held
<1>5. host' \in HostType /\ SameJob /\ host'.phase = "ready" /\ host'.todo = <<>>
    BY <1>1, FinishedHost, Held DEF SameJob
<1>6. host.block \in Blocks
    BY <1>2, WrittenBlock DEF IdleDue, Writing
<1>7. Types'
    BY <1>1, <1>4, <1>5, <1>6 DEF HostInv, Types
<1>8. JobKnown'
    BY <1>5, JobKept DEF HostInv
<1>9. WriteUnfinished'
    BY <1>2, <1>4, <1>5 DEF WriteUnfinished, IdleDue, SameCard
<1>10. OthersIntact'
  <2>1. acked \in [SectorNumbers -> Blocks] /\ OthersIntact
        /\ host.sector \in SectorNumbers /\ image[host.sector] = host.block
    BY <1>2 DEF HostInv, Types, IdleDue, Writing
  <2>2. \A s \in SectorNumbers : s \notin damaged' => image'[s] = acked'[s]
    BY <1>1, <1>4, <2>1 DEF OthersIntact, SectorNumbers
  <2>. QED BY <2>2 DEF OthersIntact, SectorNumbers
<1>11. Done' /\ ProbesTold'
    BY <1>2, <1>4, <1>5, FlagsKept DEF Done, ProbesTold, IdleDue, Writing, SameJob, SameCard
<1>12. Protocol'
    BY <1>5, <1>11 DEF Protocol
<1>. QED BY <1>7, <1>8, <1>9, <1>10, <1>12 DEF HostInv

----------------------------------------------------------------------------
(* Starting and stopping.                                                  *)
LEMMA StartKeeps ==
    ASSUME HostInv, NEW op \in {"read", "write", "probe"}, NEW index \in 0 .. 63,
           NEW sector \in 0 .. Sectors, NEW block \in Seq(Byte),
           op = "read" => index = 17,
           op = "write" => index = 24 /\ block \in Blocks,
           op = "probe" => index \in ProbeIndexes,
           Start(op, index, sector, block)
    PROVE  HostInv'
<1> DEFINE h == Sending(host, "send", Command(index, sector))
<1>1. /\ host.phase = "ready"
      /\ host' = [h EXCEPT !.step = 5, !.op = op, !.index = index, !.sector = sector,
                           !.block = block, !.got = <<>>]
      /\ damaged' = IF op = "write" /\ sector < Sectors THEN damaged \cup {sector} ELSE damaged
      /\ card' = card /\ image' = image /\ shift' = shift /\ restarts' = restarts
      /\ acked' = acked
    BY DEF Start, cardVars
<1>2. Done
    BY <1>1 DEF HostInv, Protocol
<1>3. sector \in 0 .. MaxSectors - 1 /\ (sector < Sectors <=> sector \in SectorNumbers)
    BY CardAssumption, SectorNumbered DEF SectorNumbers
<1>4. Command(index, sector) \in Seq(Byte) /\ Command(index, sector) # <<>>
    BY <1>3, CommandBytes
<1>5. h \in HostType /\ h.phase = "send" /\ h.todo = Command(index, sector)
  <2>1. "send" \in Phases
    BY DEF Phases
  <2>. QED BY <1>4, <2>1, SendingHost, Held
<1>. HIDE DEF h
<1>6. /\ host' \in HostType /\ host'.phase = "send" /\ host'.todo = Command(index, sector)
      /\ host'.step = 5 /\ host'.op = op /\ host'.index = index /\ host'.sector = sector
      /\ host'.block = block
  <2>1. host' = [phase |-> h.phase, todo |-> h.todo, step |-> 5, op |-> op, index |-> index,
                 sector |-> sector, block |-> block, got |-> <<>>, polls |-> h.polls]
    BY <1>1, <1>5 DEF HostType
  <2>2. h.phase \in Phases /\ h.todo \in Seq(Byte) /\ h.polls \in Nat /\ 5 \in 1 .. 5
        /\ op \in {"init", "read", "write", "probe"}
    BY <1>5 DEF HostType
  <2>. QED BY <1>5, <2>1, <2>2, EmptySeq DEF HostType
<1>7. Types'
  <2>1. damaged' \subseteq SectorNumbers
    BY <1>1, <1>3 DEF HostInv, Types
  <2>. QED BY <1>1, <1>6, <2>1 DEF HostInv, Types, CardTypes
<1>8. JobKnown'
    BY <1>6 DEF JobKnown
<1>9. damaged \subseteq damaged'
    BY <1>1
<1>10. WriteUnfinished'
  <2>1. op = "write" => sector = Sectors \/ sector \in damaged'
    BY <1>1, CardAssumption
  <2>. QED BY <1>1, <1>2, <1>6, <2>1 DEF WriteUnfinished, Done
<1>11. OthersIntact'
    BY <1>1, <1>9 DEF HostInv, OthersIntact
<1>12. CommandUnderWay'
    BY <1>1, <1>2, <1>6 DEF CommandUnderWay, CommandSent, Flags, Done
<1>13. Protocol'
    BY <1>4, <1>6, <1>12 DEF Protocol
<1>. QED BY <1>7, <1>8, <1>10, <1>11, <1>13 DEF HostInv

(* A boot begins with CMD0.                                                *)
LEMMA FirstCommand ==
    /\ Booting \in HostType
    /\ Booting.phase = "send" /\ Booting.todo = Command(0, 0) /\ Booting.step = 1
    /\ Booting.op = "init" /\ Booting.todo # <<>> /\ Len(Booting.todo) = CommandLen
    /\ \A i \in 1 .. Len(Booting.todo) :
          Booting.todo[i] \in IF i = 1 THEN {0, 1, 64} ELSE {0, 1}
<1>1. /\ Command(0, 0) = <<64, 0, 0, 0, 0, 1>> /\ Command(0, 0) \in Seq(Byte)
      /\ Command(0, 0) # <<>> /\ Len(Command(0, 0)) = CommandLen
  <2>1. 0 \in 0 .. 63 /\ 0 \in 0 .. MaxSectors - 1
    BY SectorNumbered
  <2>2. Command(0, 0) = <<64, 0, 0, 0, 0, 1>>
    BY DEF Command
  <2>. QED BY <2>1, <2>2, CommandBytes
<1>2. Booting.todo = Command(0, 0)
    BY DEF Booting, InitCommands
<1>3. \A i \in 1 .. 6 : Command(0, 0)[i] \in IF i = 1 THEN {0, 1, 64} ELSE {0, 1}
    BY <1>1
<1>4. Booting \in HostType
    BY <1>1, <1>2, EmptySeq, CardAssumption DEF Booting, HostType, Phases
<1>. QED BY <1>1, <1>2, <1>3, <1>4 DEF Booting, CommandLen

(* The card is deselected and the driver begins again.                     *)
LEMMA BootKeeps ==
    ASSUME HostInv, Deselect, host' = Booting, restarts' \in 0 .. MaxRestarts,
           UNCHANGED <<shift, acked, damaged>>
    PROVE  HostInv'
<1>1. /\ card.state = "command" => card' = [card EXCEPT !.state = "idle"]
      /\ card.state # "command" => card' = card
      /\ image' = image
    BY DEF Deselect, Deselected
<1>2. /\ card' \in CardType /\ card'.out = card.out
      /\ card'.cmd = card.cmd /\ card'.buf = card.buf /\ card'.writeSector = card.writeSector
      /\ card'.state = IF card.state = "command" THEN "idle" ELSE card.state
    BY <1>1, Held DEF CardType, CardStates
<1>3. CardTypes'
    BY <1>1, <1>2 DEF HostInv, Types, CardTypes
<1>4. Types'
    BY <1>3, FirstCommand DEF HostInv, Types
<1>5. JobKnown'
    BY FirstCommand DEF JobKnown
<1>6. WriteUnfinished'
    BY <1>2, FirstCommand DEF HostInv, WriteUnfinished
<1>7. OthersIntact'
    BY <1>1 DEF HostInv, OthersIntact
<1>8. CASE card.state \in {"idle", "command"}
  <2>1. CommandSent' = Command(0, 0)
    BY FirstCommand, InitCommandBytes DEF CommandSent
  <2>2. Flags(host.step - 1)'
    BY FirstCommand DEF Flags
  <2>3. CommandUnderWay'
    BY <1>2, <1>8, <2>1, <2>2, FirstCommand DEF CommandUnderWay
  <2>4. Protocol'
    BY <2>3, FirstCommand DEF Protocol
  <2>. QED BY <1>4, <1>5, <1>6, <1>7, <2>4 DEF HostInv
<1>9. CASE card.state \in {"writeWait", "writeData"}
  <2>1. card'.state = "writeWait" => Len(card'.out) + CommandLen - Len(host'.todo) <= 2
    <3>1. Len(card.out) \in Nat
      BY Held, LenProperties
    <3>2. CommandLen \in Nat
      BY DEF CommandLen
    <3>. QED BY <1>2, <3>1, <3>2, FirstCommand DEF HostInv, WriteUnfinished
  <2>2. Lost'
    BY <1>2, <1>9, <2>1, FirstCommand DEF Lost
  <2>3. Protocol'
    BY <2>2, FirstCommand DEF Protocol
  <2>. QED BY <1>4, <1>5, <1>6, <1>7, <2>3 DEF HostInv
<1>. QED BY <1>8, <1>9, Held DEF CardType, CardStates

----------------------------------------------------------------------------
(* The driver sends a byte.                                                *)
LEMMA SentByte ==
    ASSUME HostInv, SendByte
    PROVE  /\ host' \in HostType /\ SameJob /\ host'.phase = host.phase
           /\ host.todo # <<>> /\ Transfer(Head(host.todo)) /\ Quiet
           /\ Head(host.todo) \in Byte
           /\ host'.todo = Tail(host.todo) /\ Tail(host.todo) \in Seq(Byte)
           /\ host.todo = <<Head(host.todo)>> \o host'.todo
           /\ Len(host.todo) = Len(host'.todo) + 1
           /\ Len(host'.todo) \in Nat
           /\ host.phase \in {"send", "response"}
<1>1. host.todo # <<>> /\ Transfer(Head(host.todo)) /\ Quiet
      /\ host' = [host EXCEPT !.todo = Tail(host.todo)]
    BY DEF SendByte
<1>2. /\ Head(host.todo) \in Byte /\ Tail(host.todo) \in Seq(Byte)
      /\ host.todo = <<Head(host.todo)>> \o Tail(host.todo)
      /\ Len(host.todo) = Len(Tail(host.todo)) + 1
    BY <1>1, ConsOf, Held
<1>3. /\ host' \in HostType /\ SameJob /\ host'.phase = host.phase
      /\ host'.todo = Tail(host.todo)
    BY <1>1, <1>2, Held DEF HostType, SameJob
<1>4. host.phase \in {"send", "response"}
    BY <1>1, Held
       DEF HostInv, Protocol, TokenDue, DataDue, Reading, IdleDue, Done, HostType, Phases
<1>. QED BY <1>1, <1>2, <1>3, <1>4, LenProperties

CommandIndex ==
    CASE host.step = 1 -> 0
      [] host.step = 2 -> 8
      [] host.step = 3 -> 55
      [] host.step = 4 -> 41
      [] OTHER         -> host.index

CommandArg ==
    CASE host.step = 2 -> 256 + 170
      [] host.step = 5 -> host.sector
      [] OTHER         -> 0

LEMMA SentCommand ==
    ASSUME HostInv
    PROVE  /\ CommandSent = Command(CommandIndex, CommandArg)
           /\ CommandIndex \in Commands /\ CommandIndex \in 0 .. 63
           /\ CommandArg \in 0 .. MaxSectors - 1
           /\ CommandSent \in Seq(Byte) /\ Len(CommandSent) = CommandLen
           /\ CommandSent # <<>>
           /\ IsCommandStart(Head(CommandSent))
<1>1. CommandSent = Command(CommandIndex, CommandArg)
  <2>1. CASE host.step \in 1 .. 4
    BY <2>1, InitCommandBytes DEF CommandSent, CommandIndex, CommandArg
  <2>2. CASE host.step = 5
    BY <2>2 DEF CommandSent, CommandIndex, CommandArg
  <2>. QED BY <2>1, <2>2, Held
<1>2. CommandIndex \in Commands
  <2>1. CASE host.step \in 1 .. 4
    BY <2>1 DEF CommandIndex, Commands
  <2>2. CASE host.step = 5
    BY <2>2 DEF CommandIndex, Commands, HostInv, JobKnown, ProbeIndexes, Types, HostType
  <2>. QED BY <2>1, <2>2, Held
<1>3. CommandIndex \in 0 .. 63
    BY <1>2 DEF Commands
<1>4. CommandArg \in 0 .. MaxSectors - 1
  <2>1. host.sector \in 0 .. Sectors
    BY Held DEF HostType
  <2>. QED BY <2>1, CardAssumption, SectorNumbered DEF CommandArg
<1>. QED BY <1>1, <1>2, <1>3, <1>4, CommandBytes

(* The first byte of a command: what was left of a response is dropped.    *)
LEMMA CommandBegins ==
    ASSUME HostInv, SendByte, host.phase = "send", CommandUnderWay, card.state = "idle"
    PROVE  HostInv'
<1> DEFINE in == Head(host.todo)
<1>1. host.todo = CommandSent
    BY DEF CommandUnderWay
<1>2. /\ host' \in HostType /\ SameJob /\ host'.phase = "send" /\ Transfer(in) /\ Quiet
      /\ in \in Byte /\ host.todo = <<in>> \o host'.todo
      /\ Len(host.todo) = Len(host'.todo) + 1 /\ Len(host'.todo) \in Nat
      /\ host'.todo \in Seq(Byte)
    BY SentByte
<1>3. IsCommandStart(in) /\ Len(host.todo) = CommandLen
    BY <1>1, SentCommand
<1>. HIDE DEF in
<1>4. card' = [card EXCEPT !.state = "command", !.cmd = <<in>>, !.out = <<>>]
      /\ image' = image /\ shift' = Driven(card)
    BY <1>2, <1>3, CommandBegun, Held DEF Transfer
<1>5. <<in>> \in Seq(Byte) /\ <<in>> # <<>> /\ Len(<<in>>) = 1
    BY <1>2
<1>6. /\ card' \in CardType /\ card'.state = "command" /\ card'.cmd = <<in>>
      /\ card'.out = <<>> /\ card'.idle = card.idle /\ card'.appCmd = card.appCmd
      /\ card'.buf = card.buf
    BY <1>4, <1>5, Held DEF CardType, CardStates
<1>7. CardTypes'
  <2>1. shift' \in Byte
    BY <1>4, Draining, Held
  <2>2. Len(card'.cmd) < CommandLen /\ Len(card'.cmd) <= CommandLen
    BY <1>5, <1>6 DEF CommandLen
  <2>. QED BY <1>4, <1>6, <2>1, <2>2 DEF HostInv, Types, CardTypes
<1>8. Types'
    BY <1>2, <1>7 DEF HostInv, Types, Quiet
<1>9. JobKnown' /\ OthersIntact' /\ WriteUnfinished'
    BY <1>2, <1>4, <1>6, JobKept DEF HostInv, OthersIntact, WriteUnfinished, Quiet, SameJob
<1>10. CommandUnderWay'
  <2>1. CommandSent' = CommandSent
    BY <1>2 DEF CommandSent, SameJob
  <2>2. Flags(host.step - 1)'
    BY <1>2, <1>6 DEF CommandUnderWay, Flags, SameJob
  <2>3. card'.cmd \o host'.todo = CommandSent
    BY <1>1, <1>2, <1>6
  <2>4. Len(card'.cmd) = 1 /\ card'.cmd # <<>>
    BY <1>5, <1>6
  <2>. QED BY <1>6, <2>1, <2>2, <2>3, <2>4 DEF CommandUnderWay
<1>11. host'.todo # <<>>
  <2>1. Len(host'.todo) # 0
    BY <1>2, <1>3 DEF CommandLen
  <2>. QED BY <2>1, EmptySeq
<1>12. Protocol'
    BY <1>2, <1>10, <1>11 DEF Protocol
<1>. QED BY <1>8, <1>9, <1>12 DEF HostInv

(* Six bytes make a command.                                               *)
LEMMA LastByte ==
    ASSUME NEW n \in Nat, NEW m \in Nat, n + m = CommandLen
    PROVE  IF n < CommandLen THEN m # 0 ELSE m = 0 /\ n = CommandLen
    BY DEF CommandLen

(* The card's command buffer behind the byte sent.                         *)
LEMMA CommandBytesTaken ==
    ASSUME HostInv, SendByte, host.phase = "send", CommandUnderWay, card.state = "command",
           NEW cmd, cmd = Append(card.cmd, Head(host.todo))
    PROVE  /\ cmd \in Seq(Byte) /\ cmd \o host'.todo = CommandSent
           /\ Len(cmd) \in Nat /\ Len(host'.todo) \in Nat
           /\ Len(cmd) + Len(host'.todo) = CommandLen
           /\ shift' = Idle /\ image' = image
<1> DEFINE in == Head(host.todo)
           s == card.cmd
           t == host'.todo
<1>1. card.cmd \o host.todo = CommandSent /\ card.out = <<>>
    BY DEF CommandUnderWay
<1>2. /\ Transfer(in) /\ in \in Byte /\ host.todo = <<in>> \o t
      /\ t \in Seq(Byte) /\ Len(t) \in Nat
    BY SentByte
<1>3. s \in Seq(Byte) /\ s \o (<<in>> \o t) = CommandSent /\ cmd = Append(s, in)
    BY <1>1, <1>2, Held DEF CardType
<1>4. shift' = Idle /\ image' = image
  <2>1. image' = image
    BY <1>1, <1>2, CommandTaken, Held DEF Transfer
  <2>2. shift' = Idle
    BY <1>1, <1>2, Draining, Held DEF Transfer
  <2>. QED BY <2>1, <2>2
<1>. HIDE DEF in, s
<1>5. cmd \in Seq(Byte) /\ Len(cmd) \in Nat
    BY <1>2, <1>3, AppendProperties, LenProperties DEF s
<1>6. cmd \o t = CommandSent
  <2>. HIDE DEF t
  <2>1. Append(s, in) \o t = s \o (<<in>> \o t)
    BY <1>2, <1>3, Shifted
  <2>. QED BY <1>3, <2>1
<1>7. Len(cmd) + Len(t) = CommandLen
  <2>. HIDE DEF t
  <2>1. Len(cmd \o t) = Len(cmd) + Len(t)
    BY <1>2, <1>5, ConcatProperties
  <2>. QED BY <1>6, <2>1, SentCommand
<1>. QED BY <1>2, <1>4, <1>5, <1>6, <1>7

(* A byte in the middle of one.                                            *)
LEMMA CommandContinues ==
    ASSUME HostInv, SendByte, host.phase = "send", CommandUnderWay, card.state = "command",
           NEW cmd, cmd = Append(card.cmd, Head(host.todo)), Len(cmd) < CommandLen
    PROVE  HostInv'
<1>1. /\ cmd \in Seq(Byte) /\ cmd \o host'.todo = CommandSent
      /\ Len(cmd) \in Nat /\ Len(host'.todo) \in Nat
      /\ Len(cmd) + Len(host'.todo) = CommandLen
      /\ shift' = Idle /\ image' = image
    BY CommandBytesTaken
<1>2. /\ host' \in HostType /\ SameJob /\ host'.phase = "send" /\ Quiet
      /\ Exchange(Head(host.todo)) /\ Head(host.todo) \in Byte
    BY SentByte DEF Transfer
<1>3. cmd # <<>>
    BY Held, AppendProperties, SentByte DEF CardType
<1>4. card.out = <<>> /\ card' = [card EXCEPT !.cmd = cmd]
    BY <1>2, CommandTaken, Held DEF CommandUnderWay
<1>5. /\ card' \in CardType /\ card'.state = "command" /\ card'.cmd = cmd
      /\ card'.out = <<>> /\ card'.idle = card.idle /\ card'.appCmd = card.appCmd
      /\ card'.buf = card.buf
    BY <1>1, <1>4, Held DEF CardType
<1>6. CardTypes'
    BY <1>1, <1>5, Held DEF HostInv, Types, CardTypes, CommandLen
<1>7. Types'
    BY <1>2, <1>6 DEF HostInv, Types, Quiet
<1>8. JobKnown' /\ OthersIntact' /\ WriteUnfinished'
    BY <1>1, <1>2, <1>5, JobKept DEF HostInv, OthersIntact, WriteUnfinished, Quiet, SameJob
<1>9. CommandUnderWay'
  <2>1. CommandSent' = CommandSent
    BY <1>2 DEF CommandSent, SameJob
  <2>2. Flags(host.step - 1)'
    BY <1>2, <1>5 DEF CommandUnderWay, Flags, SameJob
  <2>3. card'.cmd \o host'.todo = CommandSent
    BY <1>1, <1>5
  <2>. QED BY <1>1, <1>3, <1>5, <2>1, <2>2, <2>3 DEF CommandUnderWay
<1>10. host'.todo # <<>>
  <2>1. Len(host'.todo) # 0
    BY <1>1, LastByte
  <2>. QED BY <2>1, EmptySeq
<1>11. Protocol'
    BY <1>2, <1>9, <1>10 DEF Protocol
<1>. QED BY <1>7, <1>8, <1>11 DEF HostInv

(* The sixth byte: what the card queues is what the driver is meant to     *)
(* hear, and its flags are those behind this command.                      *)
LEMMA CommandMeant ==
    ASSUME HostInv, Flags(host.step - 1), SameJob, image' = image,
           NEW c \in CardType, c.idle = card.idle, c.appCmd = card.appCmd,
           ResultOf(card', c, CommandIndex, CommandArg)
    PROVE  /\ Flags(host.step)'
           /\ \E first \in Byte \ {Idle}, more \in Seq(Byte) :
                 Answers(card', first, more) /\ Meant(first, more)'
           /\ card'.state \in {"idle", "writeWait"}
           /\ card'.state = "writeWait" =>
                 /\ host.op = "write" /\ card'.writeSector = host.sector
                 /\ \E first \in Byte : Answers(card', first, <<>>)
<1>1. /\ host.step \in 1 .. 5 /\ card'.idle \in BOOLEAN /\ card'.appCmd \in BOOLEAN
      /\ c.idle \in BOOLEAN /\ c.appCmd \in BOOLEAN
    BY Held DEF ResultOf, CardType
<1>2. /\ 0 \in Byte \ {Idle} /\ R1Idle \in Byte \ {Idle} /\ R1IllegalCmd \in Byte \ {Idle}
      /\ R1AddrError \in Byte \ {Idle} /\ <<>> \in Seq(Byte)
      /\ 0 + R1IllegalCmd = R1IllegalCmd /\ 0 + R1AddrError = R1AddrError
    BY DEF Byte, Idle, R1Idle, R1IllegalCmd, R1AddrError
<1>3. CASE host.step = 1
  <2>1. /\ CommandIndex = 0 /\ host.op = "init"
    BY <1>3 DEF CommandIndex, HostInv, JobKnown
  <2>2. card'.idle /\ ~card'.appCmd /\ Answers(card', R1Idle, <<>>) /\ card'.state = "idle"
    BY <2>1 DEF ResultOf
  <2>3. Meant(R1Idle, <<>>)' /\ Flags(host.step)'
    BY <1>3, <2>1, <2>2 DEF Meant, Flags, SameJob
  <2>. QED BY <1>2, <2>2, <2>3
<1>4. CASE host.step = 2
  <2>1. /\ CommandIndex = 8 /\ host.op = "init" /\ c.idle /\ ~c.appCmd
    BY <1>4 DEF CommandIndex, HostInv, JobKnown, Flags
  <2>2. R1(c) = R1Idle
    BY <2>1 DEF R1
  <2>3. PICK more \in Seq(Byte) : Answers(card', R1Idle, more)
    BY <2>1, <2>2 DEF ResultOf
  <2>4. card'.idle /\ ~card'.appCmd /\ card'.state = "idle"
    <3>1. CommandIndex \notin {0, 41} /\ CommandIndex # 55 /\ CommandIndex # 24
      BY <2>1
    <3>2. card'.idle = c.idle /\ ~card'.appCmd /\ card'.state = "idle"
      BY <3>1, Zenon DEF ResultOf
    <3>. QED BY <1>1, <2>1, <3>2
  <2>5. Meant(R1Idle, more)' /\ Flags(host.step)'
    BY <1>4, <2>1, <2>4 DEF Meant, Flags, SameJob
  <2>. QED BY <1>2, <2>3, <2>4, <2>5
<1>5. CASE host.step = 3
  <2>1. /\ CommandIndex = 55 /\ host.op = "init" /\ c.idle
    BY <1>5 DEF CommandIndex, HostInv, JobKnown, Flags
  <2>2. R1(c) = R1Idle
    BY <2>1 DEF R1
  <2>3. card'.idle /\ card'.appCmd /\ Answers(card', R1Idle, <<>>) /\ card'.state = "idle"
    <3>1. CommandIndex \notin {0, 41} /\ CommandIndex = 55 /\ CommandIndex # 24
      BY <2>1
    <3>2. /\ card'.idle = c.idle /\ card'.appCmd /\ card'.state = "idle"
          /\ Answers(card', R1(c), <<>>)
      BY <3>1, Zenon DEF ResultOf
    <3>. QED BY <1>1, <2>1, <2>2, <3>2
  <2>4. Meant(R1Idle, <<>>)' /\ Flags(host.step)'
    BY <1>5, <2>1, <2>3 DEF Meant, Flags, SameJob
  <2>. QED BY <1>2, <2>3, <2>4
<1>6. CASE host.step = 4
  <2>1. /\ CommandIndex = 41 /\ host.op = "init" /\ c.appCmd
    BY <1>6 DEF CommandIndex, HostInv, JobKnown, Flags
  <2>2. ~card'.idle /\ ~card'.appCmd /\ Answers(card', 0, <<>>) /\ card'.state = "idle"
    BY <2>1 DEF ResultOf
  <2>3. Meant(0, <<>>)' /\ Flags(host.step)'
    BY <1>6, <2>1, <2>2 DEF Meant, Flags, SameJob
  <2>. QED BY <1>2, <2>2, <2>3
<1>7. CASE host.step = 5
  <2>1. /\ CommandIndex = host.index /\ CommandArg = host.sector
        /\ ~c.idle /\ ~c.appCmd /\ host.op \in {"read", "write", "probe"}
    BY <1>7, Held DEF CommandIndex, CommandArg, HostInv, JobKnown, Flags, HostType
  <2>2. R1(c) = 0
    BY <2>1 DEF R1
  <2>3. CASE host.op = "read"
    <3>1. host.index = 17
      BY <2>3 DEF HostInv, JobKnown
    <3>2. ~card'.idle /\ ~card'.appCmd /\ card'.state = "idle" /\ Flags(host.step)'
      BY <1>7, <2>1, <3>1 DEF ResultOf, Flags, SameJob
    <3>3. \/ Answers(card', R1AddrError, <<>>)
          \/ /\ host.sector \in SectorNumbers
             /\ Answers(card', 0, <<Idle>> \o (<<StartBlock>> \o Delivered))
      BY <1>2, <2>1, <2>2, <3>1 DEF ResultOf, Delivered
    <3>4. CASE Answers(card', R1AddrError, <<>>)
      <4>1. Meant(R1AddrError, <<>>)'
        BY <1>7, <2>3, <3>2 DEF Meant, SameJob
      <4>. QED BY <1>2, <3>2, <3>4, <4>1
    <3>5. CASE /\ host.sector \in SectorNumbers
               /\ Answers(card', 0, <<Idle>> \o (<<StartBlock>> \o Delivered))
      <4>1. <<Idle>> \o (<<StartBlock>> \o Delivered) \in Seq(Byte)
        <5>1. Delivered \in Seq(Byte) /\ StartBlock \in Byte
          BY <3>5, DeliveredSeq, Held DEF StartBlock, Byte
        <5>. QED BY <5>1, Cons, Held
      <4>2. PICK more \in Seq(Byte) : more = <<Idle>> \o (<<StartBlock>> \o Delivered)
        BY <4>1, Zenon
      <4>3. Answers(card', 0, more)
        BY <3>5, <4>2, Zenon
      <4>4. Framed(more)'
        BY <4>2, DeliveredKept, Zenon DEF Framed
      <4>5. Meant(0, more)'
        BY <1>7, <2>3, <3>2, <3>5, <4>4 DEF Meant, SameJob
      <4>6. card'.state \in {"idle", "writeWait"} /\ card'.state # "writeWait"
        BY <3>2
      <4>. QED BY <1>2, <3>2, <4>3, <4>5, <4>6, Zenon
    <3>. QED BY <3>3, <3>4, <3>5
  <2>4. CASE host.op = "write"
    <3>1. host.index = 24
      BY <2>4 DEF HostInv, JobKnown
    <3>2. ~card'.idle /\ ~card'.appCmd /\ Flags(host.step)'
      BY <1>7, <2>1, <3>1 DEF ResultOf, Flags, SameJob
    <3>3. \/ card'.state = "idle" /\ Answers(card', R1AddrError, <<>>)
          \/ /\ card'.state = "writeWait" /\ card'.writeSector = host.sector
             /\ Answers(card', 0, <<>>)
      BY <1>2, <2>1, <2>2, <3>1 DEF ResultOf
    <3>4. CASE card'.state = "idle" /\ Answers(card', R1AddrError, <<>>)
      <4>1. Meant(R1AddrError, <<>>)'
        BY <1>7, <2>4, <3>2, <3>4 DEF Meant, SameJob
      <4>. QED BY <1>2, <3>2, <3>4, <4>1
    <3>5. CASE /\ card'.state = "writeWait" /\ card'.writeSector = host.sector
               /\ Answers(card', 0, <<>>)
      <4>1. Meant(0, <<>>)'
        BY <1>7, <2>4, <3>2, <3>5 DEF Meant, SameJob
      <4>. QED BY <1>2, <2>4, <3>2, <3>5, <4>1
    <3>. QED BY <3>3, <3>4, <3>5
  <2>5. CASE host.op = "probe"
    <3>1. host.index \in ProbeIndexes
      BY <2>5 DEF HostInv, JobKnown
    <3>2. ~card'.idle /\ ~card'.appCmd /\ card'.state = "idle" /\ Flags(host.step)'
      BY <1>7, <2>1, <3>1 DEF ResultOf, Flags, SameJob, ProbeIndexes
    <3>3. CASE host.index \in {9, 41}
      <4>1. Answers(card', R1IllegalCmd, <<>>)
        BY <1>2, <2>1, <2>2, <3>3 DEF ResultOf
      <4>2. Meant(R1IllegalCmd, <<>>)'
        BY <1>7, <2>5, <3>2, <3>3 DEF Meant, SameJob
      <4>. QED BY <1>2, <3>2, <4>1, <4>2
    <3>4. CASE host.index \in {58, 16}
      <4>1. PICK more \in Seq(Byte) : Answers(card', 0, more)
        BY <1>2, <2>1, <2>2, <3>4 DEF ResultOf
      <4>2. Meant(0, more)'
        BY <1>7, <2>5, <3>2, <3>4 DEF Meant, SameJob
      <4>. QED BY <1>2, <3>2, <4>1, <4>2
    <3>. QED BY <3>1, <3>3, <3>4 DEF ProbeIndexes
  <2>. QED BY <2>1, <2>3, <2>4, <2>5
<1>. QED BY <1>1, <1>3, <1>4, <1>5, <1>6, <1>7

(* The last byte of one.                                                   *)
LEMMA CommandEnds ==
    ASSUME HostInv, SendByte, host.phase = "send", CommandUnderWay, card.state = "command",
           NEW cmd, cmd = Append(card.cmd, Head(host.todo)), ~(Len(cmd) < CommandLen)
    PROVE  HostInv'
<1>1. /\ cmd \in Seq(Byte) /\ cmd \o host'.todo = CommandSent
      /\ Len(cmd) \in Nat /\ Len(host'.todo) \in Nat
      /\ Len(cmd) + Len(host'.todo) = CommandLen
      /\ shift' = Idle /\ image' = image
    BY CommandBytesTaken
<1>2. /\ host' \in HostType /\ SameJob /\ host'.phase = "send" /\ Quiet
      /\ Exchange(Head(host.todo)) /\ Head(host.todo) \in Byte
    BY SentByte DEF Transfer
<1>3. host'.todo = <<>> /\ Len(cmd) = CommandLen
  <2>1. Len(host'.todo) = 0 /\ Len(cmd) = CommandLen
    BY <1>1, LastByte
  <2>. QED BY <1>2, <2>1, EmptySeq DEF HostType
<1>4. cmd = Command(CommandIndex, CommandArg)
  <2>1. cmd \o <<>> = cmd
    BY <1>1, ConcatEmptySeq
  <2>. QED BY <1>1, <1>3, <2>1, SentCommand
<1> DEFINE s == [card EXCEPT !.cmd = cmd, !.state = "idle"]
<1>5. PICK fails \in BOOLEAN : card' = Execute(s, fails)
    BY <1>2, CommandTaken, Held DEF CommandUnderWay
<1>6. PICK c \in CardType :
         /\ c = s /\ c.state = "idle" /\ c.out = <<>> /\ c.cmd = cmd
         /\ c.idle = card.idle /\ c.appCmd = card.appCmd /\ c.buf = card.buf
  <2>1. card.out = <<>>
    BY DEF CommandUnderWay
  <2>2. /\ s \in CardType /\ s.state = "idle" /\ s.out = <<>> /\ s.cmd = cmd
        /\ s.idle = card.idle /\ s.appCmd = card.appCmd /\ s.buf = card.buf
    BY <1>1, <2>1, Held DEF CardType, CardStates
  <2>. HIDE DEF s
  <2>. QED BY <2>2
<1>7. card' = Execute(c, fails)
    BY <1>5, <1>6
<1>. HIDE DEF s
<1>8. ResultOf(card', c, CommandIndex, CommandArg)
    BY <1>4, <1>6, <1>7, SentCommand, Executed, Held DEF CardTypes
<1>9. card' \in CardType /\ card'.cmd = cmd /\ card'.buf = card.buf
    BY <1>6, <1>8, Zenon DEF ResultOf
<1>10. Flags(host.step - 1)
    BY DEF CommandUnderWay
<1>11. /\ Flags(host.step)'
       /\ \E first \in Byte \ {Idle}, more \in Seq(Byte) :
             Answers(card', first, more) /\ Meant(first, more)'
       /\ card'.state \in {"idle", "writeWait"}
       /\ card'.state = "writeWait" =>
             /\ host.op = "write" /\ card'.writeSector = host.sector
             /\ \E first \in Byte : Answers(card', first, <<>>)
    BY <1>1, <1>2, <1>6, <1>8, <1>10, CommandMeant
<1>12. CardTypes'
    BY <1>1, <1>3, <1>9, <1>11, Held DEF CardTypes, CommandLen
<1>13. Types'
    BY <1>2, <1>12 DEF HostInv, Types, Quiet
<1>14. WriteUnfinished'
  <2>1. CASE card'.state = "writeWait"
    <3>1. host.sector \in damaged
      <4>1. host.sector # Sectors
        BY <1>9, <1>11, <2>1, CardAssumption DEF CardType, SectorNumbers
      <4>. QED BY <1>11, <2>1, <4>1 DEF HostInv, WriteUnfinished
    <3>2. Len(card'.out) <= 2
      <4>1. PICK first \in Byte : card'.out = <<Idle>> \o (<<first>> \o <<>>)
        BY <1>11, <2>1 DEF Answers
      <4>2. <<first>> \o <<>> \in Seq(Byte) /\ Len(<<first>> \o <<>>) = 1
        BY Cons, EmptySeq
      <4>3. Len(<<Idle>> \o (<<first>> \o <<>>)) = 2
        BY <4>2, Cons, Held
      <4>. QED BY <4>1, <4>3
    <3>. QED BY <1>2, <1>11, <2>1, <3>1, <3>2 DEF WriteUnfinished, HostInv, SameJob, Quiet
  <2>2. CASE card'.state = "idle"
    BY <1>2, <2>2 DEF WriteUnfinished, HostInv, SameJob, Quiet
  <2>. QED BY <1>11, <2>1, <2>2
<1>15. JobKnown' /\ OthersIntact'
    BY <1>1, <1>2, JobKept DEF HostInv, OthersIntact, Quiet
<1>16. Answering'
  <2>1. PICK first \in Byte \ {Idle}, more \in Seq(Byte) :
            Answers(card', first, more) /\ Meant(first, more)'
    BY <1>11
  <2>2. Coming(first, more)'
    BY <1>1, <2>1 DEF Coming, Answers
  <2>3. host'.step = host.step
    BY <1>2 DEF SameJob
  <2>. QED BY <1>11, <2>1, <2>2, <2>3 DEF Answering, Replies
<1>17. Protocol'
    BY <1>2, <1>3, <1>16 DEF Protocol
<1>. QED BY <1>13, <1>14, <1>15, <1>17 DEF HostInv

----------------------------------------------------------------------------
(* A byte of a block, and the last one of it.                              *)
BlockAnswered(b) ==
    \E first \in {DataAccepted, DataWriteError} :
       /\ card'.out = <<first>> \o <<Busy>>
       /\ first = DataAccepted => image'[card.writeSector] = [i \in 1 .. SectorSize |-> b[i]]

LEMMA TakesData ==
    ASSUME CardTypes, NEW in \in Byte, Transfer(in), card.state = "writeData", card.out = <<>>,
           NEW b, b = Append(card.buf, in)
    PROVE  /\ CardTypes' /\ shift' = Idle
           /\ card'.idle = card.idle /\ card'.appCmd = card.appCmd
           /\ card'.writeSector = card.writeSector
           /\ b \in Seq(Byte) /\ Len(b) = Len(card.buf) + 1 /\ Len(b) \in Nat
           /\ Len(b) <= SectorSize + CrcLen
           /\ IF Len(b) < SectorSize + CrcLen
              THEN /\ card'.state = "writeData" /\ card'.buf = b /\ card'.out = <<>>
                   /\ image' = image
              ELSE /\ card'.state = "idle"
                   /\ \A s \in SectorNumbers : s # card.writeSector => image'[s] = image[s]
                   /\ BlockAnswered(b)
<1>1. /\ card \in CardType /\ Exchange(in) /\ shift' = Idle
      /\ card.buf \in Seq(Byte) /\ Len(card.buf) < SectorSize + CrcLen
      /\ Len(card.cmd) <= CommandLen
      /\ image \in [SectorNumbers -> Block] /\ SectorSize \in Nat /\ CrcLen \in Nat
    BY Draining, CardAssumption DEF CardTypes, CardType, Transfer, CrcLen
<1>2. /\ b \in Seq(Byte) /\ Len(b) = Len(card.buf) + 1 /\ Len(b) \in Nat
      /\ Len(b) <= SectorSize + CrcLen
  <2> DEFINE s == card.buf
  <2>1. s \in Seq(Byte) /\ b = Append(s, in) /\ Len(s) < SectorSize + CrcLen
    BY <1>1
  <2>. HIDE DEF s
  <2>2. b \in Seq(Byte) /\ Len(b) = Len(s) + 1 /\ Len(s) \in Nat
    BY <2>1, AppendProperties, LenProperties
  <2>3. Len(b) <= SectorSize + CrcLen /\ Len(b) \in Nat
    BY <1>1, <2>1, <2>2
  <2>. QED BY <2>2, <2>3 DEF s
<1>3. Idle \in Byte
    BY DEF Idle, Byte
<1> DEFINE got == [card EXCEPT !.buf = b]
<1>4. IF Len(got.buf) < SectorSize + CrcLen
      THEN card' = got /\ image' = image
      ELSE FinishWrite([got EXCEPT !.state = "idle"])
    BY <1>1, BlockTaken
<1>5. /\ got \in CardType /\ got.buf = b /\ got.state = "writeData" /\ got.out = <<>>
      /\ got.cmd = card.cmd /\ got.idle = card.idle /\ got.appCmd = card.appCmd
      /\ got.writeSector = card.writeSector
    BY <1>1, <1>2 DEF CardType
<1>. HIDE DEF got
<1>6. CASE Len(b) < SectorSize + CrcLen
  <2>1. card' = got /\ image' = image
    BY <1>4, <1>5, <1>6
  <2>2. CardTypes'
    BY <1>1, <1>2, <1>3, <1>5, <1>6, <2>1 DEF CardTypes
  <2>. QED BY <1>1, <1>2, <1>5, <1>6, <2>1, <2>2
<1>7. CASE ~(Len(b) < SectorSize + CrcLen)
  <2>1. PICK c \in CardType :
           /\ c = [got EXCEPT !.state = "idle"] /\ c.state = "idle" /\ c.buf = b /\ c.out = <<>>
           /\ c.cmd = card.cmd /\ c.idle = card.idle /\ c.appCmd = card.appCmd
           /\ c.writeSector = card.writeSector
    <3> DEFINE s == [got EXCEPT !.state = "idle"]
    <3>1. /\ s \in CardType /\ s.state = "idle" /\ s.buf = b /\ s.out = <<>>
          /\ s.cmd = card.cmd /\ s.idle = card.idle /\ s.appCmd = card.appCmd
          /\ s.writeSector = card.writeSector
      BY <1>5 DEF CardType, CardStates
    <3>. HIDE DEF s
    <3>2. \E c \in CardType : c = s
      BY <3>1
    <3>. QED BY <3>1, <3>2 DEF s
  <2>2. FinishWrite(c)
    BY <1>4, <1>5, <1>7, <2>1
  <2> DEFINE w == card.writeSector
             Stored(n) == [i \in 1 .. SectorSize |->
                              IF i <= n THEN c.buf[i] ELSE image[c.writeSector][i]]
  <2>3. w \in SectorNumbers /\ c.writeSector = w /\ c.buf = b
    BY <1>1, <2>1 DEF CardType
  <2>4. ASSUME NEW n \in 0 .. SectorSize PROVE Stored(n) \in Block
    <3>1. image[w] \in Block
      BY <1>1, <2>3
    <3>2. \A i \in 1 .. SectorSize : b[i] \in Byte
      <4>1. SectorSize <= Len(b)
        BY <1>1, <1>2, <1>7
      <4>. QED BY <1>1, <1>2, <4>1, ElementOfSeq
    <3>. QED BY <2>3, <3>1, <3>2 DEF Block
  <2>5. /\ DataAccepted \in Byte /\ DataWriteError \in Byte /\ Busy \in Byte
    BY DEF DataAccepted, DataWriteError, Busy, Byte
  <2>6. ASSUME NEW first \in Byte
        PROVE  /\ Answer(c, <<first, Busy>>) \in CardType
               /\ SameButOut(Answer(c, <<first, Busy>>), c)
               /\ Answer(c, <<first, Busy>>).out = <<first>> \o <<Busy>>
    <3>1. <<first, Busy>> \in Seq(Byte) /\ <<first, Busy>> = <<first>> \o <<Busy>>
      BY <2>5, Pairs
    <3> DEFINE t == <<first, Busy>>
    <3>2. t \in Seq(Byte)
      BY <3>1
    <3>. HIDE DEF t
    <3>3. /\ Answer(c, t) \in CardType /\ SameButOut(Answer(c, t), c)
          /\ Answer(c, t).out = c.out \o t
      BY <3>2, AnswerFields
    <3>4. <<>> \o t = t
      BY <3>2, ConcatEmptySeq
    <3>. QED BY <2>1, <3>1, <3>3, <3>4 DEF t
  <2>7. \/ /\ image' = [image EXCEPT ![w] = Stored(SectorSize)]
           /\ card' = Answer(c, <<DataAccepted, Busy>>)
        \/ /\ \E n \in 0 .. SectorSize - 1 : image' = [image EXCEPT ![w] = Stored(n)]
           /\ card' = [Answer(c, <<DataWriteError, Busy>>) EXCEPT !.err = TRUE]
    <3>1. \/ /\ image' = [image EXCEPT ![c.writeSector] = Stored(SectorSize)]
             /\ card' = Answer(c, <<DataAccepted, Busy>>)
          \/ /\ \E n \in 0 .. SectorSize - 1 :
                    image' = [image EXCEPT ![c.writeSector] = Stored(n)]
             /\ card' = [Answer(c, <<DataWriteError, Busy>>) EXCEPT !.err = TRUE]
      BY <2>2, Zenon DEF FinishWrite
    <3>. HIDE DEF Stored
    <3>. QED BY <2>3, <3>1
  <2>8. Stored(SectorSize) = [i \in 1 .. SectorSize |-> b[i]]
    <3>1. \A i \in 1 .. SectorSize : i <= SectorSize
      BY <1>1
    <3>. QED BY <2>3, <3>1, Zenon
  <2>9. image' \in [SectorNumbers -> Block]
        /\ \A s \in SectorNumbers : s # w => image'[s] = image[s]
    <3>1. PICK n \in 0 .. SectorSize : image' = [image EXCEPT ![w] = Stored(n)]
      <4>1. SectorSize \in 0 .. SectorSize
        BY <1>1
      <4>2. \A n \in 0 .. SectorSize - 1 : n \in 0 .. SectorSize
        BY <1>1
      <4>. HIDE DEF Stored
      <4>. QED BY <2>7, <4>1, <4>2
    <3>2. Stored(n) \in Block
      BY <2>4, <3>1
    <3>. HIDE DEF Stored
    <3>. QED BY <1>1, <2>3, <3>1, <3>2
  <2>10. \E first \in {DataAccepted, DataWriteError} :
            /\ card' \in CardType /\ card'.state = "idle" /\ card'.buf = b /\ card'.cmd = card.cmd
            /\ card'.idle = card.idle /\ card'.appCmd = card.appCmd
            /\ card'.writeSector = card.writeSector
            /\ card'.out = <<first>> \o <<Busy>>
            /\ first = DataAccepted => image'[w] = [i \in 1 .. SectorSize |-> b[i]]
    <3>1. CASE /\ image' = [image EXCEPT ![w] = Stored(SectorSize)]
               /\ card' = Answer(c, <<DataAccepted, Busy>>)
      <4>1. /\ card' \in CardType /\ SameButOut(card', c)
            /\ card'.out = <<DataAccepted>> \o <<Busy>>
        BY <2>5, <2>6, <3>1
      <4>2. image'[w] = [i \in 1 .. SectorSize |-> b[i]]
        <5>. HIDE DEF Stored
        <5>. QED BY <1>1, <2>3, <2>8, <3>1
      <4>3. /\ card'.state = "idle" /\ card'.buf = b /\ card'.cmd = card.cmd
            /\ card'.idle = card.idle /\ card'.appCmd = card.appCmd
            /\ card'.writeSector = card.writeSector
        BY <2>1, <4>1 DEF SameButOut
      <4>. QED BY <4>1, <4>2, <4>3
    <3>2. CASE card' = [Answer(c, <<DataWriteError, Busy>>) EXCEPT !.err = TRUE]
      <4> DEFINE a == Answer(c, <<DataWriteError, Busy>>)
      <4>1. a \in CardType /\ SameButOut(a, c) /\ a.out = <<DataWriteError>> \o <<Busy>>
        BY <2>5, <2>6
      <4>2. card' = [a EXCEPT !.err = TRUE]
        BY <3>2
      <4>. HIDE DEF a
      <4>3. /\ card' \in CardType /\ card'.out = a.out /\ card'.state = a.state
            /\ card'.buf = a.buf /\ card'.cmd = a.cmd /\ card'.idle = a.idle
            /\ card'.appCmd = a.appCmd /\ card'.writeSector = a.writeSector
        BY <4>1, <4>2 DEF CardType
      <4>4. card'.out = <<DataWriteError>> \o <<Busy>>
        BY <4>1, <4>3, Zenon
      <4>5. /\ card'.state = "idle" /\ card'.buf = b /\ card'.cmd = card.cmd
            /\ card'.idle = card.idle /\ card'.appCmd = card.appCmd
            /\ card'.writeSector = card.writeSector
        BY <2>1, <4>1, <4>3 DEF SameButOut
      <4>6. DataWriteError # DataAccepted
        BY DEF DataAccepted, DataWriteError
      <4>. QED BY <4>3, <4>4, <4>5, <4>6
    <3>. QED BY <2>7, <3>1, <3>2
  <2>11. CardTypes'
    BY <1>1, <1>2, <1>3, <2>9, <2>10 DEF CardTypes
  <2>12. card'.state = "idle" /\ BlockAnswered(b)
    BY <2>10 DEF BlockAnswered
  <2>. QED BY <1>1, <1>2, <1>7, <2>9, <2>10, <2>11, <2>12
<1>. QED BY <1>6, <1>7

----------------------------------------------------------------------------
(* The bytes of a command that the card takes for data or for a gap.       *)
LostSent(in) ==
    /\ in \in Byte /\ Transfer(in) /\ Quiet
    /\ host' \in HostType /\ SameJob
    /\ \/ host'.phase = "failed" /\ host'.todo = <<>>
       \/ host'.phase = "send"
    /\ \/ /\ host.todo = <<>> /\ host'.todo = <<>> /\ in = Idle /\ shift = Idle
       \/ /\ host.todo # <<>> /\ in = host.todo[1] /\ Len(host'.todo) = Len(host.todo) - 1
    /\ \A i \in 1 .. Len(host'.todo) : host'.todo[i] \in {0, 1}

(* Each byte such a driver sends is 0, 1, 64 or an idle bus.               *)
LEMMA LostSends ==
    ASSUME HostInv, Lost, SendByte \/ PollCard("send"), host.phase = "send"
    PROVE  \E in : LostSent(in)
<1>1. CASE SendByte
  <2> DEFINE t == host.todo
  <2>1. /\ host' \in HostType /\ SameJob /\ host'.phase = "send" /\ t # <<>>
        /\ Transfer(Head(t)) /\ Head(t) \in Byte /\ Quiet /\ host'.todo = Tail(t)
        /\ t \in Seq(Byte)
    BY <1>1, SentByte, Held
  <2>2. \A i \in 1 .. Len(t) : t[i] \in IF i = 1 THEN {0, 1, 64} ELSE {0, 1}
    BY DEF Lost
  <2>. HIDE DEF t
  <2>3. /\ Len(Tail(t)) = Len(t) - 1 /\ Len(t) \in Nat
        /\ \A i \in 1 .. Len(Tail(t)) : Tail(t)[i] = t[i + 1]
    BY <2>1, HeadTailProperties, LenProperties
  <2>4. Head(t) = t[1]
    BY <2>1, ConsOf
  <2>5. \A i \in 1 .. Len(Tail(t)) : Tail(t)[i] \in {0, 1}
    <3>1. TAKE i \in 1 .. Len(Tail(t))
    <3>2. i + 1 \in 1 .. Len(t) /\ i + 1 # 1
      BY <2>3
    <3>. QED BY <2>2, <2>3, <3>2
  <2>6. LostSent(Head(t))
    BY <2>1, <2>3, <2>4, <2>5 DEF LostSent, t
  <2>. QED BY <2>6
<1>2. CASE PollCard("send")
  <2>1. /\ host.todo = <<>> /\ shift = Idle /\ Transfer(Idle) /\ Quiet
    BY <1>2 DEF PollCard, Waiting
  <2>2. /\ host' \in HostType /\ SameJob /\ host'.todo = <<>>
        /\ host'.phase \in {"send", "failed"}
    BY <1>2, <2>1, Polled DEF Phases
  <2>3. 1 .. Len(<<>>) = {}
    OBVIOUS
  <2>4. LostSent(Idle)
    BY <2>1, <2>2, <2>3, Held DEF LostSent
  <2>. QED BY <2>4
<1>. QED BY <1>1, <1>2

(* One byte sent is one byte of the response gone.                         *)
LEMMA BothShorter ==
    ASSUME NEW m \in Nat, NEW n \in Nat, NEW k \in Nat, m + k - n <= 2
    PROVE  (m - 1) + k - (n - 1) <= 2
    OBVIOUS

(* None of them begins a command or a block, or brings the R1 of CMD0.     *)
LEMMA LostKeeps ==
    ASSUME HostInv, Lost, SendByte \/ PollCard("send"), host.phase = "send"
    PROVE  HostInv'
<1>1. PICK in : LostSent(in)
    BY LostSends
<1>2. /\ in \in Byte /\ Transfer(in) /\ Quiet /\ host' \in HostType /\ SameJob
      /\ host'.step = 1
    BY <1>1 DEF LostSent, Lost, SameJob
<1>3. JobKnown'
    BY <1>2, JobKept DEF HostInv
<1>4. in \in {0, 1, 64, Idle}
  <2>1. CASE host.todo # <<>>
    <3>1. 1 \in 1 .. Len(host.todo)
      <4>1. Len(host.todo) \in Nat \ {0}
        BY <2>1, Held, EmptySeq
      <4>. QED BY <4>1
    <3>. QED BY <1>1, <2>1, <3>1 DEF Lost, LostSent
  <2>. QED BY <1>1, <2>1 DEF LostSent
<1>5. host'.todo # <<>> => host'.todo[1] # 64
  <2>1. SUFFICES ASSUME host'.todo # <<>> PROVE host'.todo[1] \in {0, 1}
    OBVIOUS
  <2>2. Len(host'.todo) \in Nat \ {0}
    BY <1>2, <2>1, EmptySeq DEF HostType
  <2>3. 1 \in 1 .. Len(host'.todo)
    BY <2>2
  <2>. QED BY <1>1, <2>3 DEF LostSent
<1>6. \A i \in 1 .. Len(host'.todo) :
         host'.todo[i] \in IF i = 1 THEN {0, 1, 64} ELSE {0, 1}
    BY <1>1 DEF LostSent
<1>7. CASE card.state = "writeData"
  <2>1. card.out = <<>> /\ shift = Idle /\ card.writeSector \in damaged
    BY <1>7 DEF HostInv, WriteUnfinished
  <2>2. PICK b : b = Append(card.buf, in)
    OBVIOUS
  <2>3. /\ CardTypes' /\ shift' = Idle
        /\ card'.writeSector = card.writeSector
        /\ \/ card'.state = "writeData" /\ card'.out = <<>> /\ image' = image
           \/ /\ card'.state = "idle"
              /\ \A s \in SectorNumbers : s # card.writeSector => image'[s] = image[s]
              /\ \E first \in {DataAccepted, DataWriteError} : card'.out = <<first>> \o <<Busy>>
    BY <1>2, <1>7, <2>1, <2>2, TakesData, Held DEF BlockAnswered
  <2>4. Types'
    BY <1>2, <2>3 DEF HostInv, Types, Quiet
  <2>5. WriteUnfinished'
    BY <1>2, <2>1, <2>3 DEF HostInv, WriteUnfinished, JobKnown, Lost, Quiet, SameJob
  <2>6. OthersIntact'
    BY <1>2, <2>1, <2>3 DEF HostInv, OthersIntact, Quiet, SectorNumbers
  <2>7. Lost'
    <3>1. card'.state = "idle" => \A i \in 1 .. Len(card'.out) : card'.out[i] # R1Idle
      <4>1. SUFFICES ASSUME NEW first \in {DataAccepted, DataWriteError},
                            card'.out = <<first>> \o <<Busy>>
                     PROVE  \A i \in 1 .. Len(card'.out) : card'.out[i] # R1Idle
        BY <2>3
      <4>2. first \in Byte /\ Busy \in Byte /\ first # R1Idle /\ Busy # R1Idle
        BY DEF DataAccepted, DataWriteError, Busy, R1Idle, Byte
      <4>3. card'.out = <<first, Busy>>
        BY <4>1, <4>2, Pairs
      <4>. QED BY <4>2, <4>3
    <3>2. Idle # R1Idle
      BY DEF Idle, R1Idle
    <3>. QED BY <1>2, <1>5, <1>6, <2>3, <3>1, <3>2 DEF Lost
  <2>8. Protocol'
    BY <1>1, <2>7, GivenUp DEF LostSent, Protocol
  <2>. QED BY <1>3, <2>4, <2>5, <2>6, <2>8 DEF HostInv
<1>8. CASE card.state \in {"idle", "writeWait"}
  <2>1. Ignored(in)
    <3>1. CASE in = 64
      <4>1. host.todo # <<>> /\ host.todo[1] = 64
        BY <1>1, <3>1 DEF LostSent, Idle
      <4>2. card.state = "writeWait"
        BY <1>8, <4>1 DEF Lost
      <4>. QED BY <3>1, <4>2 DEF Ignored, StartBlock
    <3>2. CASE in # 64
      BY <1>4, <1>8, <3>2 DEF Ignored, IsCommandStart, StartBlock, Idle
    <3>. QED BY <3>1, <3>2
  <2>2. Types' /\ JobKnown' /\ WriteUnfinished' /\ OthersIntact'
    BY <1>2, <1>3, <2>1, AfterIgnored DEF SameJob
  <2>3. /\ CardTypes' /\ image' = image /\ SameCard
        /\ card.out = <<>> => shift' = Idle /\ card'.out = <<>>
        /\ card.out # <<>> => /\ shift' = Head(card.out) /\ card'.out = Tail(card.out)
                              /\ Len(card'.out) = Len(card.out) - 1
    BY <1>2, <2>1, MovesOn, Held
  <2>4. Lost'
    <3>1. CASE card.state = "writeWait"
      <4>1. Len(card.out) \in Nat /\ Len(host.todo) \in Nat /\ CommandLen \in Nat
        BY Held, LenProperties DEF CommandLen
      <4>2. \/ Len(card'.out) + CommandLen - Len(host'.todo) <= 2
            \/ shift' = Idle /\ card'.out = <<>>
        <5>1. CASE card.out = <<>>
          BY <2>3, <5>1
        <5>2. CASE card.out # <<>> /\ host.todo # <<>>
          <6>1. Len(card.out) + CommandLen - Len(host.todo) <= 2
            BY <3>1, <5>2 DEF Lost
          <6>2. Len(host'.todo) = Len(host.todo) - 1
            BY <1>1, <5>2 DEF LostSent
          <6>3. Len(card'.out) = Len(card.out) - 1
            BY <2>3, <5>2
          <6>4. (Len(card.out) - 1) + CommandLen - (Len(host.todo) - 1) <= 2
            BY <4>1, <6>1, BothShorter
          <6>. QED BY <6>2, <6>3, <6>4
        <5>3. CASE card.out # <<>> /\ host.todo = <<>>
          <6>1. Len(card.out) + CommandLen - 0 <= 2
            BY <3>1, <5>3, EmptySeq DEF Lost
          <6>. QED BY <4>1, <6>1 DEF CommandLen
        <5>. QED BY <5>1, <5>2, <5>3
      <4>. QED BY <1>2, <1>6, <2>3, <3>1, <4>2 DEF Lost, SameCard
    <3>2. CASE card.state = "idle"
      <4>1. \A i \in 1 .. Len(card.out) : card.out[i] # R1Idle
        BY <3>2 DEF Lost
      <4>2. shift' # R1Idle /\ \A i \in 1 .. Len(card'.out) : card'.out[i] # R1Idle
        <5>1. CASE card.out = <<>>
          <6>1. 1 .. Len(card'.out) = {}
            BY <2>3, <5>1
          <6>. QED BY <2>3, <5>1, <6>1 DEF Idle, R1Idle
        <5>2. CASE card.out # <<>>
          <6> DEFINE s == card.out
          <6>1. s \in Seq(Byte) /\ s # <<>> /\ shift' = Head(s) /\ card'.out = Tail(s)
                /\ \A i \in 1 .. Len(s) : s[i] # R1Idle
            BY <2>3, <4>1, <5>2, Held
          <6>. HIDE DEF s
          <6>2. /\ Len(Tail(s)) = Len(s) - 1 /\ Len(s) \in Nat /\ Len(s) # 0
                /\ \A i \in 1 .. Len(Tail(s)) : Tail(s)[i] = s[i + 1]
            BY <6>1, HeadTailProperties, EmptySeq
          <6>3. Head(s) = s[1]
            BY <6>1, ConsOf
          <6>4. \A i \in 1 .. Len(Tail(s)) : i + 1 \in 1 .. Len(s)
            BY <6>2
          <6>. QED BY <6>1, <6>2, <6>3, <6>4
        <5>. QED BY <5>1, <5>2
      <4>. QED BY <1>2, <1>5, <1>6, <2>3, <3>2, <4>2 DEF Lost, SameCard
    <3>. QED BY <1>8, <3>1, <3>2
  <2>5. Protocol'
    BY <1>1, <2>4, GivenUp DEF LostSent, Protocol
  <2>. QED BY <2>2, <2>5 DEF HostInv
<1>. QED BY <1>7, <1>8 DEF Lost

----------------------------------------------------------------------------
(* The block being written: its start token, and its bytes with their CRC. *)
LEMMA BlockBegins ==
    ASSUME HostInv, SendByte, host.phase = "response", BlockUnderWay, card.state = "writeWait"
    PROVE  HostInv'
<1>1. /\ host.todo = <<StartBlock>> \o (host.block \o Crc)
      /\ shift = Idle /\ card.out = <<>> /\ Writing /\ card.writeSector = host.sector
    BY DEF BlockUnderWay
<1>2. /\ host.block \o Crc \in Seq(Byte) /\ Len(host.block \o Crc) = SectorSize + CrcLen
    BY <1>1, WrittenBlock DEF Writing
<1>3. Head(host.todo) = StartBlock /\ Tail(host.todo) = host.block \o Crc
  <2> DEFINE s == host.block \o Crc
  <2>1. s \in Seq(Byte) /\ host.todo = <<StartBlock>> \o s /\ StartBlock \in Byte
    BY <1>1, <1>2 DEF StartBlock, Byte
  <2>. HIDE DEF s
  <2>2. Head(<<StartBlock>> \o s) = StartBlock /\ Tail(<<StartBlock>> \o s) = s
    BY <2>1, Cons
  <2>3. Head(host.todo) = StartBlock /\ Tail(host.todo) = s
    BY <2>1, <2>2
  <2>. QED BY <2>3 DEF s
<1>4. /\ host' \in HostType /\ SameJob /\ host'.phase = "response" /\ Quiet
      /\ Transfer(StartBlock) /\ host'.todo = host.block \o Crc
    BY <1>3, SentByte
<1>5. /\ card' = [card EXCEPT !.state = "writeData", !.buf = <<>>] /\ image' = image
      /\ shift' = Idle
    BY <1>1, <1>4, BlockBegun, Draining, Held DEF Transfer
<1>6. /\ card' \in CardType /\ card'.state = "writeData" /\ card'.buf = <<>>
      /\ card'.cmd = card.cmd /\ card'.out = <<>> /\ card'.idle = card.idle
      /\ card'.appCmd = card.appCmd /\ card'.writeSector = card.writeSector
    BY <1>1, <1>5, Held DEF CardType, CardStates
<1>7. CardTypes'
  <2>1. Len(<<>>) = 0 /\ 0 < SectorSize + CrcLen /\ 0 <= SectorSize + CrcLen
    BY CardAssumption DEF CrcLen
  <2>2. Len(card'.buf) < SectorSize + CrcLen /\ Len(card'.buf) <= SectorSize + CrcLen
    BY <1>6, <2>1
  <2>. QED BY <1>5, <1>6, <2>2, Held DEF CardTypes
<1>8. Types' /\ JobKnown' /\ OthersIntact'
    BY <1>4, <1>5, <1>7, JobKept DEF HostInv, Types, OthersIntact, Quiet
<1>9. WriteUnfinished'
    BY <1>1, <1>4, <1>5, <1>6 DEF HostInv, WriteUnfinished, Quiet, SameJob
<1>10. BlockUnderWay'
  <2>1. Writing'
    BY <1>1, <1>4, <1>6 DEF Writing, Flags, SameJob
  <2>2. card'.buf \o host'.todo = host'.block \o Crc
    <3>1. <<>> \o (host.block \o Crc) = host.block \o Crc
      BY <1>2, ConcatEmptySeq
    <3>. QED BY <1>4, <1>6, <3>1 DEF SameJob
  <2>. QED BY <1>1, <1>4, <1>6, <2>1, <2>2 DEF BlockUnderWay, SameJob
<1>11. host'.todo # <<>>
    BY <1>2, <1>4, EmptySeq, CardAssumption DEF CrcLen
<1>12. Protocol'
    BY <1>4, <1>10, <1>11 DEF Protocol
<1>. QED BY <1>8, <1>9, <1>12 DEF HostInv

(* The block is what the card has collected before its CRC.                *)
LEMMA Collected ==
    ASSUME NEW s \in Seq(Byte), s \in Block, Len(s) = SectorSize,
           NEW b, b = s \o Crc
    PROVE  [i \in 1 .. SectorSize |-> b[i]] = s
<1>1. SectorSize \in Nat /\ Crc \in Seq(Byte) /\ Len(Crc) = CrcLen /\ CrcLen \in Nat
    BY CardAssumption, CrcSeq DEF CrcLen
<1>2. \A i \in 1 .. SectorSize : (s \o Crc)[i] = s[i]
    BY <1>1, ConcatProperties
<1>3. s = [i \in 1 .. SectorSize |-> s[i]]
    BY DEF Block
<1>. QED BY <1>2, <1>3

(* A byte of the block, or of its CRC; the last one stores the block.      *)
LEMMA BlockContinues ==
    ASSUME HostInv, SendByte, host.phase = "response", BlockUnderWay, card.state = "writeData"
    PROVE  HostInv'
<1>1. PICK in : in = Head(host.todo)
    OBVIOUS
<1> DEFINE t == host'.todo
           s == card.buf
           w == host.block \o Crc
<1>2. /\ s \o host.todo = w /\ card.writeSector = host.sector /\ Writing
      /\ shift = Idle /\ card.out = <<>> /\ host.sector \in damaged
    BY DEF BlockUnderWay, HostInv, WriteUnfinished
<1>3. /\ host.block \in Seq(Byte) /\ host.block \in Block /\ Len(host.block) = SectorSize
      /\ w \in Seq(Byte) /\ Len(w) = SectorSize + CrcLen
    BY <1>2, WrittenBlock DEF Writing
<1>4. /\ host' \in HostType /\ SameJob /\ host'.phase = "response" /\ Quiet
      /\ Transfer(in) /\ in \in Byte /\ host.todo = <<in>> \o t
      /\ t \in Seq(Byte) /\ Len(t) \in Nat
    BY <1>1, SentByte
<1>5. s \in Seq(Byte) /\ s \o (<<in>> \o t) = w
    BY <1>2, <1>4, Held DEF CardType
<1>6. PICK b : b = Append(card.buf, in)
    OBVIOUS
<1>7. /\ CardTypes' /\ shift' = Idle
      /\ card'.idle = card.idle /\ card'.appCmd = card.appCmd
      /\ card'.writeSector = card.writeSector
      /\ b \in Seq(Byte) /\ Len(b) \in Nat /\ Len(b) <= SectorSize + CrcLen
      /\ IF Len(b) < SectorSize + CrcLen
         THEN /\ card'.state = "writeData" /\ card'.buf = b /\ card'.out = <<>>
              /\ image' = image
         ELSE /\ card'.state = "idle"
              /\ \A q \in SectorNumbers : q # card.writeSector => image'[q] = image[q]
              /\ BlockAnswered(b)
  <2>. HIDE DEF s, t, w
  <2>. QED BY <1>2, <1>4, <1>6, TakesData, Held
<1>8. b \o t = w /\ Len(b) + Len(t) = SectorSize + CrcLen
  <2>. HIDE DEF s, t, w
  <2>1. Append(s, in) \o t = s \o (<<in>> \o t)
    BY <1>4, <1>5, Shifted
  <2>2. b = Append(s, in)
    BY <1>6 DEF s
  <2>3. b \o t = w
    BY <1>5, <2>1, <2>2
  <2>4. Len(b \o t) = Len(b) + Len(t)
    BY <1>4, <1>7, ConcatProperties
  <2>. QED BY <1>3, <2>3, <2>4
<1>9. Types' /\ JobKnown'
    BY <1>4, <1>7, JobKept DEF HostInv, Types, Quiet
<1>10. WriteUnfinished'
    BY <1>2, <1>4, <1>7 DEF HostInv, WriteUnfinished, Quiet, SameJob
<1>11. OthersIntact'
    BY <1>2, <1>4, <1>7 DEF HostInv, OthersIntact, Quiet, SectorNumbers
<1>12. Writing'
    BY <1>2, <1>4, <1>7 DEF Writing, Flags, SameJob
<1>13. SectorSize + CrcLen \in Nat
    BY CardAssumption DEF CrcLen
<1>. HIDE DEF s, w
<1>14. Protocol'
  <2>1. CASE Len(b) < SectorSize + CrcLen
    <3>1. host'.todo # <<>>
      <4>1. Len(t) # 0
        BY <1>4, <1>7, <1>8, <1>13, <2>1
      <4>. QED BY <4>1, EmptySeq
    <3>2. card'.buf \o host'.todo = host'.block \o Crc
      BY <1>4, <1>7, <1>8, <2>1 DEF SameJob, w
    <3>3. BlockUnderWay'
      BY <1>2, <1>4, <1>7, <1>12, <2>1, <3>2 DEF BlockUnderWay, SameJob
    <3>. QED BY <1>4, <3>1, <3>3 DEF Protocol
  <2>2. CASE ~(Len(b) < SectorSize + CrcLen)
    <3>1. t = <<>>
      <4>1. Len(t) = 0
        BY <1>4, <1>7, <1>8, <1>13, <2>2
      <4>. QED BY <1>4, <4>1, EmptySeq
    <3>2. b = w
      <4>1. b \o <<>> = b
        BY <1>7, ConcatEmptySeq
      <4>. QED BY <1>8, <3>1, <4>1
    <3>3. [i \in 1 .. SectorSize |-> b[i]] = host.block
      <4> DEFINE h == host.block
      <4>1. h \in Seq(Byte) /\ h \in Block /\ Len(h) = SectorSize /\ b = h \o Crc
        BY <1>3, <3>2 DEF w
      <4>. HIDE DEF h
      <4>2. [i \in 1 .. SectorSize |-> b[i]] = h
        BY <4>1, Collected
      <4>. QED BY <4>2 DEF h
    <3>4. PICK first \in {DataAccepted, DataWriteError} :
             /\ card'.out = <<first>> \o <<Busy>>
             /\ first = DataAccepted => image'[card.writeSector] = host.block
      BY <1>7, <2>2, <3>3 DEF BlockAnswered
    <3>5. ResponseDue'
      BY <1>2, <1>4, <1>7, <1>12, <2>2, <3>4 DEF ResponseDue, SameJob
    <3>. QED BY <1>4, <3>1, <3>5 DEF Protocol
  <2>. QED BY <2>1, <2>2
<1>. QED BY <1>9, <1>10, <1>11, <1>14 DEF HostInv

(* A byte sent, wherever the card is.                                      *)
LEMMA SendByteKeeps ==
    ASSUME HostInv, SendByte
    PROVE  HostInv'
<1>1. host.phase \in {"send", "response"} /\ host.todo # <<>>
    BY SentByte
<1>2. CASE host.phase = "send"
  <2>1. Lost \/ CommandUnderWay
    BY <1>1, <1>2 DEF HostInv, Protocol
  <2>2. CASE Lost
    BY <1>2, <2>2, LostKeeps
  <2>3. CASE CommandUnderWay
    <3>1. PICK cmd : cmd = Append(card.cmd, Head(host.todo))
      OBVIOUS
    <3>2. card.state \in {"idle", "command"}
      BY <2>3 DEF CommandUnderWay
    <3>. QED BY <1>2, <2>3, <3>1, <3>2, CommandBegins, CommandContinues, CommandEnds
  <2>. QED BY <2>1, <2>2, <2>3
<1>3. CASE host.phase = "response"
  <2>1. BlockUnderWay
    BY <1>1, <1>3 DEF HostInv, Protocol
  <2>2. card.state \in {"writeWait", "writeData"}
    BY <2>1 DEF BlockUnderWay
  <2>. QED BY <1>3, <2>1, <2>2, BlockBegins, BlockContinues
<1>. QED BY <1>1, <1>2, <1>3

----------------------------------------------------------------------------
(* The system as it is switched on.                                        *)
LEMMA InitHolds ==
    ASSUME HostInit
    PROVE  HostInv
<1>1. /\ card = NewCard /\ image \in [0 .. Sectors - 1 -> Blocks] /\ shift = Idle
      /\ host = Booting /\ restarts = 0 /\ acked = image /\ damaged = {}
    BY DEF HostInit, HostInitWith, CardInit
<1>2. 0 \in SectorNumbers /\ <<>> \in Seq(Byte) /\ Len(<<>>) = 0 /\ Idle \in Byte
    BY CardAssumption DEF SectorNumbers, Idle, Byte
<1>3. /\ card \in CardType /\ card.state = "idle" /\ card.cmd = <<>> /\ card.buf = <<>>
      /\ card.out = <<>>
    BY <1>1, <1>2 DEF NewCard, CardType, CardStates
<1>4. CardTypes
  <2>1. image \in [SectorNumbers -> Block]
    BY <1>1, HostAssumption DEF SectorNumbers
  <2>2. 0 <= CommandLen /\ 0 <= SectorSize + CrcLen
    BY CardAssumption DEF CommandLen, CrcLen
  <2>. QED BY <1>1, <1>2, <1>3, <2>1, <2>2 DEF CardTypes
<1>5. Types
    BY <1>1, <1>4, FirstCommand, HostAssumption DEF Types, SectorNumbers
<1>6. JobKnown
    BY <1>1, FirstCommand DEF JobKnown
<1>7. WriteUnfinished
    BY <1>1, <1>3, FirstCommand DEF WriteUnfinished
<1>8. OthersIntact
    BY <1>1 DEF OthersIntact
<1>9. CommandUnderWay
    BY <1>1, <1>3, FirstCommand, InitCommandBytes DEF CommandUnderWay, CommandSent, Flags
<1>10. Protocol
    BY <1>1, <1>9, FirstCommand DEF Protocol
<1>. QED BY <1>5, <1>6, <1>7, <1>8, <1>10 DEF HostInv

(* Nothing happens.                                                        *)
LEMMA StutterKeeps ==
    ASSUME HostInv, UNCHANGED hostVars
    PROVE  HostInv'
<1>1. /\ card' = card /\ image' = image /\ shift' = shift /\ host' = host
      /\ restarts' = restarts /\ acked' = acked /\ damaged' = damaged
    BY DEF hostVars, cardVars
<1>2. Types' /\ JobKnown' /\ WriteUnfinished' /\ OthersIntact'
    BY <1>1 DEF HostInv, Types, CardTypes, JobKnown, WriteUnfinished, OthersIntact
<1>3. Delivered' = Delivered /\ CommandSent' = CommandSent
    BY <1>1 DEF Delivered, CommandSent
<1>4. /\ \A n : Flags(n)' = Flags(n)
      /\ Flags(host.step)' = Flags(host.step)
      /\ Flags(host.step - 1)' = Flags(host.step - 1)
    BY <1>1 DEF Flags
<1>5. Lost' = Lost /\ CommandUnderWay' = CommandUnderWay
    BY <1>1, <1>3, <1>4 DEF Lost, CommandUnderWay
<1>6. Answering => Answering'
  <2>1. SUFFICES ASSUME NEW first \in Byte \ {Idle}, NEW more \in Replies,
                        Coming(first, more), Meant(first, more), Flags(host.step)
                 PROVE  Answering'
    BY DEF Answering
  <2>2. Coming(first, more)'
    BY <1>1, <2>1 DEF Coming
  <2>3. SameCard /\ SameJob
    BY <1>1 DEF SameCard, SameJob
  <2>. QED BY <1>1, <1>4, <2>1, <2>2, <2>3, MeantKept DEF Answering
<1>7. /\ TokenDue' = TokenDue /\ DataDue' = DataDue /\ IdleDue' = IdleDue
      /\ ResponseDue' = ResponseDue /\ BlockUnderWay' = BlockUnderWay
      /\ Done' = Done /\ ProbesTold' = ProbesTold
    BY <1>1, <1>3, <1>4
       DEF TokenDue, DataDue, IdleDue, ResponseDue, BlockUnderWay, Done, ProbesTold, Reading,
           Writing
<1>8. Protocol'
    BY <1>1, <1>5, <1>6, <1>7 DEF HostInv, Protocol
<1>. QED BY <1>2, <1>8 DEF HostInv

(* Every step of the system.                                               *)
LEMMA NextKeeps ==
    ASSUME HostInv, [HostNext]_hostVars
    PROVE  HostInv'
<1>1. CASE SendByte
    BY <1>1, SendByteKeeps
<1>2. ASSUME NEW phase \in {"send", "token", "response"}, PollCard(phase) PROVE HostInv'
  <2>1. host.phase = phase
    BY <1>2 DEF PollCard, Waiting
  <2>. QED BY <1>2, <2>1, LostKeeps, PollAnswer, PollToken, PollResponse
<1>3. CASE InitAnswered
    BY <1>3, InitAnsweredKeeps
<1>4. CASE ReadAnswered
    BY <1>4, ReadAnsweredKeeps
<1>5. CASE TokenSeen
    BY <1>5, TokenSeenKeeps
<1>6. CASE DataByte
    BY <1>6, DataByteKeeps
<1>7. CASE ProbeAnswered
    BY <1>7, ProbeAnsweredKeeps
<1>8. CASE WriteAnswered
    BY <1>8, WriteAnsweredKeeps
<1>9. CASE ResponseSeen
    BY <1>9, ResponseSeenKeeps
<1>10. CASE StillBusy
    BY <1>10, StillBusyKeeps
<1>11. CASE Programmed
    BY <1>11, ProgrammedKeeps
<1>12. CASE Retry
  <2>1. restarts' \in 0 .. MaxRestarts /\ Deselect /\ host' = Booting
        /\ UNCHANGED <<shift, acked, damaged>>
    BY <1>12 DEF Retry, HostInv, Types
  <2>. QED BY <2>1, BootKeeps
<1>13. CASE Restart
  <2>1. restarts' \in 0 .. MaxRestarts /\ Deselect /\ host' = Booting
        /\ UNCHANGED <<shift, acked, damaged>>
    BY <1>13, HostAssumption DEF Restart, HostInv, Types
  <2>. QED BY <2>1, BootKeeps
<1>14. ASSUME NEW sector \in 0 .. Sectors, Start("read", 17, sector, <<>>) PROVE HostInv'
  <2>1. 17 \in 0 .. 63 /\ <<>> \in Seq(Byte)
    OBVIOUS
  <2>. QED BY <1>14, <2>1, StartKeeps
<1>15. ASSUME NEW sector \in 0 .. Sectors, NEW block \in Blocks,
              Start("write", 24, sector, block)
       PROVE  HostInv'
  <2>1. 24 \in 0 .. 63 /\ block \in Seq(Byte)
    <3>1. SectorSize \in Nat /\ block \in [1 .. SectorSize -> Byte]
      BY HostAssumption, CardAssumption DEF Block
    <3>. QED BY <3>1
  <2>. QED BY <1>15, <2>1, StartKeeps
<1>16. ASSUME NEW index \in ProbeIndexes, Start("probe", index, 0, <<>>) PROVE HostInv'
  <2>1. index \in 0 .. 63 /\ <<>> \in Seq(Byte) /\ 0 \in 0 .. Sectors
    BY CardAssumption DEF ProbeIndexes
  <2>. QED BY <1>16, <2>1, StartKeeps
<1>17. CASE UNCHANGED hostVars
    BY <1>17, StutterKeeps
<1>. QED BY <1>1, <1>2, <1>3, <1>4, <1>5, <1>6, <1>7, <1>8, <1>9, <1>10, <1>11, <1>12, <1>13,
            <1>14, <1>15, <1>16, <1>17 DEF HostNext, DriverNext

(* Card and driver stay in step: wherever the driver is in its protocol,   *)
(* the card's state, its queued bytes and the byte in the shift register   *)
(* are the ones that phase stands for, or the driver is the one RS left in *)
(* the middle of a write.                                                  *)
THEOREM ProtocolHolds == HostSpec => []HostInv
<1>1. HostInit => HostInv
    BY InitHolds
<1>2. HostInv /\ [HostNext]_hostVars => HostInv'
    BY NextKeeps
<1>. QED BY <1>1, <1>2, PTL DEF HostSpec

(* The card struct, the image and the driver keep their types: no buffer   *)
(* outgrows its command or block, no write goes to a sector the image does *)
(* not have.                                                               *)
THEOREM HostTypesHold == HostSpec => []HostTypeOK
<1>1. HostInv => HostTypeOK
    BY DEF HostInv, Types, CardTypes, HostTypeOK, CardTypeOK, CardType, HostType, CardStates,
           Phases, SectorNumbers
<1>. QED BY <1>1, ProtocolHolds, PTL

(* A block read back whole is the block last written and acknowledged, for *)
(* every size of block and card, any image errors, and RS at any byte.     *)
THEOREM BlocksReadBack == HostSpec => []ReadsBack
<1>1. HostInv => ReadsBack
    BY DEF HostInv, Types, Protocol, Done, OthersIntact, ReadsBack, SectorNumbers
<1>. QED BY <1>1, ProtocolHolds, PTL

(* A write that fails or is cut off harms no sector but its own, whatever  *)
(* command bytes the card takes for data afterwards.                       *)
THEOREM OthersKept == HostSpec => []OthersIntact
<1>1. HostInv => OthersIntact
    BY DEF HostInv
<1>. QED BY <1>1, ProtocolHolds, PTL

(* A card that was initialised tells its commands apart: each probe gets   *)
(* the R1 that belongs to it.                                              *)
THEOREM ProbesAnswered == HostSpec => []ProbesTold
<1>1. HostInv => ProbesTold
    BY DEF HostInv, Protocol, ProbesTold
<1>. QED BY <1>1, ProtocolHolds, PTL

----------------------------------------------------------------------------
(* The Disk behind the protocol.  A request stands in the driver's job.    *)
LEMMA RequestStands ==
    ASSUME NEW h, NEW g, g.op = h.op, g.sector = h.sector, g.block = h.block,
           h.phase \notin {"ready", "failed"}, g.phase \notin {"ready", "failed"}
    PROVE  Requested(g) = Requested(h) /\ Answered(g) = Answered(h)
    BY DEF Requested, Answered

LEMMA NothingAsked ==
    ASSUME NEW h, h.op \notin {"read", "write"}
    PROVE  Requested(h) = D!NoRequest /\ Answered(h) = <<>>
    BY DEF Requested, Answered, D!NoRequest

LEMMA NothingLeft ==
    ASSUME NEW h, h.phase \in {"ready", "failed"}
    PROVE  /\ Requested(h) = D!NoRequest
           /\ h.op # "read" \/ h.phase = "failed" => Answered(h) = <<>>
           /\ h.op = "read" /\ h.phase = "ready" => Answered(h) = h.got
    BY DEF Requested, Answered, D!NoRequest

LEMMA ReadAsked ==
    ASSUME NEW h, h.op = "read", h.phase \notin {"ready", "failed"}
    PROVE  /\ Requested(h) = [op |-> "read", sector |-> h.sector, block |-> <<>>]
           /\ Answered(h) = <<>>
           /\ Requested(h) # D!NoRequest
           /\ h.sector \in 0 .. Sectors => Requested(h) \in D!Reads
<1>1. Requested(h) = [op |-> "read", sector |-> h.sector, block |-> <<>>]
    BY DEF Requested
<1>2. Requested(h).op = "read"
    BY <1>1
<1>. QED BY <1>1, <1>2 DEF Answered, D!NoRequest, D!Reads

LEMMA WriteAsked ==
    ASSUME NEW h, h.op = "write", h.phase \notin {"ready", "failed"}
    PROVE  /\ Requested(h) = [op |-> "write", sector |-> h.sector, block |-> h.block]
           /\ Answered(h) = <<>>
           /\ Requested(h) # D!NoRequest
           /\ h.sector \in 0 .. Sectors /\ h.block \in Block => Requested(h) \in D!Writes
<1>1. Requested(h) = [op |-> "write", sector |-> h.sector, block |-> h.block]
    BY DEF Requested
<1>2. Requested(h).op = "write"
    BY <1>1
<1>. QED BY <1>1, <1>2 DEF Answered, D!NoRequest, D!Writes

(* A byte exchanged changes the image in a torn sector only, and only when *)
(* the card collects a block.                                              *)
LEMMA ImageMoves ==
    ASSUME HostInv, HostInv', NEW in \in Byte, Transfer(in)
    PROVE  \/ image' = image
           \/ /\ card.state = "writeData"
              /\ image' \in [SectorNumbers -> Block]
              /\ \E s \in damaged : \A q \in SectorNumbers \ {s} : image'[q] = image[q]
<1>1. card \in CardType /\ Drained(card).state = card.state
      /\ Drained(card).writeSector = card.writeSector
    BY Held, Draining
<1>2. card.state # "writeData" => image' = image
    BY <1>1 DEF Transfer, Exchange, AwaitCommand, TakeCommand, AwaitBlock, TakeBlock
<1>3. image \in [SectorNumbers -> Block] /\ image' \in [SectorNumbers -> Block]
    BY DEF HostInv, Types, CardTypes
<1>4. CASE card.state = "writeData"
  <2>1. card.writeSector \in damaged
    BY <1>4 DEF HostInv, WriteUnfinished
  <2>2. /\ Drained(card).state = "writeData"
        /\ TakeBlock(Drained(card), in)
    BY <1>1, <1>4 DEF Transfer, Exchange, AwaitCommand, TakeCommand, AwaitBlock
  <2>3. PICK got : got = [Drained(card) EXCEPT !.buf = Append(@, in)]
    OBVIOUS
  <2>4. image' = image \/ FinishWrite([got EXCEPT !.state = "idle"])
    BY <2>2, <2>3 DEF TakeBlock
  <2>5. [got EXCEPT !.state = "idle"].writeSector = card.writeSector
    BY <1>1, <2>3, Draining DEF CardType
  <2>6. \A q \in SectorNumbers \ {card.writeSector} : image'[q] = image[q]
    BY <1>3, <2>4, <2>5 DEF FinishWrite
  <2>. QED BY <1>3, <1>4, <2>1, <2>6
<1>. QED BY <1>2, <1>4

(* Once R1 has come, the card collects no block but the one being sent.    *)
LEMMA Calm ==
    ASSUME HostInv, host.todo = <<>>, host.op # "init",
           host.phase \in {"send", "token", "data", "response", "busy"}
    PROVE  card.state # "writeData"
<1>1. host.step # 1
    BY DEF HostInv, JobKnown
<1>2. CASE host.phase = "send"
  <2>1. Answering
    BY <1>1, <1>2 DEF HostInv, Protocol, Lost
  <2>. QED BY <2>1, AnswerState, Held DEF Answering
<1>3. CASE host.phase # "send"
    BY <1>3 DEF HostInv, Protocol, TokenDue, DataDue, Reading, ResponseDue, IdleDue
<1>. QED BY <1>2, <1>3

DiskSteps == [D!DiskNext]_(D!diskVars)

(* A byte exchanged while the request stands: a stutter, or a torn sector. *)
LEMMA DiskSettles ==
    ASSUME HostInv, HostInv', NEW in \in Byte, Transfer(in), damaged' = damaged,
           Requested(host') = Requested(host), Answered(host') = Answered(host)
    PROVE  DiskSteps
<1>1. CASE image' = image
    BY <1>1 DEF DiskSteps, D!diskVars
<1>2. CASE image' # image
    BY <1>2, ImageMoves DEF DiskSteps, D!DiskNext, D!Settle, SectorNumbers
<1>. QED BY <1>1, <1>2

LEMMA DiskGivesUp ==
    ASSUME image' = image, damaged' = damaged, Requested(host') = D!NoRequest,
           Answered(host') = Answered(host)
    PROVE  DiskSteps
<1>1. CASE Requested(host) = D!NoRequest
    BY <1>1 DEF DiskSteps, D!diskVars
<1>2. CASE Requested(host) # D!NoRequest
    BY <1>2 DEF DiskSteps, D!DiskNext, D!GiveUp
<1>. QED BY <1>1, <1>2

LEMMA DiskForgets ==
    ASSUME image' = image, damaged' = damaged, Requested(host') = Requested(host),
           Answered(host') = <<>>
    PROVE  DiskSteps
    BY DEF DiskSteps, D!DiskNext, D!Forget

(* The driver waits, gives up or goes on to the next phase of its job.     *)
LEMMA DiskGoesOn ==
    ASSUME HostInv, HostInv', Transfer(Idle), damaged' = damaged, SameJob, host.todo = <<>>,
           host.phase \in {"send", "token", "data", "response", "busy"},
           host'.phase # "ready"
    PROVE  DiskSteps
<1>1. Idle \in Byte
    BY Held
<1>2. CASE host'.phase # "failed"
    BY <1>1, <1>2, RequestStands, DiskSettles DEF SameJob
<1>3. CASE host'.phase = "failed" /\ host.op = "init"
  <2>1. host'.op = "init"
    BY <1>3 DEF SameJob
  <2>2. Requested(host') = Requested(host) /\ Answered(host') = Answered(host)
    BY <1>3, <2>1, NothingAsked
  <2>. QED BY <1>1, <2>2, DiskSettles
<1>4. CASE host'.phase = "failed" /\ host.op # "init"
  <2>1. image' = image
    BY <1>1, <1>4, Calm, ImageMoves
  <2>2. Requested(host') = D!NoRequest /\ Answered(host') = <<>> /\ Answered(host) = <<>>
    BY <1>4, NothingLeft DEF Answered
  <2>. QED BY <2>1, <2>2, DiskGivesUp
<1>. QED BY <1>2, <1>3, <1>4

(* Another init command, or the end of the boot.                           *)
LEMMA DiskBoots ==
    ASSUME HostInv, HostInv', InitAnswered
    PROVE  DiskSteps
<1>1. /\ Transfer(Idle) /\ Quiet /\ Idle \in Byte /\ host \in HostType /\ host.step \in 1 .. 4
      /\ host.op = "init"
    BY Held, ResultParts DEF InitAnswered, HostInv, JobKnown
<1>2. host'.op = "init"
  <2>1. \/ host' = Failed(host) \/ host' = Finished(host)
        \/ host' = [Sending(host, "send", InitCommands[host.step + 1]) EXCEPT !.step = @ + 1]
    BY DEF InitAnswered
  <2>. QED BY <1>1, <2>1 DEF Failed, Finished, Sending, HostType
<1>3. Requested(host') = Requested(host) /\ Answered(host') = Answered(host)
    BY <1>1, <1>2, NothingAsked
<1>. QED BY <1>1, <1>3, DiskSettles DEF Quiet

(* R1 of a block command.                                                  *)
LEMMA DiskHearsR1 ==
    ASSUME HostInv, HostInv', ReadAnswered \/ WriteAnswered
    PROVE  DiskSteps
<1>1. /\ Transfer(Idle) /\ Quiet /\ host \in HostType /\ host.todo = <<>>
      /\ host.phase = "send" /\ host.op \in {"read", "write"}
    BY Held, ResultParts DEF ReadAnswered, WriteAnswered
<1>2. SameJob /\ host'.phase \in {"token", "response", "failed"}
  <2>1. \/ host' = Failed(host) \/ host' = Sending(host, "token", <<>>)
        \/ host' = Sending(host, "response", <<StartBlock>> \o host.block \o <<Idle, Idle>>)
    BY DEF ReadAnswered, WriteAnswered
  <2>. QED BY <1>1, <2>1 DEF Failed, Sending, HostType, SameJob
<1>. QED BY <1>1, <1>2, DiskGoesOn DEF Quiet

LEMMA DiskHearsToken ==
    ASSUME HostInv, HostInv', TokenSeen \/ ResponseSeen
    PROVE  DiskSteps
<1>1. /\ Transfer(Idle) /\ Quiet /\ host \in HostType /\ host.todo = <<>>
      /\ host.phase \in {"token", "response"}
    BY Held, ResultParts DEF TokenSeen, ResponseSeen, Quiet
<1>2. SameJob /\ host'.phase \in {"data", "busy", "failed"}
  <2>1. \/ host' = Failed(host) \/ host' = Sending(host, "busy", <<>>)
        \/ host' = [host EXCEPT !.phase = "data", !.got = <<>>]
    BY DEF TokenSeen, ResponseSeen
  <2>. QED BY <1>1, <2>1 DEF Failed, Sending, HostType, SameJob
<1>. QED BY <1>1, <1>2, DiskGoesOn DEF Quiet

(* A byte of the block; the last one answers the request.                  *)
LEMMA DiskReads ==
    ASSUME HostInv, HostInv', DataByte
    PROVE  DiskSteps
<1>1. /\ Transfer(Idle) /\ Quiet /\ host \in HostType /\ host.todo = <<>> /\ Idle \in Byte
      /\ host.phase = "data" /\ host.op = "read" /\ host.sector \in SectorNumbers
    BY Held DEF DataByte, Waiting, HostInv, Protocol, DataDue, Reading
<1>2. PICK got : got = Append(host.got, shift)
    OBVIOUS
<1>3. \/ host' = [host EXCEPT !.got = got]
      \/ host' = [Finished(host) EXCEPT !.got = SubSeq(got, 1, SectorSize)]
    BY <1>2 DEF DataByte
<1>4. SameJob /\ host'.phase \in {"data", "ready"}
    BY <1>1, <1>3 DEF Finished, HostType, SameJob
<1>5. CASE host'.phase = "data"
    BY <1>1, <1>4, <1>5, DiskGoesOn DEF Quiet
<1>6. CASE host'.phase = "ready"
  <2>1. image' = image
    BY <1>1, Calm, ImageMoves
  <2>2. host'.got = image'[host'.sector]
    BY <1>1, <1>4, <1>6 DEF HostInv, Protocol, Done, SameJob
  <2>3. /\ Requested(host) \in D!Reads /\ Requested(host).sector = host.sector
        /\ Requested(host') = D!NoRequest /\ Answered(host') = image[host.sector]
    BY <1>1, <1>4, <1>6, <2>1, <2>2, ReadAsked, NothingLeft DEF SameJob, SectorNumbers, HostType
  <2>4. D!ReadDone
    BY <1>1, <2>1, <2>3 DEF D!ReadDone, SectorNumbers, Quiet
  <2>. QED BY <2>4 DEF DiskSteps, D!DiskNext
<1>. QED BY <1>4, <1>5, <1>6

(* The card is ready again: the block is in its sector.                    *)
LEMMA DiskWrites ==
    ASSUME HostInv, HostInv', Programmed
    PROVE  DiskSteps
<1>1. /\ Transfer(Idle) /\ host \in HostType /\ host.todo = <<>> /\ Idle \in Byte
      /\ host.phase = "busy" /\ host.op = "write" /\ host.sector \in SectorNumbers
      /\ image[host.sector] = host.block /\ damaged' = damaged \ {host.sector}
      /\ host' = Finished(host)
    BY Held DEF Programmed, Waiting, HostInv, Protocol, IdleDue, Writing
<1>2. image' = image
    BY <1>1, Calm, ImageMoves
<1>3. host'.phase = "ready" /\ host'.op = "write"
    BY <1>1, FinishedHost
<1>4. host.block \in Block
    BY <1>1, HostAssumption DEF HostInv, JobKnown
<1>5. /\ Requested(host) \in D!Writes /\ Requested(host).sector = host.sector
      /\ Requested(host).block = host.block /\ Answered(host) = <<>>
      /\ Requested(host') = D!NoRequest /\ Answered(host') = <<>>
    BY <1>1, <1>3, <1>4, WriteAsked, NothingLeft DEF SectorNumbers, HostType
<1>6. D!WriteDone
    BY <1>1, <1>2, <1>5 DEF D!WriteDone, SectorNumbers
<1>. QED BY <1>6 DEF DiskSteps, D!DiskNext

(* A new request.                                                          *)
LEMMA DiskAsked ==
    ASSUME HostInv, HostInv', NEW op, NEW index \in 0 .. 63, NEW sector \in 0 .. Sectors, NEW block,
           Start(op, index, sector, block),
           op \in {"read", "write", "probe"}, op = "write" => block \in Blocks
    PROVE  DiskSteps
<1>1. host \in HostType /\ host.phase = "ready" /\ image' = image
    BY Held DEF Start, cardVars
<1>2. /\ host'.op = op /\ host'.sector = sector /\ host'.block = block
      /\ host'.phase = "send"
    BY <1>1 DEF Start, Sending, HostType
<1>3. Requested(host) = D!NoRequest
    BY <1>1, NothingLeft
<1>4. CASE op = "read"
  <2>1. Requested(host') \in D!Reads /\ Answered(host') = <<>> /\ damaged' = damaged
    BY <1>2, <1>4, ReadAsked DEF Start
  <2>2. D!AskRead
    BY <1>1, <1>3, <2>1 DEF D!AskRead, D!Ask
  <2>. QED BY <2>2 DEF DiskSteps, D!DiskNext
<1>5. CASE op = "write"
  <2>1. /\ Requested(host') \in D!Writes /\ Answered(host') = <<>>
        /\ Requested(host').sector = sector
    BY <1>2, <1>5, WriteAsked, HostAssumption
  <2>2. damaged' = damaged \cup ({sector} \cap 0 .. Sectors - 1)
    BY <1>5, CardAssumption DEF Start
  <2>3. D!AskWrite
    BY <1>1, <1>3, <2>1, <2>2 DEF D!AskWrite, D!Ask
  <2>. QED BY <2>3 DEF DiskSteps, D!DiskNext
<1>6. CASE op = "probe"
  <2>1. damaged' = damaged /\ host'.op \notin {"read", "write"}
    BY <1>2, <1>6 DEF Start
  <2>2. Requested(host') = D!NoRequest /\ Answered(host') = <<>>
    BY <2>1, NothingAsked
  <2>. QED BY <1>1, <1>3, <2>1, <2>2, DiskForgets
<1>. QED BY <1>4, <1>5, <1>6

(* RS: the request is not answered, and an answer is forgotten.            *)
LEMMA DiskRestarts ==
    ASSUME HostInv, Deselect, host' = Booting, damaged' = damaged
    PROVE  DiskSteps
<1>1. Requested(host') = D!NoRequest /\ Answered(host') = <<>> /\ image' = image
    BY NothingAsked DEF Booting, Deselect
<1>2. CASE Requested(host) = D!NoRequest
    BY <1>1, <1>2, DiskForgets
<1>3. CASE Requested(host) # D!NoRequest
  <2>1. Answered(host) = <<>>
    BY <1>3, NothingLeft DEF Answered
  <2>. QED BY <1>1, <2>1, DiskGivesUp
<1>. QED BY <1>2, <1>3

(* Every step of the system is one of the Disk or none.                    *)
LEMMA DiskFollows ==
    ASSUME HostInv, HostInv', [HostNext]_hostVars
    PROVE  DiskSteps
<1>1. CASE SendByte
  <2>1. /\ Transfer(Head(host.todo)) /\ Head(host.todo) \in Byte /\ SameJob /\ Quiet
        /\ host.phase \in {"send", "response"} /\ host'.phase = host.phase
    BY <1>1, SentByte
  <2>. QED BY <2>1, RequestStands, DiskSettles DEF SameJob, Quiet
<1>2. ASSUME NEW phase \in {"send", "token", "response"}, PollCard(phase) PROVE DiskSteps
  <2>1. /\ host.phase = phase /\ host.todo = <<>> /\ Transfer(Idle) /\ Quiet
    BY <1>2 DEF PollCard, Waiting
  <2>2. SameJob /\ host'.phase # "ready"
    BY <1>2, Polled DEF Phases
  <2>. QED BY <2>1, <2>2, DiskGoesOn DEF Quiet
<1>3. CASE InitAnswered
    BY <1>3, DiskBoots
<1>4. CASE ReadAnswered \/ WriteAnswered
    BY <1>4, DiskHearsR1
<1>5. CASE TokenSeen \/ ResponseSeen
    BY <1>5, DiskHearsToken
<1>6. CASE DataByte
    BY <1>6, DiskReads
<1>7. CASE ProbeAnswered
  <2>1. /\ Transfer(Idle) /\ Idle \in Byte /\ Quiet /\ host \in HostType /\ host.op = "probe"
        /\ host' = [Finished(host) EXCEPT !.got = <<shift>>]
    BY <1>7, Held, ResultParts DEF ProbeAnswered
  <2>2. host'.op = "probe"
    BY <2>1 DEF Finished, HostType
  <2>3. Requested(host') = Requested(host) /\ Answered(host') = Answered(host)
    BY <2>1, <2>2, NothingAsked
  <2>. QED BY <2>1, <2>3, DiskSettles DEF Quiet
<1>8. CASE StillBusy
  <2>1. /\ host.phase = "busy" /\ host.todo = <<>> /\ Transfer(Idle) /\ Quiet /\ host' = host
    BY <1>8 DEF StillBusy, Waiting
  <2>. QED BY <2>1, DiskGoesOn DEF Quiet, SameJob
<1>9. CASE Programmed
    BY <1>9, DiskWrites
<1>10. CASE Retry \/ Restart
    BY <1>10, DiskRestarts DEF Retry, Restart
<1>11. ASSUME NEW sector \in 0 .. Sectors, Start("read", 17, sector, <<>>) PROVE DiskSteps
  <2>1. 17 \in 0 .. 63
    OBVIOUS
  <2>. QED BY <1>11, <2>1, DiskAsked
<1>12. ASSUME NEW sector \in 0 .. Sectors, NEW block \in Blocks,
              Start("write", 24, sector, block)
       PROVE  DiskSteps
  <2>1. 24 \in 0 .. 63
    OBVIOUS
  <2>. QED BY <1>12, <2>1, DiskAsked
<1>13. ASSUME NEW index \in ProbeIndexes, Start("probe", index, 0, <<>>) PROVE DiskSteps
  <2>1. index \in 0 .. 63 /\ 0 \in 0 .. Sectors
    BY CardAssumption DEF ProbeIndexes
  <2>. QED BY <1>13, <2>1, DiskAsked
<1>14. CASE UNCHANGED hostVars
    BY <1>14 DEF hostVars, cardVars, DiskSteps, D!diskVars
<1>. QED BY <1>1, <1>2, <1>3, <1>4, <1>5, <1>6, <1>7, <1>8, <1>9, <1>10, <1>11, <1>12, <1>13, <1>14
         DEF HostNext, DriverNext

(* Card and driver implement a Disk: for every size of block and card, any *)
(* image errors and RS at any byte, a program sees blocks read and written *)
(* one at a time, and only a write that was not reported as done can leave *)
(* a sector with anything but what was written there.                      *)
THEOREM DiskImplemented == HostSpec => ImplementsDisk
<1>1. HostInit => D!DiskInit
  <2>1. SUFFICES ASSUME HostInit PROVE D!DiskInit
    OBVIOUS
  <2>2. HostInv /\ damaged = {} /\ host = Booting
    BY <2>1, InitHolds DEF HostInit, HostInitWith
  <2>3. image \in [0 .. Sectors - 1 -> Block]
    BY <2>2 DEF HostInv, Types, CardTypes, SectorNumbers
  <2>4. Requested(host) = D!NoRequest /\ Answered(host) = <<>>
    BY <2>2, NothingAsked DEF Booting
  <2>. QED BY <2>2, <2>3, <2>4 DEF D!DiskInit
<1>2. HostInv /\ [HostNext]_hostVars => [D!DiskNext]_(D!diskVars)
    BY NextKeeps, DiskFollows DEF DiskSteps
<1>. QED BY <1>1, <1>2, ProtocolHolds, PTL DEF HostSpec, ImplementsDisk, D!DiskSpec
=============================================================================
