---------------------------- MODULE BrowserProofs ----------------------------
(***************************************************************************)
(* Proofs about Broadcast, for any number of browsers, any channel         *)
(* capacity and any number of changes of the machine; and about Memory's   *)
(* snapshots, for every memory map, board and set of files.                *)
(***************************************************************************)
EXTENDS MCBrowsers, CommonProofs, SequenceTheorems, FiniteSetTheorems, TLAPS

(* A channel holds states of the machine. *)
LEMMA Elements ==
    ASSUME TypeOK, NEW c \in Clients
    PROVE  /\ DOMAIN queue[c] = 1 .. Len(queue[c])
           /\ \A i \in DOMAIN queue[c] : queue[c][i] \in 0 .. MaxVersion
           /\ queue[c] # <<>> => Head(queue[c]) \in 0 .. MaxVersion
PROOF
    <1>1. queue[c] \in Seq(0 .. MaxVersion)
        BY DEF TypeOK
    <1>2. DOMAIN queue[c] = 1 .. Len(queue[c])
        BY <1>1
    <1>3. \A i \in DOMAIN queue[c] : queue[c][i] \in 0 .. MaxVersion
        BY <1>1, <1>2, ElementOfSeq
    <1>4. queue[c] # <<>> => Head(queue[c]) \in 0 .. MaxVersion
        BY <1>1, HeadTailProperties
    <1> QED
        BY <1>2, <1>3, <1>4

(* What the goroutines do with a channel and what it keeps: its elements   *)
(* are states of the machine, no more than its capacity.                   *)
LEMMA QueueTypes ==
    ASSUME TypeOK, [Next]_broadcastVars
    PROVE  /\ queue' \in [Clients -> Seq(0 .. MaxVersion)]
           /\ \A c \in Clients : Len(queue'[c]) <= QueueCap
PROOF
    <1>1. CASE UNCHANGED queue
        BY <1>1 DEF TypeOK
    <1>2. ASSUME NEW c \in Clients, Offer(c)
          PROVE  /\ queue' \in [Clients -> Seq(0 .. MaxVersion)]
                 /\ \A d \in Clients : Len(queue'[d]) <= QueueCap
        BY <1>2, BroadcastAssumption DEF Offer, TypeOK
    <1>3. ASSUME NEW c \in Clients, Connect(c)
          PROVE  /\ queue' \in [Clients -> Seq(0 .. MaxVersion)]
                 /\ \A d \in Clients : Len(queue'[d]) <= QueueCap
        BY <1>3, BroadcastAssumption DEF Connect, TypeOK
    <1>4. ASSUME NEW c \in Clients, Write(c)
          PROVE  /\ queue' \in [Clients -> Seq(0 .. MaxVersion)]
                 /\ \A d \in Clients : Len(queue'[d]) <= QueueCap
        BY <1>4, BroadcastAssumption DEF Write, TypeOK
    <1> QED
        BY <1>1, <1>2, <1>3, <1>4
        DEF Next, BroadcastState, MachineChanges, Sample, LockClients, UnlockClients,
            Unlist, CloseChannel, WriterEnds, broadcastVars, conns

(* What the handlers keep about a connection ...                           *)
LEMMA HandlerTypes ==
    ASSUME TypeOK, [Next]_broadcastVars
    PROVE  /\ clients' \subseteq Clients
           /\ closed' \in [Clients -> BOOLEAN]
           /\ handler' \in [Clients -> {"none", "open", "unlisted", "gone"}]
PROOF
    <1>1. clients' \subseteq Clients
        BY DEF TypeOK, Next, BroadcastState, MachineChanges, Sample, LockClients, Offer,
               UnlockClients, Connect, Unlist, CloseChannel, Write, WriterEnds,
               broadcastVars, conns
    <1>2. closed' \in [Clients -> BOOLEAN]
        BY DEF TypeOK, Next, BroadcastState, MachineChanges, Sample, LockClients, Offer,
               UnlockClients, Connect, Unlist, CloseChannel, Write, WriterEnds,
               broadcastVars, conns
    <1>3. handler' \in [Clients -> {"none", "open", "unlisted", "gone"}]
        BY DEF TypeOK, Next, BroadcastState, MachineChanges, Sample, LockClients, Offer,
               UnlockClients, Connect, Unlist, CloseChannel, Write, WriterEnds,
               broadcastVars, conns
    <1> QED
        BY <1>1, <1>2, <1>3

(* ... and the writers and browsers, which show what was in the channel.   *)
LEMMA WriterTypes ==
    ASSUME TypeOK, [Next]_broadcastVars
    PROVE  /\ writer' \in [Clients -> {"none", "running", "ended"}]
           /\ shown' \in [Clients -> 0 .. MaxVersion]
PROOF
    <1>1. writer' \in [Clients -> {"none", "running", "ended"}]
        BY DEF TypeOK, Next, BroadcastState, MachineChanges, Sample, LockClients, Offer,
               UnlockClients, Connect, Unlist, CloseChannel, Write, WriterEnds,
               broadcastVars, conns
    <1>2. ASSUME NEW c \in Clients, Write(c)
          PROVE  shown' \in [Clients -> 0 .. MaxVersion]
        <2>1. queue[c] # <<>>
            BY <1>2 DEF Write
        <2>2. Head(queue[c]) \in 0 .. MaxVersion
            BY <2>1, Elements
        <2> QED
            BY <1>2, <2>2 DEF Write, TypeOK
    <1>3. ASSUME NEW c \in Clients, Connect(c)
          PROVE  shown' \in [Clients -> 0 .. MaxVersion]
        <2>1. 0 \in 0 .. MaxVersion
            BY BroadcastAssumption
        <2> QED
            BY <1>3, <2>1 DEF Connect, TypeOK
    <1>4. CASE UNCHANGED shown
        BY <1>1, <1>4 DEF TypeOK
    <1> QED
        BY <1>1, <1>2, <1>3, <1>4
        DEF Next, BroadcastState, MachineChanges, Sample, LockClients, Offer,
            UnlockClients, Unlist, CloseChannel, WriterEnds, broadcastVars, conns

LEMMA QueuesTyped ==
    ASSUME TypeOK, [Next]_broadcastVars
    PROVE  TypeOK'
PROOF
    <1>1. version' \in 1 .. MaxVersion /\ msg' \in 0 .. MaxVersion
        BY BroadcastAssumption
        DEF TypeOK, Next, BroadcastState, MachineChanges, Sample, LockClients, Offer,
            UnlockClients, Connect, Unlist, CloseChannel, Write, WriterEnds,
            broadcastVars, broadcaster
    <1>2. /\ clientsMu' \in {"free", "broadcast"}
          /\ phase' \in {"idle", "sampled", "sending"}
          /\ todo' \subseteq Clients
        BY DEF TypeOK, Next, BroadcastState, MachineChanges, Sample, LockClients, Offer,
               UnlockClients, Connect, Unlist, CloseChannel, Write, WriterEnds,
               broadcastVars, broadcaster
    <1> QED
        BY <1>1, <1>2, QueueTypes, HandlerTypes, WriterTypes DEF TypeOK

LEMMA QueuesStart == Init => TypeOK
    BY BroadcastAssumption DEF Init, TypeOK

(* Types, and the capacity of the channels, for every configuration.       *)
THEOREM TypesHold == Spec => []TypeOK
    BY QueuesStart, QueuesTyped, PTL DEF Spec

----------------------------------------------------------------------------
(* NoSendOnClosed is not inductive: it does not say why a handler cannot   *)
(* close the channel of a client that waits to be sent to.  While the      *)
(* broadcaster sends it holds the lock, so what it has still to visit is   *)
(* registered; a registered client has its handler; and only a handler     *)
(* that has taken its client off the list closes the channel.              *)
LockInv ==
    /\ phase = "sending" => clientsMu = "broadcast"
    /\ phase # "sending" => todo = {}
    /\ todo \subseteq clients
    /\ \A c \in clients : handler[c] = "open"
    /\ \A c \in Clients : handler[c] \in {"open", "unlisted"} => ~closed[c]

LEMMA LockInvInductive ==
    ASSUME TypeOK, LockInv, [Next]_broadcastVars
    PROVE  LockInv'
PROOF
    <1>1. CASE MachineChanges \/ UNCHANGED broadcastVars
        BY <1>1 DEF MachineChanges, broadcastVars, conns, broadcaster, LockInv
    <1>2. CASE Sample \/ LockClients \/ UnlockClients
        BY <1>2 DEF Sample, LockClients, UnlockClients, conns, LockInv
    <1>3. ASSUME NEW c \in Clients, Offer(c) \/ Write(c) \/ WriterEnds(c)
          PROVE  LockInv'
        BY <1>3 DEF Offer, Write, WriterEnds, broadcaster, LockInv
    <1>4. ASSUME NEW c \in Clients, Connect(c)
          PROVE  LockInv'
        BY <1>4 DEF Connect, broadcaster, LockInv, TypeOK
    <1>5. ASSUME NEW c \in Clients, Unlist(c)
          PROVE  LockInv'
        BY <1>5 DEF Unlist, broadcaster, LockInv, TypeOK
    <1>6. ASSUME NEW c \in Clients, CloseChannel(c)
          PROVE  LockInv'
        BY <1>6 DEF CloseChannel, broadcaster, LockInv, TypeOK
    <1> QED
        BY <1>1, <1>2, <1>3, <1>4, <1>5, <1>6 DEF Next, BroadcastState

(* The broadcaster never sends on a closed channel.                        *)
THEOREM NoSendOnClosedHolds == Spec => []NoSendOnClosed
PROOF
    <1>1. Init => LockInv
        BY DEF Init, LockInv
    <1>2. TypeOK /\ LockInv /\ [Next]_broadcastVars => LockInv'
        BY LockInvInductive
    <1>3. TypeOK /\ LockInv => NoSendOnClosed
        BY DEF LockInv, NoSendOnClosed, TypeOK
    <1> QED
        BY TypesHold, <1>1, <1>2, <1>3, PTL DEF Spec

----------------------------------------------------------------------------
(* InOrder is inductive: versions only grow, a sample is the newest of     *)
(* them, and channels are filled at one end and emptied at the other.      *)
LEMMA InOrderInductive ==
    ASSUME TypeOK, InOrder, [Next]_broadcastVars
    PROVE  InOrder'
PROOF
    <1>1. CASE MachineChanges
        BY <1>1 DEF MachineChanges, conns, broadcaster, InOrder, TypeOK
    <1>2. CASE Sample
        <2>1. /\ msg' = version /\ version' = version /\ queue' = queue /\ shown' = shown
              /\ msg <= version
            BY <1>2 DEF Sample, conns, InOrder
        <2>2. version \in Nat /\ msg \in Nat /\ \A c \in Clients : shown[c] \in Nat
            BY DEF TypeOK
        <2>3. ASSUME NEW c \in Clients
              PROVE  /\ shown[c] <= version
                     /\ \A i \in DOMAIN queue[c] : queue[c][i] <= version
            BY <2>1, <2>2, Elements DEF InOrder
        <2> QED
            BY <2>1, <2>2, <2>3 DEF InOrder
    <1>3. CASE UNCHANGED <<version, msg, queue, shown>>
        BY <1>3 DEF InOrder
    <1>4. ASSUME NEW c \in Clients, Offer(c)
          PROVE  InOrder'
        <2>1. version' = version /\ msg' = msg /\ shown' = shown
            BY <1>4 DEF Offer
        <2>2. /\ queue'[c] \in {queue[c], Append(queue[c], msg)}
              /\ \A d \in Clients \ {c} : queue'[d] = queue[d]
            BY <1>4 DEF Offer, TypeOK
        <2>3. ASSUME NEW q, q = Append(queue[c], msg)
              PROVE  /\ \A i \in DOMAIN q : shown[c] <= q[i] /\ q[i] <= msg
                     /\ \A i, j \in DOMAIN q : i <= j => q[i] <= q[j]
            <3> DEFINE last == Len(queue[c]) + 1
            <3>1. queue[c] \in Seq(0 .. MaxVersion) /\ msg \in Nat /\ shown[c] \in Nat
                BY DEF TypeOK
            <3>2. DOMAIN q = 1 .. last /\ Len(queue[c]) \in Nat
                BY <2>3, <3>1
            <3>3. q[last] = msg /\ \A i \in 1 .. last : i # last => q[i] = queue[c][i]
                BY <2>3, <3>1
            <3>4. shown[c] <= msg
                BY DEF InOrder
            <3>5. \A i \in 1 .. last : i # last =>
                      q[i] \in Nat /\ shown[c] <= q[i] /\ q[i] <= msg
                BY <3>2, <3>3, Elements DEF InOrder
            <3>6. \A i, j \in 1 .. last : j # last /\ i <= j => q[i] <= q[j]
                BY <3>2, <3>3, Elements DEF InOrder
            <3>7. \A i \in 1 .. last : shown[c] <= q[i] /\ q[i] <= msg
                BY <3>1, <3>3, <3>4, <3>5
            <3>8. \A i, j \in 1 .. last : i <= j => q[i] <= q[j]
                BY <3>3, <3>6, <3>7
            <3> QED
                BY <3>2, <3>7, <3>8
        <2> QED
            BY <2>1, <2>2, <2>3 DEF InOrder
    <1>5. ASSUME NEW c \in Clients, Connect(c)
          PROVE  InOrder'
        <2>1. version' = version /\ msg' = msg
            BY <1>5 DEF Connect, broadcaster
        <2>2. /\ queue'[c] = <<>> /\ shown'[c] = 0
              /\ \A d \in Clients \ {c} : queue'[d] = queue[d] /\ shown'[d] = shown[d]
            BY <1>5 DEF Connect, TypeOK
        <2>3. 0 <= msg
            BY DEF TypeOK
        <2> QED
            BY <2>1, <2>2, <2>3 DEF InOrder
    <1>6. ASSUME NEW c \in Clients, Write(c)
          PROVE  InOrder'
        BY <1>6 DEF Write, broadcaster, InOrder, TypeOK
    <1> QED
        BY <1>1, <1>2, <1>3, <1>4, <1>5, <1>6
        DEF Next, BroadcastState, LockClients, UnlockClients, Unlist, CloseChannel,
            WriterEnds, conns, broadcaster, broadcastVars

(* No browser is ever shown an older state after a newer one.              *)
THEOREM InOrderHolds == Spec => []InOrder
PROOF
    <1>1. Init => InOrder
        BY DEF Init, InOrder
    <1>2. TypeOK /\ InOrder /\ [Next]_broadcastVars => InOrder'
        BY InOrderInductive
    <1> QED
        BY TypesHold, <1>1, <1>2, PTL DEF Spec

----------------------------------------------------------------------------
(* The bytes of a saved snapshot that a board keeps in RAM are the RAM's   *)
(* at the time; nothing but another save changes either.                   *)
SnapshotInv ==
    saved # <<>> => /\ kept = [a \in RamAddr |-> kept[a]]
                    /\ \A a \in RamAddr : saved[a] = kept[a]

(* What the board keeps in RAM is read back by Peek from that RAM. *)
LEMMA RamIsPeeked ==
    ASSUME NEW b, NEW a \in RamAddr
    PROVE  a \in Addr /\ Peekable(a) /\ Contents(b, a) = b.mem[a]
BY DEF RamAddr, RamRegions, ExpansionRegions, Peekable, Contents

(* A restore writes exactly the regions that are RAM on this board. *)
LEMMA RestoreCoversRam ==
    ASSUME NEW a \in RamAddr
    PROVE  RegionOf[a] \in RestoredRegions
BY DEF RamAddr, RamRegions, RestoredRegions

LEMMA SnapshotInitially == MemoryInit => SnapshotInv
BY DEF MemoryInit, SnapshotInv

LEMMA SnapshotKept == SnapshotInv /\ [MemoryNext]_memoryVars => SnapshotInv'
<1> SUFFICES ASSUME SnapshotInv, [MemoryNext]_memoryVars
             PROVE  SnapshotInv'
    OBVIOUS
<1>1. CASE UNCHANGED <<saved, kept>>
    BY <1>1 DEF SnapshotInv
<1>2. CASE SaveSnapshot
    <2>1. kept' = [a \in RamAddr |-> board.mem[a]]
        BY <1>2 DEF SaveSnapshot
    <2>2. \A a \in RamAddr : kept'[a] = board.mem[a]
        BY <2>1
    <2>3. kept' = [a \in RamAddr |-> kept'[a]]
        BY <2>1, <2>2
    <2>4. \A a \in Addr : saved'[a] = IF Peekable(a) THEN Contents(board, a) ELSE 0
        BY <1>2 DEF SaveSnapshot
    <2>5. \A a \in RamAddr : saved'[a] = kept'[a]
        BY <2>2, <2>4, RamIsPeeked
    <2> QED
        BY <2>3, <2>5 DEF SnapshotInv, RamAddr
<1>3. CASE MemoryNext /\ ~SaveSnapshot
    <2>1. UNCHANGED <<saved, kept>>
        BY <1>3 DEF MemoryNext, Program, ProgramStores, ProgramFetches, TimerUnderflows,
                    ShowState, Message, Requests, MemView, MemWrite, Load, RestoreSaved, Restore, Silent, Answered
    <2> QED
        BY <2>1, <1>1
<1> QED
    BY <1>1, <1>2, <1>3 DEF memoryVars

(* Restoring a saved snapshot brings back all of the RAM, on every board.  *)
THEOREM RestoreBringsHolds == MemorySpec => RestoreBrings
<1>1. SnapshotInv /\ [MemoryNext]_memoryVars => [RestoreSaved => board'.mem = kept]_memoryVars
    <2> SUFFICES ASSUME SnapshotInv, RestoreSaved
                 PROVE  board'.mem = kept
        OBVIOUS
    <2>1. saved # <<>> /\ Restore(saved)
        BY DEF RestoreSaved
    <2>2. board'.mem = [a \in RamAddr |->
              IF RegionOf[a] \in RestoredRegions THEN saved[a] ELSE board.mem[a]]
        BY <2>1 DEF Restore
    <2>3. board'.mem = [a \in RamAddr |-> kept[a]]
        BY <2>1, <2>2, RestoreCoversRam DEF SnapshotInv
    <2> QED
        BY <2>1, <2>3 DEF SnapshotInv
<1> QED
    BY <1>1, SnapshotInitially, SnapshotKept, PTL DEF MemorySpec, RestoreBrings
----------------------------------------------------------------------------
(* The board, the bytes of a file and what LoadRecords counts. *)
Board == [mem : [RamAddr -> Byte], reg : [IOWindows -> Byte], flag : [IOWindows -> BOOLEAN]]
TargetByte == [addr : Addr, val : Byte]
LoadState == [board : Board, written : Nat, skipped : Nat, min : Addr, max : Addr]
Fresh(b) == [board |-> b, written |-> 0, skipped |-> 0, min |-> 0, max |-> 0]

LEMMA Space == AddressSpace \in Nat /\ AddressSpace > 0 /\ 0 \in Addr
BY MapAssumption DEF Addr

(* Every address has its place on the map, and no I/O window is peeked at. *)
LEMMA RegionKnown ==
    ASSUME NEW a \in Addr
    PROVE  RegionOf[a] \in Regions
<1>1. \E r \in Regions : a \in Map[r]
    BY MapAssumption
<1>. QED BY <1>1 DEF RegionOf

LEMMA RamIsNoWindow == RamRegions \cap IOWindows = {}
BY DEF RamRegions, ExpansionRegions, IOWindows

LEMMA PeekablesAreMemory ==
    ASSUME NEW a, Peekable(a)
    PROVE  RegionOf[a] \notin IOWindows
BY DEF Peekable, IOWindows, ExpansionRegions

LEMMA BoardParts ==
    ASSUME NEW b \in Board
    PROVE  /\ b = [mem |-> b.mem, reg |-> b.reg, flag |-> b.flag]
           /\ b.mem \in [RamAddr -> Byte] /\ b.reg \in [IOWindows -> Byte]
           /\ b.flag \in [IOWindows -> BOOLEAN]
BY DEF Board

LEMMA PeekLeavesBoard ==
    ASSUME NEW b \in Board, NEW addrs
    PROVE  Peeked(b, addrs) = b
<1>1. \A w \in IOWindows : \A a \in addrs : RegionOf[a] = w => ~Peekable(a)
    BY PeekablesAreMemory
<1>2. b.flag \in [IOWindows -> BOOLEAN]
    BY DEF Board
<1>3. PICK flag : flag = [w \in IOWindows |->
        b.flag[w] /\ \A a \in addrs : RegionOf[a] = w => ~Peekable(a)]
    OBVIOUS
<1>4. \A w \in IOWindows : flag[w] = b.flag[w]
    BY <1>1, <1>2, <1>3, Zenon
<1>5. flag = b.flag
    BY <1>2, <1>3, <1>4, Zenon
<1>6. Peeked(b, addrs) = [b EXCEPT !.flag = b.flag]
    BY <1>3, <1>5 DEF Peeked
<1>7. PICK mem, reg : b = [mem |-> mem, reg |-> reg, flag |-> flag]
    BY <1>5, BoardParts
<1>. QED BY <1>6, <1>7

LEMMA StoreKeepsTypes ==
    ASSUME NEW b \in Board, NEW a \in Addr, NEW v \in Byte
    PROVE  Stored(b, a, v) \in Board
<1>1. CASE RegionOf[a] \in RamRegions
  <2>1. a \in RamAddr
      BY <1>1 DEF RamAddr
  <2>2. Stored(b, a, v) = [b EXCEPT !.mem[a] = v]
      BY <1>1, RamIsNoWindow DEF Stored
  <2>. QED BY <2>1, <2>2 DEF Board
<1>2. CASE RegionOf[a] \notin RamRegions /\ RegionOf[a] \in IOWindows
  <2>1. PICK w \in IOWindows : w = RegionOf[a]
      BY <1>2
  <2>2. Stored(b, a, v) = [b EXCEPT !.reg[w] = v, !.flag[w] = FALSE]
    <3>1. w \notin RamRegions
        BY <1>2, <2>1
    <3>. QED BY <2>1, <3>1 DEF Stored
  <2>3. [b.reg EXCEPT ![w] = v] \in [IOWindows -> Byte]
      BY DEF Board
  <2>4. [b.flag EXCEPT ![w] = FALSE] \in [IOWindows -> BOOLEAN]
      BY DEF Board
  <2>5. PICK reg \in [IOWindows -> Byte], flag \in [IOWindows -> BOOLEAN] :
            reg = [b.reg EXCEPT ![w] = v] /\ flag = [b.flag EXCEPT ![w] = FALSE]
      BY <2>3, <2>4
  <2>6. PICK mem \in [RamAddr -> Byte], oldReg \in [IOWindows -> Byte],
            oldFlag \in [IOWindows -> BOOLEAN] :
            /\ b = [mem |-> mem, reg |-> oldReg, flag |-> oldFlag]
            /\ oldReg = b.reg /\ oldFlag = b.flag
      BY BoardParts
  <2>7. Stored(b, a, v) = [mem |-> mem, reg |-> reg, flag |-> flag]
      BY <2>2, <2>5, <2>6
  <2>. QED BY <2>7 DEF Board
<1>3. CASE RegionOf[a] \notin RamRegions /\ RegionOf[a] \notin IOWindows
    BY <1>3 DEF Stored
<1>. QED BY <1>1, <1>2, <1>3

(* What a store does where Peek can read: nothing to a device. *)
LEMMA StoreWherePeekable ==
    ASSUME NEW b \in Board, NEW a \in Addr, NEW v \in Byte, Peekable(a)
    PROVE  /\ Stored(b, a, v).reg = b.reg /\ Stored(b, a, v).flag = b.flag
           /\ \A c \in RamAddr : Stored(b, a, v).mem[c] = IF c = a THEN v ELSE b.mem[c]
<1>1. RegionOf[a] \notin IOWindows
    BY PeekablesAreMemory
<1>2. CASE a \in RamAddr
  <2>1. Stored(b, a, v) = [b EXCEPT !.mem[a] = v]
      BY <1>2, RamIsNoWindow DEF Stored, RamAddr
  <2>. QED BY <2>1, <1>2 DEF Board
<1>3. CASE a \notin RamAddr
  <2>1. Stored(b, a, v) = b
      BY <1>1, <1>3 DEF Stored, RamAddr
  <2>. QED BY <2>1, <1>3
<1>. QED BY <1>2, <1>3

(* The page of an address lies in the address space, with all of it.       *)
LEMMA Pages ==
    ASSUME NEW a \in Addr
    PROVE  /\ PageOf(a) \in Addr /\ PageOf(a) % PageSize = 0
           /\ PageOf(a) + PageSize - 1 \in Addr
           /\ a - PageOf(a) \in 0 .. PageSize - 1
<1>1. PICK size \in Nat : size = PageSize /\ size > 0
    BY ContentsAssumption
<1>2. PICK n \in Nat : AddressSpace = size * n
  <2>1. AddressSpace % size = 0
      BY <1>1, ContentsAssumption
  <2>2. AddressSpace \in Nat
      BY Space
  <2>. QED BY <1>1, <2>1, <2>2, Divided
<1>3. PICK x \in Nat : x = a /\ x < AddressSpace
    BY Space DEF Addr
<1>4. PICK q \in Nat, r \in Nat : q = x \div size /\ r < size /\ x = (size * q) + r
    BY <1>1, Divided
<1>5. PICK y \in Nat, all \in Nat : y = size * q /\ all = size * n
    OBVIOUS
<1>6. q < n
  <2>1. n < q => all + size <= y
      BY <1>5, Multiples
  <2>2. n = q => all = y
      BY <1>5
  <2>. QED BY <2>1, <2>2, <1>1, <1>2, <1>3, <1>4, <1>5
<1>7. y + size <= all
    BY <1>5, <1>6, Multiples
<1>8. PageOf(a) = y
    BY <1>1, <1>3, <1>4, <1>5 DEF PageOf
<1>9. y % size = 0
  <2>1. y = (size * q) + 0 /\ 0 \in Nat /\ 0 < size
      BY <1>1, <1>5
  <2>. QED BY <2>1, Remainder
<1>. QED BY <1>1, <1>2, <1>3, <1>4, <1>5, <1>7, <1>8, <1>9 DEF Addr

(* What the parsers return are lines, and none if the file is refused.     *)
LEMMA ParsedLines ==
    ASSUME NEW file \in Files
    PROVE  /\ Parse(file).records \in Seq(Line)
           /\ Parse(file).outcome \in {"records", "error", "panic"}
           /\ Parse(file).outcome # "records" => Parse(file).records = <<>>
<1>1. PICK lines \in Seq(Line) : lines = file.lines
    BY FilesAssumption
<1>2. <<>> \in Seq(Line)
    BY EmptySeq
<1>. DEFINE Good(p) == /\ p.records \in Seq(Line)
                       /\ p.outcome \in {"records", "error", "panic"}
                       /\ p.outcome # "records" => p.records = <<>>
<1>3. Good(Parsed("records", lines)) /\ Good(Parsed("error", <<>>)) /\ Good(Parsed("panic", <<>>))
    BY <1>2 DEF Parsed
<1>4. Good(ParsePAP(lines))
  <2>. HIDE DEF Good
  <2>. QED BY <1>3 DEF ParsePAP
<1>5. Good(ParseIntelHex(lines))
  <2>. DEFINE odd == {i \in DOMAIN lines : ~PlainLine(lines[i])}
              stop == CHOOSE i \in odd : \A j \in odd : i <= j
  <2>1. CASE odd = {}
    <3>1. ParseIntelHex(lines) = Parsed("records", lines)
        BY <2>1 DEF ParseIntelHex
    <3>. QED BY <3>1, <1>3
  <2>2. CASE odd # {}
    <3>1. stop \in 1 .. Len(lines)
      <4>1. odd \in SUBSET Nat /\ odd \subseteq 1 .. Len(lines)
          OBVIOUS
      <4>. HIDE DEF odd
      <4>2. \E i \in odd : \A j \in odd : i <= j
          BY <2>2, <4>1, LeastNat
      <4>. QED BY <4>1, <4>2
    <3>. HIDE DEF stop
    <3>2. PICK n \in Nat : n = stop - 1 /\ n <= Len(lines)
      <4>1. stop - 1 \in Nat /\ stop - 1 <= Len(lines)
          BY <3>1
      <4>. QED BY <4>1
    <3>3. SubSeq(lines, 1, n) \in Seq(Line)
        BY <3>2
    <3>4. Good(Parsed("records", SubSeq(lines, 1, stop - 1)))
        BY <3>2, <3>3 DEF Parsed
    <3>5. ParseIntelHex(lines) \in {Parsed("error", <<>>), Parsed("panic", <<>>),
                                    Parsed("records", SubSeq(lines, 1, stop - 1))}
        BY <2>2 DEF ParseIntelHex, stop
    <3>. HIDE DEF Good
    <3>. QED BY <1>3, <3>4, <3>5
  <2>. QED BY <2>1, <2>2
<1>. QED BY <1>1, <1>3, <1>4, <1>5 DEF Parse

(* The bytes of a file, each with its address. *)
LEMMA BytesTyped ==
    ASSUME NEW records \in Seq(Line)
    PROVE  /\ AllBytes(records) \in Seq(TargetByte)
           /\ records = <<>> => AllBytes(records) = <<>>
<1>1. ASSUME NEW r \in Line PROVE TargetBytes(r) \in Seq(TargetByte)
  <2>1. CASE r.kind = "record"
    <3>1. r.addr \in Addr /\ r.data \in Seq(Byte)
        BY <2>1 DEF Line
    <3>2. PICK data \in Seq(Byte), n \in Nat : data = r.data /\ n = Len(data)
        BY <3>1
    <3>3. ASSUME NEW j \in 1 .. n PROVE Target(r, j) \in TargetByte
      <4>1. data[j] \in Byte
          BY <3>2, ElementOfSeq
      <4>2. PICK x \in Nat : x = r.addr + j - 1
        <5>1. r.addr + j - 1 \in Nat
            BY <3>1, Space DEF Addr
        <5>. QED BY <5>1
      <4>3. x % AddressSpace \in Addr
          BY Space, Divided DEF Addr
      <4>. QED BY <3>2, <4>1, <4>2, <4>3 DEF Target, TargetByte
    <3>4. TargetBytes(r) = [j \in 1 .. n |-> Target(r, j)]
        BY <2>1, <3>2 DEF TargetBytes
    <3>. QED BY <3>3, <3>4, IsASeq
  <2>2. CASE r.kind # "record"
      BY <2>2, EmptySeq DEF TargetBytes
  <2>. QED BY <2>1, <2>2
<1>2. PICK n \in Nat : n = Len(records)
    OBVIOUS
<1>. DEFINE S == Seq(TargetByte)
            step == [i \in 1 .. n |-> [s \in S |-> s \o TargetBytes(records[i])]]
<1>3. step \in [1 .. n -> [S -> S]]
  <2>1. ASSUME NEW i \in 1 .. n, NEW s \in S PROVE s \o TargetBytes(records[i]) \in S
    <3>1. records[i] \in Line
        BY <1>2, ElementOfSeq
    <3>. QED BY <1>1, <3>1, ConcatProperties
  <2>. QED BY <2>1
<1>4. <<>> \in S
    BY EmptySeq
<1>5. PICK f \in [0 .. n -> S] : f[0] = <<>> /\ \A i \in 1 .. n : f[i] = step[i][f[i - 1]]
  <2>. HIDE DEF step, S
  <2>1. PICK start \in S : start = <<>>
      BY <1>4
  <2>2. \E f : Rounds(f, n, S, start, step)
      BY <1>3, PrimitiveRecursion
  <2>. QED BY <2>1, <2>2 DEF Rounds
<1>6. \A i \in 1 .. n : f[i] = f[i - 1] \o TargetBytes(records[i])
  <2>1. ASSUME NEW i \in 1 .. n PROVE f[i] = f[i - 1] \o TargetBytes(records[i])
    <3>1. f[i - 1] \in S
      <4>1. i - 1 \in 0 .. n
          OBVIOUS
      <4>. HIDE DEF S
      <4>. QED BY <4>1
    <3>2. step[i][f[i - 1]] = f[i - 1] \o TargetBytes(records[i])
        BY <3>1
    <3>. QED BY <1>5, <3>2
  <2>. QED BY <2>1
<1>. DEFINE Upto(g) == g = [i \in 0 .. Len(records) |->
                              IF i = 0 THEN <<>> ELSE g[i - 1] \o TargetBytes(records[i])]
            all == CHOOSE g : Upto(g)
<1>7. Upto(f)
  <2>1. f = [i \in 0 .. n |-> f[i]]
      OBVIOUS
  <2>2. ASSUME NEW i \in 0 .. n
        PROVE  f[i] = IF i = 0 THEN <<>> ELSE f[i - 1] \o TargetBytes(records[i])
    <3>1. i # 0 => i \in 1 .. n
        OBVIOUS
    <3>. QED BY <3>1, <1>5, <1>6, Zenon
  <2>. QED BY <1>2, <2>1, <2>2
<1>8. Upto(all)
    BY <1>7
<1>9. AllBytes(records) = all[n]
    BY <1>2 DEF AllBytes
<1>10. all[n] \in S
  <2>. HIDE DEF all, S
  <2>1. \A i \in 0 .. n : all[i] = IF i = 0 THEN <<>> ELSE all[i - 1] \o TargetBytes(records[i])
      BY <1>2, <1>8
  <2>. DEFINE T == {i \in 0 .. n : all[i] \notin S}
  <2>2. T = {}
    <3>1. SUFFICES ASSUME T # {} PROVE FALSE
        OBVIOUS
    <3>2. PICK i \in T : \A j \in T : i <= j
      <4>1. T \in SUBSET Nat
          OBVIOUS
      <4>. HIDE DEF T
      <4>. QED BY <3>1, <4>1, LeastNat
    <3>3. i # 0
        BY <1>4, <2>1
    <3>4. i - 1 \in 0 .. n /\ i - 1 \notin T
        BY <3>2, <3>3
    <3>5. all[i - 1] \in S /\ records[i] \in Line
        BY <1>2, <3>3, <3>4, ElementOfSeq
    <3>6. all[i - 1] \o TargetBytes(records[i]) \in S
        BY <1>1, <3>5, ConcatProperties DEF S
    <3>. QED BY <2>1, <3>3, <3>6
  <2>3. n \in 0 .. n
      OBVIOUS
  <2>. QED BY <2>2, <2>3
<1>11. all[0] = <<>>
  <2>1. 0 \in 0 .. Len(records)
      BY <1>2
  <2>. HIDE DEF all
  <2>. QED BY <1>8, <2>1
<1>12. records = <<>> => n = 0
    BY <1>2
<1>13. AllBytes(records) \in Seq(TargetByte)
    BY <1>9, <1>10
<1>14. records = <<>> => AllBytes(records) = <<>>
  <2>. HIDE DEF all, S
  <2>. QED BY <1>9, <1>11, <1>12
<1>. QED BY <1>13, <1>14

(* LoadRecords' rounds, one for each byte. *)
Loading(f, b, bytes, n) ==
    /\ f \in [0 .. n -> LoadState]
    /\ f[0] = Fresh(b)
    /\ \A i \in 1 .. n : f[i] = LoadByte(f[i - 1], bytes[i])

LEMMA LoadByteTyped ==
    ASSUME NEW st \in LoadState, NEW t \in TargetByte
    PROVE  LoadByte(st, t) \in LoadState
<1>1. PICK bd \in Board, w \in Nat, s \in Nat, lo \in Addr, hi \in Addr :
          st = [board |-> bd, written |-> w, skipped |-> s, min |-> lo, max |-> hi]
    BY DEF LoadState
<1>2. PICK a \in Addr, v \in Byte : t.addr = a /\ t.val = v
    BY DEF TargetByte
<1>3. CASE ~Peekable(a)
  <2>1. LoadByte(st, t) = [board |-> bd, written |-> w, skipped |-> s + 1, min |-> lo, max |-> hi]
      BY <1>1, <1>2, <1>3 DEF LoadByte
  <2>. QED BY <2>1 DEF LoadState
<1>4. CASE Peekable(a)
  <2>1. PICK bd2 \in Board : bd2 = Stored(Peeked(bd, {a}), a, v)
      BY PeekLeavesBoard, StoreKeepsTypes
  <2>2. LoadByte(st, t) =
            [board |-> bd2, written |-> w + 1, skipped |-> s,
             min |-> IF w = 0 \/ a < lo THEN a ELSE lo,
             max |-> IF w = 0 \/ a > hi THEN a ELSE hi]
      BY <1>1, <1>2, <1>4, <2>1 DEF LoadByte
  <2>. QED BY <2>2 DEF LoadState
<1>. QED BY <1>3, <1>4

LEMMA LoaderRounds ==
    ASSUME NEW b \in Board, NEW records \in Seq(Line),
           NEW bytes \in Seq(TargetByte), bytes = AllBytes(records),
           NEW n \in Nat, n = Len(bytes)
    PROVE  \E f : Loading(f, b, bytes, n) /\ LoadRecords(b, records) = f[n]
<1>. DEFINE step == [i \in 1 .. n |-> [st \in LoadState |-> LoadByte(st, bytes[i])]]
<1>1. \A i \in 1 .. n : bytes[i] \in TargetByte
    BY ElementOfSeq
<1>2. step \in [1 .. n -> [LoadState -> LoadState]]
    BY <1>1, LoadByteTyped
<1>3. PICK start \in LoadState : start = Fresh(b)
    BY Space DEF Fresh, LoadState
<1>4. PICK f : Rounds(f, n, LoadState, start, step)
  <2>. HIDE DEF step
  <2>. QED BY <1>2, PrimitiveRecursion
<1>5. f \in [0 .. n -> LoadState] /\ f[0] = start
    BY <1>4 DEF Rounds
<1>6. ASSUME NEW i \in 1 .. n PROVE f[i] = LoadByte(f[i - 1], bytes[i])
  <2>1. f[i] = step[i][f[i - 1]]
    <3>. HIDE DEF step
    <3>. QED BY <1>4 DEF Rounds
  <2>2. i - 1 \in 0 .. n
      OBVIOUS
  <2>3. f[i - 1] \in LoadState
      BY <1>5, <2>2
  <2>. QED BY <2>1, <2>3
<1>. DEFINE Equation(g) ==
                g = [i \in 0 .. Len(bytes) |->
                        IF i = 0
                        THEN [board |-> b, written |-> 0, skipped |-> 0, min |-> 0, max |-> 0]
                        ELSE LoadByte(g[i - 1], bytes[i])]
            after == CHOOSE g : Equation(g)
<1>7. Equation(f)
  <2>1. f = [i \in 0 .. n |-> f[i]]
      BY <1>5
  <2>2. ASSUME NEW i \in 0 .. n
        PROVE  f[i] = IF i = 0 THEN start ELSE LoadByte(f[i - 1], bytes[i])
    <3>1. i # 0 => i \in 1 .. n
        OBVIOUS
    <3>. QED BY <3>1, <1>5, <1>6, Zenon
  <2>. QED BY <1>3, <2>1, <2>2 DEF Fresh
<1>8. Equation(after)
    BY <1>7
<1>9. LoadRecords(b, records) = after[n]
    BY DEF LoadRecords
<1>. HIDE DEF after
<1>10. /\ after = [i \in 0 .. n |-> after[i]]
       /\ after[0] = start
       /\ \A i \in 1 .. n : after[i] = LoadByte(after[i - 1], bytes[i])
    BY <1>3, <1>8 DEF Fresh
<1>11. ASSUME NEW i \in 0 .. n PROVE after[i] = f[i]
  <2>. DEFINE T == {j \in 0 .. n : after[j] # f[j]}
  <2>1. SUFFICES ASSUME T # {} PROVE FALSE
      OBVIOUS
  <2>2. PICK j \in T : \A k \in T : j <= k
    <3>1. T \in SUBSET Nat
        OBVIOUS
    <3>. HIDE DEF T
    <3>. QED BY <2>1, <3>1, LeastNat
  <2>3. j # 0
      BY <1>5, <1>10
  <2>4. j \in 1 .. n /\ j - 1 \in 0 .. n /\ j - 1 \notin T
      BY <2>2, <2>3
  <2>5. after[j - 1] = f[j - 1]
      BY <2>4
  <2>. QED BY <1>6, <1>10, <2>4, <2>5, SMTT(30)
<1>12. n \in 0 .. n
    OBVIOUS
<1>. QED BY <1>3, <1>5, <1>6, <1>9, <1>11, <1>12 DEF Loading

(* What a load does to the types. *)
LEMMA LoadTyped ==
    ASSUME NEW b \in Board, NEW records \in Seq(Line)
    PROVE  LoadRecords(b, records) \in LoadState
<1>1. PICK bytes \in Seq(TargetByte) : bytes = AllBytes(records)
    BY BytesTyped
<1>2. PICK n \in Nat : n = Len(bytes)
    BY <1>1
<1>3. PICK f : Loading(f, b, bytes, n) /\ LoadRecords(b, records) = f[n]
    BY <1>1, <1>2, LoaderRounds
<1>. QED BY <1>3 DEF Loading

----------------------------------------------------------------------------
LEMMA TypesInitially == MemoryInit => MemTypeOK
<1>1. ASSUME MemoryInit PROVE MemTypeOK
  <2>1. board \in Board
      BY <1>1, ContentsAssumption DEF MemoryInit, Board
  <2>2. 0 % PageSize = 0 /\ 0 + PageSize - 1 \in Addr
    <3>1. PageOf(0) = 0
        BY ContentsAssumption DEF PageOf
    <3>. QED BY <3>1, Pages, Space
  <2>. QED BY <1>1, <2>1, <2>2, Space DEF MemoryInit, MemTypeOK, Board
<1>. QED BY <1>1

LEMMA MemTypes ==
    ASSUME MemTypeOK
    PROVE  board \in Board /\ view \in Addr
BY DEF MemTypeOK, Board

LEMMA TypesKept == MemTypeOK /\ [MemoryNext]_memoryVars => MemTypeOK'
<1> SUFFICES ASSUME MemTypeOK, [MemoryNext]_memoryVars PROVE MemTypeOK'
    OBVIOUS
<1>. DEFINE Rest == UNCHANGED <<view, saved>>
<1>0. board \in Board
    BY MemTypes
<1>1. ASSUME board' \in Board, Rest PROVE MemTypeOK'
    BY <1>1 DEF MemTypeOK, Board
<1>2. ASSUME NEW a \in Addr, ProgramFetches(a) PROVE MemTypeOK'
  <2>1. Fetched(board, a) \in Board
    <3>1. CASE RegionOf[a] \in IOWindows
      <4>1. PICK flag \in [IOWindows -> BOOLEAN] : flag = [board.flag EXCEPT ![RegionOf[a]] = FALSE]
          BY <1>0 DEF Board
      <4>2. PICK mem \in [RamAddr -> Byte], reg \in [IOWindows -> Byte],
                 old \in [IOWindows -> BOOLEAN] :
                board = [mem |-> mem, reg |-> reg, flag |-> old] /\ old = board.flag
          BY <1>0, BoardParts
      <4>3. Fetched(board, a) = [mem |-> mem, reg |-> reg, flag |-> flag]
          BY <3>1, <4>1, <4>2 DEF Fetched
      <4>. QED BY <4>3 DEF Board
    <3>2. CASE RegionOf[a] \notin IOWindows
        BY <3>2, <1>0 DEF Fetched
    <3>. QED BY <3>1, <3>2
  <2>. QED BY <1>1, <1>2, <2>1 DEF ProgramFetches, Silent
<1>3. ASSUME NEW a \in Addr, NEW v \in Byte, ProgramStores(a, v) PROVE MemTypeOK'
  <2>1. Stored(board, a, v) \in Board
      BY <1>0, StoreKeepsTypes
  <2>. QED BY <1>1, <1>3, <2>1 DEF ProgramStores, Silent
<1>4. ASSUME NEW w \in IOWindows, TimerUnderflows(w) PROVE MemTypeOK'
  <2>1. PICK flag \in [IOWindows -> BOOLEAN] : flag = [board.flag EXCEPT ![w] = TRUE]
      BY <1>0 DEF Board
  <2>2. PICK mem \in [RamAddr -> Byte], reg \in [IOWindows -> Byte],
             old \in [IOWindows -> BOOLEAN] :
            board = [mem |-> mem, reg |-> reg, flag |-> old] /\ old = board.flag
      BY <1>0, BoardParts
  <2>3. board' = [mem |-> mem, reg |-> reg, flag |-> flag]
      BY <1>4, <2>1, <2>2 DEF TimerUnderflows
  <2>4. board' \in Board
      BY <2>3 DEF Board
  <2>. QED BY <1>1, <1>4, <2>4 DEF TimerUnderflows, Silent
<1>5. CASE ShowState
  <2>1. ASSUME NEW addrs PROVE FetchedAll(board, addrs) \in Board
    <3>1. PICK flag \in [IOWindows -> BOOLEAN] :
              flag = [w \in IOWindows |-> board.flag[w] /\ \A a \in addrs : RegionOf[a] # w]
      <4>1. [w \in IOWindows |-> board.flag[w] /\ \A a \in addrs : RegionOf[a] # w]
                \in [IOWindows -> BOOLEAN]
          OBVIOUS
      <4>. QED BY <4>1
    <3>2. PICK mem \in [RamAddr -> Byte], reg \in [IOWindows -> Byte],
               old \in [IOWindows -> BOOLEAN] :
              board = [mem |-> mem, reg |-> reg, flag |-> old]
        BY <1>0, BoardParts
    <3>3. FetchedAll(board, addrs) = [mem |-> mem, reg |-> reg, flag |-> flag]
        BY <3>1, <3>2 DEF FetchedAll
    <3>. QED BY <3>3 DEF Board
  <2>2. ASSUME NEW b \in Board, NEW outcome, Message(b, outcome) PROVE MemTypeOK'
      BY <1>1, <2>2, PeekLeavesBoard DEF Message
  <2>. QED BY <1>0, <1>5, <2>1, <2>2 DEF ShowState
<1>6. ASSUME NEW a \in Addr, MemView(a) PROVE MemTypeOK'
    BY <1>6, Pages DEF MemView, MemTypeOK
<1>7. ASSUME NEW a \in Addr, NEW v \in Byte, MemWrite(a, v) PROVE MemTypeOK'
  <2>1. Peeked(board, {a}) \in Board
      BY <1>0, PeekLeavesBoard
  <2>2. board' \in Board
      BY <1>0, <1>7, <2>1, StoreKeepsTypes DEF MemWrite
  <2>. QED BY <1>1, <1>7, <2>2 DEF MemWrite, Answered
<1>8. ASSUME NEW file \in Files, Load(file) PROVE MemTypeOK'
  <2>1. PICK st \in LoadState : st = LoadRecords(board, Parse(file).records)
      BY <1>0, ParsedLines, LoadTyped
  <2>2. board' = st.board /\ view' \in {view, PageOf(st.min)} /\ saved' = saved
      BY <1>8, <2>1 DEF Load
  <2>3. st.board \in Board /\ st.min \in Addr
      BY DEF LoadState
  <2>. QED BY <2>2, <2>3, Pages DEF MemTypeOK, Board
<1>9. CASE SaveSnapshot
  <2>1. ASSUME NEW a \in Addr PROVE Contents(board, a) \in Byte
    <3>1. CASE RegionOf[a] \in RamRegions
      <4>1. Contents(board, a) = board.mem[a] /\ a \in RamAddr
          BY <3>1, RamIsPeeked DEF RamAddr
      <4>. QED BY <4>1, <1>0 DEF Board
    <3>2. CASE RegionOf[a] \notin RamRegions
        BY <3>2, ContentsAssumption DEF Contents
    <3>. QED BY <3>1, <3>2
  <2>2. saved' \in [Addr -> Byte]
      BY <1>9, <2>1, ContentsAssumption DEF SaveSnapshot
  <2>3. board' = board /\ view' = view
      BY <1>0, <1>9, PeekLeavesBoard DEF SaveSnapshot
  <2>. QED BY <2>2, <2>3 DEF MemTypeOK
<1>10. ASSUME NEW image \in [Addr -> Byte], Restore(image) PROVE MemTypeOK'
  <2>1. ASSUME NEW a \in RamAddr
        PROVE  (IF RegionOf[a] \in RestoredRegions THEN image[a] ELSE board.mem[a]) \in Byte
      BY <1>0 DEF Board, RamAddr
  <2>2. board' \in Board
      BY <1>0, <1>10, <2>1 DEF Restore, Board
  <2>. QED BY <1>1, <1>10, <2>2 DEF Restore, Answered
<1>11. CASE UNCHANGED memoryVars
    BY <1>0, <1>1, <1>11 DEF memoryVars
<1>12. RestoreSaved => \E image \in [Addr -> Byte] : Restore(image)
    BY DEF RestoreSaved, MemTypeOK
<1>13. \A image \in Images : image \in [Addr -> Byte]
    BY ContentsAssumption
<1>. QED BY <1>2, <1>3, <1>4, <1>5, <1>6, <1>7, <1>8, <1>9, <1>10, <1>11, <1>12, <1>13
         DEF MemoryNext, Program, Requests

(* Every cell holds a byte and the viewed page is a page of the address    *)
(* space, for every map, board and set of files and images.                *)
THEOREM MemTypesHold == MemorySpec => []MemTypeOK
BY TypesInitially, TypesKept, PTL DEF MemorySpec

(* Both on the bench where memory and browsers run side by side.           *)
THEOREM BrowserTypesHold == BenchSpec => []BrowsersTypeOK
<1>1. BenchInit => BrowsersTypeOK
    BY TypesInitially, QueuesStart DEF BenchInit, BrowsersTypeOK
<1>2. BrowsersTypeOK /\ [MemoryStep \/ FramesStep]_benchVars => BrowsersTypeOK'
  <2>. SUFFICES ASSUME BrowsersTypeOK, [MemoryStep \/ FramesStep]_benchVars
                PROVE  BrowsersTypeOK'
      OBVIOUS
  <2>1. [MemoryNext]_memoryVars /\ [Next]_broadcastVars
      BY DEF MemoryStep, FramesStep, benchVars
  <2>. QED BY <2>1, TypesKept, QueuesTyped DEF BrowsersTypeOK
<1>. QED BY <1>1, <1>2, PTL DEF BenchSpec
----------------------------------------------------------------------------
(* After k rounds of LoadRecords. *)
Counted(bytes, k) == {i \in 1 .. k : Peekable(bytes[i].addr)}

LoadInv(b, bytes, k, st) ==
    LET counted == Counted(bytes, k)
        At(a)  == {i \in counted : bytes[i].addr = a}
    IN  /\ st.board.reg = b.reg /\ st.board.flag = b.flag
        /\ \A a \in RamAddr : At(a) = {} => st.board.mem[a] = b.mem[a]
        /\ \A a \in RamAddr : \A i \in At(a) :
               (\A j \in At(a) : j <= i) => st.board.mem[a] = bytes[i].val
        /\ IsFiniteSet(counted) /\ st.written = Cardinality(counted)
        /\ st.written + st.skipped = k
        /\ counted # {} => /\ \E i \in counted : st.min = bytes[i].addr
                          /\ \E i \in counted : st.max = bytes[i].addr
        /\ \A i \in counted : st.min <= bytes[i].addr /\ bytes[i].addr <= st.max

LEMMA NothingLoaded ==
    ASSUME NEW b, NEW bytes
    PROVE  LoadInv(b, bytes, 0, Fresh(b))
<1>1. Counted(bytes, 0) = {}
    BY DEF Counted
<1>2. IsFiniteSet({}) /\ Cardinality({}) = 0
    BY FS_EmptySet
<1>3. PICK st : st = Fresh(b)
    OBVIOUS
<1>4. st.board = b /\ st.written = 0 /\ st.skipped = 0
    BY <1>3 DEF Fresh
<1>. QED BY <1>1, <1>2, <1>3, <1>4 DEF LoadInv

LEMMA OneByteLoaded ==
    ASSUME NEW b \in Board, NEW bytes \in Seq(TargetByte),
           NEW k \in Nat, k > 0, k <= Len(bytes),
           NEW st \in LoadState, LoadInv(b, bytes, k - 1, st)
    PROVE  LoadInv(b, bytes, k, LoadByte(st, bytes[k]))
<1>1. PICK a \in Addr, v \in Byte : bytes[k].addr = a /\ bytes[k].val = v
  <2>1. bytes[k] \in TargetByte
      BY ElementOfSeq
  <2>. QED BY <2>1 DEF TargetByte
<1>2. PICK p \in Nat : p = k - 1 /\ p + 1 = k
  <2>1. k - 1 \in Nat /\ k - 1 + 1 = k
      OBVIOUS
  <2>. QED BY <2>1
<1>3. PICK before : before = Counted(bytes, p)
    OBVIOUS
<1>4. \A i \in before : i \in Nat /\ i < k /\ bytes[i].addr \in Nat
  <2>1. \A i \in before : i \in 1 .. Len(bytes) /\ i < k
      BY <1>2, <1>3 DEF Counted
  <2>2. \A i \in 1 .. Len(bytes) : bytes[i] \in TargetByte
      BY ElementOfSeq
  <2>. QED BY <2>1, <2>2, Space DEF TargetByte, Addr
<1>5. PICK bd \in Board, w \in Nat, s \in Nat, lo \in Nat, hi \in Nat :
          st = [board |-> bd, written |-> w, skipped |-> s, min |-> lo, max |-> hi]
    BY Space DEF LoadState, Addr
<1>6. a \in Nat
    BY Space DEF Addr
<1>7. /\ bd.reg = b.reg /\ bd.flag = b.flag
      /\ \A c \in RamAddr : (\A i \in before : bytes[i].addr # c) => bd.mem[c] = b.mem[c]
      /\ \A c \in RamAddr : \A i \in before :
             /\ bytes[i].addr = c
             /\ \A j \in before : bytes[j].addr = c => j <= i
             => bd.mem[c] = bytes[i].val
      /\ IsFiniteSet(before) /\ w = Cardinality(before) /\ w + s = p
      /\ before # {} => /\ \E i \in before : lo = bytes[i].addr
                        /\ \E i \in before : hi = bytes[i].addr
      /\ \A i \in before : lo <= bytes[i].addr /\ bytes[i].addr <= hi
  <2>1. LoadInv(b, bytes, p, st)
      BY <1>2
  <2>2. /\ bd.reg = b.reg /\ bd.flag = b.flag
        /\ IsFiniteSet(before) /\ w = Cardinality(before) /\ w + s = p
        /\ before # {} => /\ \E i \in before : lo = bytes[i].addr
                          /\ \E i \in before : hi = bytes[i].addr
        /\ \A i \in before : lo <= bytes[i].addr /\ bytes[i].addr <= hi
      BY <2>1, <1>3, <1>5 DEF LoadInv
  <2>3. ASSUME NEW c \in RamAddr, \A i \in before : bytes[i].addr # c
        PROVE  bd.mem[c] = b.mem[c]
    <3>1. {i \in before : bytes[i].addr = c} = {}
        BY <2>3
    <3>2. st.board = bd
        BY <1>5
    <3>. QED BY <2>1, <3>1, <3>2, <1>3 DEF LoadInv
  <2>4. ASSUME NEW c \in RamAddr, NEW i \in before, bytes[i].addr = c,
               \A j \in before : bytes[j].addr = c => j <= i
        PROVE  bd.mem[c] = bytes[i].val
    <3>1. i \in {j \in before : bytes[j].addr = c}
        BY <2>4
    <3>2. \A j \in {j \in before : bytes[j].addr = c} : j <= i
        BY <2>4
    <3>3. st.board = bd
        BY <1>5
    <3>. QED BY <2>1, <3>1, <3>2, <3>3, <1>3 DEF LoadInv
  <2>. QED BY <2>2, <2>3, <2>4
<1>8. CASE ~Peekable(a)
  <2>1. Counted(bytes, k) = before
    <3>1. ASSUME NEW i \in Counted(bytes, k) PROVE i \in before
      <4>1. i \in 1 .. k /\ Peekable(bytes[i].addr)
          BY DEF Counted
      <4>2. i # k
          BY <1>1, <1>8, <4>1
      <4>3. i \in 1 .. p
          BY <1>2, <4>1, <4>2
      <4>. QED BY <1>3, <4>1, <4>3 DEF Counted
    <3>2. ASSUME NEW i \in before PROVE i \in Counted(bytes, k)
      <4>1. i \in 1 .. p /\ Peekable(bytes[i].addr)
          BY <1>3 DEF Counted
      <4>2. i \in 1 .. k
          BY <1>2, <4>1
      <4>. QED BY <4>1, <4>2 DEF Counted
    <3>. QED BY <3>1, <3>2
  <2>2. LoadByte(st, bytes[k]) =
            [board |-> bd, written |-> w, skipped |-> s + 1, min |-> lo, max |-> hi]
      BY <1>1, <1>5, <1>8 DEF LoadByte
  <2>3. w + (s + 1) = k
      BY <1>2, <1>7
  <2>. QED BY <2>1, <2>2, <2>3, <1>7, SMTT(30) DEF LoadInv
<1>9. CASE Peekable(a)
  <2>1. Counted(bytes, k) = before \cup {k}
    <3>1. ASSUME NEW i \in Counted(bytes, k), i # k PROVE i \in before
      <4>1. i \in 1 .. k /\ Peekable(bytes[i].addr)
          BY DEF Counted
      <4>2. i \in 1 .. p
          BY <1>2, <3>1, <4>1
      <4>. QED BY <1>3, <4>1, <4>2 DEF Counted
    <3>2. ASSUME NEW i \in before PROVE i \in Counted(bytes, k)
      <4>1. i \in 1 .. p /\ Peekable(bytes[i].addr)
          BY <1>3 DEF Counted
      <4>2. i \in 1 .. k
          BY <1>2, <4>1
      <4>. QED BY <4>1, <4>2 DEF Counted
    <3>3. k \in Counted(bytes, k)
        BY <1>1, <1>9 DEF Counted
    <3>. QED BY <3>1, <3>2, <3>3
  <2>2. PICK bd2 : bd2 = Stored(bd, a, v)
      OBVIOUS
  <2>3. /\ bd2.reg = b.reg /\ bd2.flag = b.flag
        /\ \A c \in RamAddr : bd2.mem[c] = IF c = a THEN v ELSE bd.mem[c]
      BY <1>7, <1>9, <2>2, StoreWherePeekable
  <2>4. PICK lo2 \in Nat, hi2 \in Nat :
            /\ lo2 = IF w = 0 \/ a < lo THEN a ELSE lo
            /\ hi2 = IF w = 0 \/ a > hi THEN a ELSE hi
      BY <1>6
  <2>5. LoadByte(st, bytes[k]) =
            [board |-> bd2, written |-> w + 1, skipped |-> s, min |-> lo2, max |-> hi2]
    <3>1. Peeked(bd, {a}) = bd
        BY PeekLeavesBoard
    <3>. QED BY <1>1, <1>5, <1>9, <2>2, <2>4, <3>1 DEF LoadByte
  <2>6. /\ k \notin before
        /\ IsFiniteSet(before \cup {k}) /\ w + 1 = Cardinality(before \cup {k})
    <3>1. k \notin before
        BY <1>4
    <3>. QED BY <3>1, <1>7, FS_AddElement
  <2>7. (w + 1) + s = k
      BY <1>2, <1>7
  <2>8. w = 0 => before = {}
      BY <1>7, FS_EmptySet
  <2>9. w # 0 => before # {}
      BY <1>7, FS_EmptySet
  <2>10. /\ \E i \in before \cup {k} : lo2 = bytes[i].addr
         /\ \E i \in before \cup {k} : hi2 = bytes[i].addr
      BY <1>1, <1>7, <2>4, <2>9
  <2>11. \A i \in before \cup {k} : lo2 <= bytes[i].addr /\ bytes[i].addr <= hi2
    <3>1. lo2 <= a /\ a <= hi2 /\ (before # {} => lo2 <= lo /\ hi <= hi2)
        BY <1>6, <2>4, <2>8
    <3>2. ASSUME NEW i \in before PROVE lo2 <= bytes[i].addr /\ bytes[i].addr <= hi2
      <4>1. PICK x \in Nat : x = bytes[i].addr
          BY <1>4
      <4>2. lo <= x /\ x <= hi
          BY <1>7, <4>1
      <4>. QED BY <3>1, <4>1, <4>2
    <3>. QED BY <1>1, <3>1, <3>2
  <2>12. ASSUME NEW c \in RamAddr, \A i \in before \cup {k} : bytes[i].addr # c
         PROVE  bd2.mem[c] = b.mem[c]
      BY <1>1, <1>7, <2>3, <2>12
  <2>13. ASSUME NEW c \in RamAddr, NEW i \in before \cup {k}, bytes[i].addr = c,
                \A j \in before \cup {k} : bytes[j].addr = c => j <= i
         PROVE  bd2.mem[c] = bytes[i].val
    <3>1. CASE c = a
      <4>1. k <= i
          BY <1>1, <2>13, <3>1
      <4>2. i = k
          BY <1>4, <4>1
      <4>. QED BY <1>1, <2>3, <3>1, <4>2
    <3>2. CASE c # a
      <4>1. i \in before
          BY <1>1, <2>13, <3>2
      <4>2. bd.mem[c] = bytes[i].val
          BY <1>7, <2>13, <4>1
      <4>. QED BY <2>3, <3>2, <4>2
    <3>. QED BY <3>1, <3>2
  <2>14. PICK st2 : /\ st2 = LoadByte(st, bytes[k])
                    /\ st2.board = bd2 /\ st2.written = w + 1 /\ st2.skipped = s
                    /\ st2.min = lo2 /\ st2.max = hi2
      BY <2>5
  <2>15. PICK counted : counted = before \cup {k}
      OBVIOUS
  <2>16. /\ \A c \in RamAddr : {n \in counted : bytes[n].addr = c} = {} => bd2.mem[c] = b.mem[c]
         /\ \A c \in RamAddr : \A i \in {n \in counted : bytes[n].addr = c} :
               (\A j \in {n \in counted : bytes[n].addr = c} : j <= i) => bd2.mem[c] = bytes[i].val
      BY <2>12, <2>13, <2>15
  <2>17. LoadInv(b, bytes, k, st2)
      BY <2>1, <2>3, <2>6, <2>7, <2>10, <2>11, <2>14, <2>15, <2>16 DEF LoadInv
  <2>. QED BY <2>14, <2>17
<1>. QED BY <1>8, <1>9

(* A load leaves what LoadInv says of all its bytes. *)
LEMMA Loaded ==
    ASSUME NEW b \in Board, NEW records \in Seq(Line),
           NEW bytes \in Seq(TargetByte), bytes = AllBytes(records)
    PROVE  LoadInv(b, bytes, Len(bytes), LoadRecords(b, records))
<1>1. PICK n \in Nat : n = Len(bytes)
    OBVIOUS
<1>2. PICK f : Loading(f, b, bytes, n) /\ LoadRecords(b, records) = f[n]
    BY <1>1, LoaderRounds
<1>. DEFINE T == {k \in 0 .. n : ~LoadInv(b, bytes, k, f[k])}
<1>3. SUFFICES ASSUME T # {} PROVE FALSE
  <2>1. n \in 0 .. n
      OBVIOUS
  <2>. QED BY <1>1, <1>2, <1>3, <2>1
<1>4. PICK k \in T : \A j \in T : k <= j
  <2>1. T \in SUBSET Nat
      OBVIOUS
  <2>. HIDE DEF T
  <2>. QED BY <1>3, <2>1, LeastNat
<1>5. k # 0
    BY <1>2, NothingLoaded DEF Loading
<1>6. k \in 1 .. n /\ k - 1 \in 0 .. n /\ k - 1 \notin T
    BY <1>4, <1>5
<1>7. f[k - 1] \in LoadState /\ LoadInv(b, bytes, k - 1, f[k - 1])
    BY <1>2, <1>6 DEF Loading
<1>8. f[k] = LoadByte(f[k - 1], bytes[k])
    BY <1>2, <1>6 DEF Loading
<1>9. LoadInv(b, bytes, k, f[k])
  <2>1. PICK st \in LoadState : st = f[k - 1] /\ LoadInv(b, bytes, k - 1, st)
      BY <1>7
  <2>2. k \in Nat /\ k > 0 /\ k <= Len(bytes)
      BY <1>1, <1>6
  <2>3. LoadInv(b, bytes, k, LoadByte(st, bytes[k]))
      BY <2>1, <2>2, OneByteLoaded
  <2>. QED BY <1>8, <2>1, <2>3
<1>. QED BY <1>4, <1>9

(* The same of a file's load, with what handleLoad answers.                *)
LEMMA FileLoaded ==
    ASSUME MemTypeOK, NEW file \in Files, Load(file)
    PROVE  \E bytes \in Seq(TargetByte), st \in LoadState :
               /\ bytes = AllBytes(Parse(file).records)
               /\ LoadInv(board, bytes, Len(bytes), st)
               /\ board' = st.board
               /\ view' = IF st.written = 0 THEN view ELSE PageOf(st.min)
               /\ \/ Parse(file).records = <<>> /\ reply'.outcome \in {"error", "panic"}
                  \/ /\ reply'.outcome = IF st.written = 0 THEN "empty" ELSE "loaded"
                     /\ reply'.written = st.written /\ reply'.skipped = st.skipped
                     /\ reply'.min = st.min /\ reply'.max = st.max
<1>0. board \in Board
    BY MemTypes
<1>1. PICK records \in Seq(Line), outcome \in {"records", "error", "panic"} :
          /\ records = Parse(file).records /\ outcome = Parse(file).outcome
          /\ outcome # "records" => records = <<>>
    BY ParsedLines
<1>2. PICK bytes \in Seq(TargetByte) : bytes = AllBytes(records)
    BY BytesTyped
<1>3. PICK st \in LoadState : st = LoadRecords(board, records) /\ LoadInv(board, bytes, Len(bytes), st)
    BY <1>0, <1>2, Loaded, LoadTyped
<1>4. board' = st.board /\ view' = IF st.written = 0 THEN view ELSE PageOf(st.min)
    BY <1>1, <1>3 DEF Load
<1>5. CASE outcome # "records"
  <2>1. reply' = Reply(outcome)
      BY <1>1, <1>5 DEF Load
  <2>2. Reply(outcome).outcome = outcome
      BY DEF Reply, NoReply
  <2>. QED BY <1>1, <1>2, <1>3, <1>4, <1>5, <2>1, <2>2
<1>6. CASE outcome = "records"
  <2>1. reply' = [outcome |-> IF st.written = 0 THEN "empty" ELSE "loaded", written |-> st.written,
                  skipped |-> st.skipped, min |-> st.min, max |-> st.max]
      BY <1>1, <1>3, <1>6 DEF Load
  <2>. QED BY <1>1, <1>2, <1>3, <1>4, <2>1
<1>. QED BY <1>5, <1>6

(* No browser request reaches a device, whatever is loaded, edited, viewed, *)
(* saved or restored, on any map and board.                                *)
THEOREM ClientsLeaveIOHolds == MemorySpec => ClientsLeaveIO
<1>. DEFINE Same == board'.reg = board.reg /\ board'.flag = board.flag
            Step == reply'.outcome \notin {"none", "disassembled"} => Same
<1>1. MemTypeOK /\ [MemoryNext]_memoryVars => [Step]_memoryVars
  <2>. SUFFICES ASSUME MemTypeOK, MemoryNext PROVE Step
      OBVIOUS
  <2>0. board \in Board
      BY MemTypes
  <2>1. CASE Program
    <3>1. reply' = NoReply
        BY <2>1 DEF Program, ProgramFetches, ProgramStores, TimerUnderflows, Silent
    <3>. QED BY <3>1 DEF NoReply
  <2>2. CASE ShowState
    <3>1. CASE Message(board, "shown")
        BY <2>0, <3>1, PeekLeavesBoard DEF Message
    <3>2. ASSUME NEW b, Message(b, "disassembled") PROVE Step
        BY <3>2 DEF Message, Reply, NoReply
    <3>. QED BY <2>2, <3>1, <3>2 DEF ShowState
  <2>3. ASSUME NEW a \in Addr, MemView(a) PROVE Same
      BY <2>3 DEF MemView
  <2>4. ASSUME NEW a \in Addr, NEW v \in Byte, MemWrite(a, v) PROVE Same
    <3>1. Peeked(board, {a}) = board
        BY <2>0, PeekLeavesBoard
    <3>. QED BY <2>0, <2>4, <3>1, StoreWherePeekable DEF MemWrite
  <2>5. ASSUME NEW file \in Files, Load(file) PROVE Same
      BY <2>5, FileLoaded DEF LoadInv
  <2>6. CASE SaveSnapshot
      BY <2>0, <2>6, PeekLeavesBoard DEF SaveSnapshot
  <2>7. ASSUME NEW image, Restore(image) PROVE Same
      BY <2>7 DEF Restore
  <2>. QED BY <2>1, <2>2, <2>3, <2>4, <2>5, <2>6, <2>7 DEF MemoryNext, Requests, RestoreSaved
<1>. QED BY <1>1, TypesInitially, TypesKept, PTL DEF MemorySpec, ClientsLeaveIO

(* A file is loaded whole or not at all: for any lines, map and board, of  *)
(* the bytes aimed at a RAM cell the last stays, no other cell changes,    *)
(* and the answer counts, besides the bytes that landed, those aimed at    *)
(* the ROMs and the vectors, which System.Write drops.                     *)
THEOREM LoadExactHolds == MemorySpec => LoadExact
<1>. DEFINE Refused == reply'.outcome \in {"error", "panic", "empty"} => UNCHANGED <<board, view>>
            Taken == reply'.outcome = "loaded" =>
                         \A file \in Files : Load(file) => LoadedAsAimed(file)
<1>1. ASSUME MemTypeOK, NEW bytes \in Seq(TargetByte), NEW st \in LoadState,
             LoadInv(board, bytes, Len(bytes), st), board' = st.board, st.written = 0
      PROVE  board' = board
  <2>1. Counted(bytes, Len(bytes)) = {}
    <3>1. PICK counted : counted = Counted(bytes, Len(bytes))
        OBVIOUS
    <3>2. IsFiniteSet(counted) /\ Cardinality(counted) = 0
        BY <1>1, <3>1 DEF LoadInv
    <3>. QED BY <3>1, <3>2, FS_EmptySet
  <2>2. /\ st.board.reg = board.reg /\ st.board.flag = board.flag
        /\ \A a \in RamAddr : st.board.mem[a] = board.mem[a]
      BY <1>1, <2>1 DEF LoadInv
  <2>3. board \in Board /\ st.board \in Board
      BY <1>1, MemTypes DEF LoadState
  <2>4. PICK mem \in [RamAddr -> Byte], mem2 \in [RamAddr -> Byte] :
            mem = board.mem /\ mem2 = st.board.mem
      BY <2>3, BoardParts
  <2>5. mem = mem2
      BY <2>2, <2>4
  <2>. QED BY <1>1, <2>2, <2>3, <2>4, <2>5, BoardParts
<1>2. ASSUME MemTypeOK, MemoryNext PROVE Refused
  <2>1. CASE \E file \in Files : Load(file)
    <3>1. PICK file \in Files : Load(file)
        BY <2>1
    <3>2. PICK bytes \in Seq(TargetByte), st \in LoadState :
               /\ bytes = AllBytes(Parse(file).records)
               /\ LoadInv(board, bytes, Len(bytes), st)
               /\ board' = st.board
               /\ view' = IF st.written = 0 THEN view ELSE PageOf(st.min)
               /\ \/ Parse(file).records = <<>> /\ reply'.outcome \in {"error", "panic"}
                  \/ reply'.outcome = IF st.written = 0 THEN "empty" ELSE "loaded"
        BY <1>2, <3>1, FileLoaded
    <3>3. st.written = 0 => board' = board /\ view' = view
        BY <1>1, <1>2, <3>2
    <3>4. Parse(file).records = <<>> => st.written = 0
      <4>1. SUFFICES ASSUME Parse(file).records = <<>> PROVE st.written = 0
          OBVIOUS
      <4>2. bytes = <<>>
          BY <3>2, <4>1, EmptySeq, BytesTyped
      <4>3. Counted(bytes, Len(bytes)) = {}
          BY <4>2 DEF Counted
      <4>. QED BY <3>2, <4>3, FS_EmptySet DEF LoadInv
    <3>. QED BY <3>2, <3>3, <3>4
  <2>2. CASE ~\E file \in Files : Load(file)
    <3>1. Program => reply' = NoReply
        BY DEF Program, ProgramFetches, ProgramStores, TimerUnderflows, Silent
    <3>2. ShowState => reply' \in {Reply("shown"), Reply("disassembled")}
        BY DEF ShowState, Message
    <3>3. Requests => reply' = Reply("done")
        BY <2>2 DEF Requests, MemView, MemWrite, SaveSnapshot, RestoreSaved, Restore, Answered
    <3>4. Reply("shown").outcome = "shown" /\ Reply("disassembled").outcome = "disassembled"
          /\ Reply("done").outcome = "done" /\ NoReply.outcome = "none"
        BY DEF Reply, NoReply
    <3>. QED BY <1>2, <3>1, <3>2, <3>3, <3>4 DEF MemoryNext
  <2>. QED BY <2>1, <2>2
<1>3. ASSUME MemTypeOK, reply'.outcome = "loaded", NEW file \in Files, Load(file)
      PROVE  LoadedAsAimed(file)
  <2>1. PICK bytes \in Seq(TargetByte), st \in LoadState :
               /\ bytes = AllBytes(Parse(file).records)
               /\ LoadInv(board, bytes, Len(bytes), st)
               /\ board' = st.board
               /\ view' = IF st.written = 0 THEN view ELSE PageOf(st.min)
               /\ st.written # 0
               /\ reply'.written = st.written /\ reply'.skipped = st.skipped
               /\ reply'.min = st.min /\ reply'.max = st.max
      BY <1>3, FileLoaded
  <2>2. PICK counted : counted = Counted(bytes, Len(bytes))
      OBVIOUS
  <2>0. PICK n \in Nat : n = Len(bytes)
      OBVIOUS
  <2>3. counted = {i \in DOMAIN bytes : Peekable(bytes[i].addr)} /\ counted \in SUBSET Nat
      BY <2>2 DEF Counted
  <2>. DEFINE At(a) == {i \in counted : bytes[i].addr = a}
              LastAt(a) == CHOOSE i \in At(a) : \A j \in At(a) : j <= i
  <2>4. /\ \A a \in RamAddr : At(a) = {} => board'.mem[a] = board.mem[a]
        /\ \A a \in RamAddr : \A i \in At(a) :
               (\A j \in At(a) : j <= i) => board'.mem[a] = bytes[i].val
        /\ IsFiniteSet(counted) /\ st.written = Cardinality(counted)
        /\ st.written + st.skipped = Len(bytes)
        /\ counted # {} => /\ \E i \in counted : st.min = bytes[i].addr
                          /\ \E i \in counted : st.max = bytes[i].addr
        /\ \A i \in counted : st.min <= bytes[i].addr /\ bytes[i].addr <= st.max
      BY <2>1, <2>2 DEF LoadInv
  <2>5. counted # {}
      BY <2>1, <2>4, FS_EmptySet
  <2>6. ASSUME NEW a \in RamAddr, At(a) # {}
        PROVE  board'.mem[a] = bytes[LastAt(a)].val
    <3>1. \E i \in At(a) : \A j \in At(a) : j <= i
      <4>1. At(a) \in SUBSET (0 .. n)
          BY <2>0, <2>2 DEF Counted
      <4>. HIDE DEF At
      <4>. QED BY <2>6, <4>1, GreatestNat
    <3>2. LastAt(a) \in At(a) /\ \A j \in At(a) : j <= LastAt(a)
      <4>. HIDE DEF At
      <4>. QED BY <3>1
    <3>. HIDE DEF LastAt, At
    <3>. QED BY <2>4, <3>2
  <2>7. /\ reply'.min - view' \in 0 .. PageSize - 1
    <3>1. st.min \in Addr /\ view' = PageOf(st.min)
        BY <2>1 DEF LoadState
    <3>. QED BY <2>1, <3>1, Pages
  <2>8. {reply'.min, reply'.max} \subseteq {bytes[i].addr : i \in counted}
      BY <2>1, <2>4, <2>5
  <2>9. \A a \in {bytes[i].addr : i \in counted} : reply'.min <= a /\ a <= reply'.max
      BY <2>1, <2>4
  <2>10. \A a \in RamAddr :
             board'.mem[a] = IF At(a) = {} THEN board.mem[a] ELSE bytes[LastAt(a)].val
    <3>. HIDE DEF LastAt, At
    <3>. QED BY <2>4, <2>6
  <2>. DEFINE AimedAt(regions) == {i \in DOMAIN bytes : RegionOf[bytes[i].addr] \in regions}
              landed == AimedAt(RamRegions)
              dropped == AimedAt(ReadOnlyRegions)
  <2>11. counted = landed \cup dropped /\ landed \cap dropped = {}
      BY <2>3 DEF Peekable, RamRegions, ExpansionRegions, ReadOnlyRegions
  <2>12. Cardinality(counted) = Cardinality(landed) + Cardinality(dropped)
    <3>. HIDE DEF landed, dropped
    <3>1. IsFiniteSet(landed) /\ IsFiniteSet(dropped)
        BY <2>4, <2>11, FS_Subset
    <3>2. /\ Cardinality(landed \cup dropped) =
                 Cardinality(landed) + Cardinality(dropped) - Cardinality(landed \cap dropped)
          /\ Cardinality(landed) \in Nat /\ Cardinality(dropped) \in Nat
        BY <3>1, FS_Union, FS_CardinalityType
    <3>3. /\ Cardinality(landed \cap dropped) = 0
          /\ Cardinality(counted) = Cardinality(landed \cup dropped)
      <4>. HIDE DEF dropped
      <4>. QED BY <2>11, FS_EmptySet, Zenon
    <3>. QED BY <3>2, <3>3
  <2>13. \A a \in RamAddr : At(a) = {i \in landed : bytes[i].addr = a}
      BY <2>3 DEF RamAddr, Peekable, RamRegions, ExpansionRegions
  <2>. DEFINE LandedAt(a) == {i \in landed : bytes[i].addr = a}
              LastLandedAt(a) == CHOOSE i \in LandedAt(a) : \A j \in LandedAt(a) : j <= i
  <2>14. ASSUME NEW a \in RamAddr
         PROVE  board'.mem[a] = IF LandedAt(a) = {} THEN board.mem[a]
                                ELSE bytes[LastLandedAt(a)].val
    <3>1. LandedAt(a) = At(a)
        BY <2>13
    <3>. HIDE DEF At, LandedAt
    <3>2. LastLandedAt(a) = LastAt(a)
        BY <3>1
    <3>. HIDE DEF LastAt, LastLandedAt
    <3>. QED BY <2>10, <3>1, <3>2
  <2>15. AsAimed(bytes, landed, dropped)
    <3>1. \A a \in RamAddr : board'.mem[a] = IF LandedAt(a) = {} THEN board.mem[a]
                                             ELSE bytes[LastLandedAt(a)].val
        BY <2>14
    <3>2. reply'.written = Cardinality(landed) + Cardinality(dropped)
        BY <2>1, <2>4, <2>12
    <3>3. reply'.written + reply'.skipped = Len(bytes)
        BY <2>1, <2>4
    <3>. HIDE DEF landed, dropped
    <3>. QED BY <2>7, <2>8, <2>9, <2>11, <3>1, <3>2, <3>3 DEF AsAimed
  <2>. QED BY <2>1, <2>15 DEF LoadedAsAimed
<1>4. MemTypeOK /\ [MemoryNext]_memoryVars => [Refused /\ Taken]_memoryVars
  <2>. HIDE DEF Refused
  <2>. QED BY <1>2, <1>3
<1>. QED BY <1>4, TypesInitially, TypesKept, PTL DEF MemorySpec, LoadExact
=============================================================================
