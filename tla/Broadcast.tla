----------------------------- MODULE Broadcast -----------------------------
(***************************************************************************)
(* internal/webui: how the machine's state reaches the browsers.  One      *)
(* goroutine samples the machine under Server.mu and hands the sample to   *)
(* every registered client's bounded channel under Server.clientsMu; each  *)
(* connection has a handler goroutine, which registers and unregisters the *)
(* client, and a writer goroutine, which empties the channel.              *)
(*                                                                         *)
(* The machine is reduced to a version that grows whenever anything a      *)
(* state message carries changes.  It is sampled under mu in one step.     *)
(***************************************************************************)
EXTENDS Naturals, Sequences

CONSTANTS
    Clients,        \* connection slots; one browser connection at a time each
    Stuck,          \* clients whose network need not take data
    QueueCap,       \* capacity of client.send (4)
    MaxVersion      \* bound: changes of the machine

ASSUME BroadcastAssumption ==
    /\ Stuck \subseteq Clients
    /\ QueueCap \in Nat \ {0}
    /\ MaxVersion \in Nat \ {0}

VARIABLES
    version,        \* the machine's state
    clientsMu,      \* "free", or "broadcast" while broadcastState holds it
    clients,        \* Server.clients
    queue,          \* per client: the contents of its send channel
    closed,         \* per client: whether its channel is closed
    handler,        \* per client: where its handleWS goroutine is
    writer,         \* per client: whether its writeLoop goroutine runs
    phase,          \* where broadcastState is: idle, sampled, sending
    msg,            \* the state message it built
    todo,           \* clients the range loop has still to visit
    shown           \* per client: the version its browser shows last

conns == <<clients, queue, closed, handler, writer, shown>>
broadcaster == <<clientsMu, phase, msg, todo>>
broadcastVars == <<version, conns, broadcaster>>

Init ==
    /\ version = 1
    /\ clientsMu = "free"
    /\ clients = {}
    /\ queue = [c \in Clients |-> <<>>]
    /\ closed = [c \in Clients |-> FALSE]
    /\ handler = [c \in Clients |-> "none"]
    /\ writer = [c \in Clients |-> "none"]
    /\ phase = "idle"
    /\ msg = 0
    /\ todo = {}
    /\ shown = [c \in Clients |-> 0]

(* The CPU ran, or a message from some browser changed the machine. *)
MachineChanges ==
    /\ version < MaxVersion
    /\ version' = version + 1
    /\ UNCHANGED <<conns, broadcaster>>

----------------------------------------------------------------------------
(* BroadcastLoop: the ticker fires and broadcastState runs. *)
Sample ==
    /\ phase = "idle"
    /\ phase' = "sampled"
    /\ msg' = version
    /\ UNCHANGED <<version, conns, clientsMu, todo>>

LockClients ==
    /\ phase = "sampled"
    /\ clientsMu = "free"
    /\ clientsMu' = "broadcast"
    /\ phase' = "sending"
    /\ todo' = clients
    /\ UNCHANGED <<version, conns, msg>>

(* Faulty variants: the send does not look at the capacity; it waits for a *)
(* full channel.                                                           *)
OfferUnbounded(c) ==
    /\ phase = "sending"
    /\ c \in todo
    /\ ~closed[c]
    /\ queue' = [queue EXCEPT ![c] = Append(@, msg)]
    /\ todo' = todo \ {c}
    /\ UNCHANGED <<version, clientsMu, phase, msg,
                   clients, closed, handler, writer, shown>>

OfferWaiting(c) == Len(queue[c]) < QueueCap /\ OfferUnbounded(c)

(* The select: a full channel drops this message.  (Sending on a closed    *)
(* channel would end the process; see NoSendOnClosed.)                     *)
Offer(c) ==
    /\ phase = "sending"
    /\ c \in todo
    /\ ~closed[c]
    /\ queue' = IF Len(queue[c]) < QueueCap
                THEN [queue EXCEPT ![c] = Append(@, msg)] ELSE queue
    /\ todo' = todo \ {c}
    /\ UNCHANGED <<version, clientsMu, phase, msg,
                   clients, closed, handler, writer, shown>>

UnlockClients ==
    /\ phase = "sending"
    /\ todo = {}
    /\ clientsMu' = "free"
    /\ phase' = "idle"
    /\ UNCHANGED <<version, conns, msg, todo>>

----------------------------------------------------------------------------
(* handleWS: a new client object, registered; then its writer is started.  *)
Connect(c) ==
    /\ handler[c] \in {"none", "gone"}
    /\ writer[c] # "running"
    /\ clientsMu = "free"
    /\ clients' = clients \cup {c}
    /\ queue' = [queue EXCEPT ![c] = <<>>]
    /\ closed' = [closed EXCEPT ![c] = FALSE]
    /\ handler' = [handler EXCEPT ![c] = "open"]
    /\ writer' = [writer EXCEPT ![c] = "running"]
    /\ shown' = [shown EXCEPT ![c] = 0]
    /\ UNCHANGED <<version, broadcaster>>

(* Faulty variant: the client list is changed without its lock. *)
UnlistUnlocked(c) ==
    /\ handler[c] = "open"
    /\ clients' = clients \ {c}
    /\ handler' = [handler EXCEPT ![c] = "unlisted"]
    /\ UNCHANGED <<version, broadcaster, queue, closed, writer, shown>>

(* Reading from the browser failed; the deferred unregisterClient takes    *)
(* the client off the list under clientsMu ...                             *)
Unlist(c) ==
    /\ handler[c] = "open"
    /\ clientsMu = "free"
    /\ clients' = clients \ {c}
    /\ handler' = [handler EXCEPT ![c] = "unlisted"]
    /\ UNCHANGED <<version, broadcaster, queue, closed, writer, shown>>

(* ... and closes the channel after releasing it. *)
CloseChannel(c) ==
    /\ handler[c] = "unlisted"
    /\ closed' = [closed EXCEPT ![c] = TRUE]
    /\ handler' = [handler EXCEPT ![c] = "gone"]
    /\ UNCHANGED <<version, broadcaster, clients, queue, writer, shown>>

----------------------------------------------------------------------------
(* Faulty variant: the newest message goes first. *)
WriteNewest(c) ==
    /\ writer[c] = "running"
    /\ queue[c] # <<>>
    /\ queue' = [queue EXCEPT ![c] = SubSeq(@, 1, Len(@) - 1)]
    /\ shown' = [shown EXCEPT ![c] = queue[c][Len(queue[c])]]
    /\ UNCHANGED <<version, broadcaster, clients, closed, handler, writer>>

(* writeLoop: the oldest message goes to the browser. *)
Write(c) ==
    /\ writer[c] = "running"
    /\ queue[c] # <<>>
    /\ queue' = [queue EXCEPT ![c] = Tail(@)]
    /\ shown' = [shown EXCEPT ![c] = Head(queue[c])]
    /\ UNCHANGED <<version, broadcaster, clients, closed, handler, writer>>

(* It ends when the channel is closed and empty, when the request's        *)
(* context is cancelled behind the handler, or when a write fails.         *)
WriterEnds(c) ==
    /\ writer[c] = "running"
    /\ writer' = [writer EXCEPT ![c] = "ended"]
    /\ UNCHANGED <<version, broadcaster, clients, queue, closed, handler, shown>>

BroadcastState == Sample \/ LockClients \/ (\E c \in Clients : Offer(c)) \/ UnlockClients

Next ==
    \/ MachineChanges
    \/ BroadcastState
    \/ \E c \in Clients : \/ Connect(c) \/ Unlist(c) \/ CloseChannel(c)
                          \/ Write(c) \/ WriterEnds(c)

(* The ticker keeps firing and the broadcaster's goroutine is scheduled; a *)
(* closing handler finishes; writers make progress except towards browsers *)
(* whose network does not.  A browser need not connect or leave.           *)
Fairness ==
    /\ WF_broadcastVars(BroadcastState)
    /\ \A c \in Clients : WF_broadcastVars(CloseChannel(c))
    /\ \A c \in Clients \ Stuck : WF_broadcastVars(Write(c))

Spec == Init /\ [][Next]_broadcastVars /\ Fairness

----------------------------------------------------------------------------
(* Types, and the capacity of the channels. *)
TypeOK ==
    /\ version \in 1 .. MaxVersion
    /\ clientsMu \in {"free", "broadcast"}
    /\ clients \subseteq Clients
    /\ queue \in [Clients -> Seq(0 .. MaxVersion)]
    /\ \A c \in Clients : Len(queue[c]) <= QueueCap
    /\ closed \in [Clients -> BOOLEAN]
    /\ handler \in [Clients -> {"none", "open", "unlisted", "gone"}]
    /\ writer \in [Clients -> {"none", "running", "ended"}]
    /\ phase \in {"idle", "sampled", "sending"}
    /\ msg \in 0 .. MaxVersion
    /\ todo \subseteq Clients
    /\ shown \in [Clients -> 0 .. MaxVersion]

(* The broadcaster never sends on a closed channel, which would end the    *)
(* whole process: although unregisterClient closes the channel outside the *)
(* lock, a client the range loop has yet to visit still has it open.       *)
NoSendOnClosed == \A c \in todo : ~closed[c]

(* A browser never shows an older state after a newer one: what it shows   *)
(* is no newer than what waits in its channel, that is in order, and none  *)
(* of it is newer than the sample at hand or the machine itself -- through *)
(* full channels, samples taken while others are delivered, and the reuse  *)
(* of a slot by the next connection.                                       *)
InOrder ==
    /\ msg <= version
    /\ \A c \in Clients :
          /\ shown[c] <= msg
          /\ \A i \in DOMAIN queue[c] : shown[c] <= queue[c][i] /\ queue[c][i] <= msg
          /\ \A i, j \in DOMAIN queue[c] : i <= j => queue[c][i] <= queue[c][j]

(* Once the machine rests, every browser that stays connected comes to     *)
(* show its latest state -- though full channels drop the newest messages, *)
(* and though other browsers take no data at all, come, and go.            *)
CatchesUp ==
    \A c \in Clients \ Stuck :
        handler[c] = "open" ~>
            shown[c] = version \/ handler[c] # "open" \/ writer[c] # "running"
=============================================================================
