------------------------------ MODULE MCBrowsers ------------------------------
(***************************************************************************)
(* Two benches for what browsers ask of the server and what they are sent. *)
(* On one, "memory", they load files, edit and view the memory of a        *)
(* running program.  On the other, "frames", two of them are sent state    *)
(* messages through channels of two; one may stop taking data.             *)
(***************************************************************************)
EXTENDS MCMemory, Broadcast

VARIABLE bench

benchVars == <<memoryVars, broadcastVars, bench>>

BenchInit ==
    /\ bench \in {"memory", "frames"}
    /\ MemoryInit
    /\ Init

MemoryStep == bench = "memory" /\ MemoryNext /\ UNCHANGED <<broadcastVars, bench>>
FramesStep == bench = "frames" /\ Next /\ UNCHANGED <<memoryVars, bench>>

(* Broadcast's own fairness applies on its bench, to the same actions.     *)
OfFrames(A) == bench = "frames" /\ A /\ UNCHANGED <<memoryVars, bench>>

BenchSpec ==
    /\ BenchInit
    /\ [][MemoryStep \/ FramesStep]_benchVars
    /\ WF_benchVars(OfFrames(BroadcastState))
    /\ \A c \in Clients : WF_benchVars(OfFrames(CloseChannel(c)))
    /\ \A c \in Clients \ Stuck : WF_benchVars(OfFrames(Write(c)))

(* Types of both benches (system.go's memory as browsers see it, ws.go's   *)
(* clients and their channels).                                            *)
BrowsersTypeOK == MemTypeOK /\ TypeOK
=============================================================================
