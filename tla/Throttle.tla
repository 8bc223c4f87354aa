------------------------------ MODULE Throttle ------------------------------
(***************************************************************************)
(* internal/webui/server.go: how RunCPU paces the CPU.  A batch of         *)
(* instructions is run as fast as the host can, and then RunCPU sleeps     *)
(* until the time at which the KIM-1 would have executed what has been     *)
(* executed since the start; while halted it looks again every 50 ms.      *)
(*                                                                         *)
(* Time is counted in cycles at TargetHz since the start.                  *)
(***************************************************************************)
EXTENDS Integers

CONSTANTS
    BatchCycles,    \* batch (100)
    LongestStep,    \* cycles of the longest System.Step (7)
    HaltSleep,      \* 50 ms
    Costs,          \* time a batch may take on the host, waiting for mu and for
                    \* the host's own scheduling included
    MaxLate,        \* how late the host may wake a sleeper
    Horizon         \* bound: a batch starts before this time

ASSUME ThrottleAssumption ==
    /\ {BatchCycles, LongestStep, HaltSleep} \subseteq Nat \ {0}
    /\ Costs \subseteq Nat
    /\ MaxLate \in Nat
    /\ Horizon \in Nat

VARIABLES
    now,        \* time.Since(start)
    executed,   \* RunCPU's local
    wake,       \* when its sleep ends; now, if it does not sleep
    halted      \* Server.halted

(* History variables. *)
VARIABLES
    owing,      \* a halt cost time that has not been made up yet
    lost,       \* time by which batches took longer than what they executed,
                \* since the machine last was where it should be
    runningSince,   \* when the machine last started to run, by RS or at first
    executedBefore  \* what it had executed by then

throttleVars == <<now, executed, wake, halted, owing, lost,
                 runningSince, executedBefore>>

----------------------------------------------------------------------------
(* Faulty variant: each sleep makes up for its own batch. *)
DueOfBatch(start, cost, spent) == start + spent - cost

(* targetElapsed, for a batch of spent cycles that has taken cost and ends *)
(* at start: when all the cycles executed so far are due.                  *)
Due(start, cost, spent) == executed + spent

Excess(cost, spent) == IF cost > spent THEN cost - spent ELSE 0

(* RunCPU behind such a batch. *)
Pace(start, cost, spent) ==
    LET due == Due(start, cost, spent)
    IN  /\ now' = start
        /\ executed' = executed + spent
        /\ wake' = IF due > start THEN due ELSE start
        /\ owing' = (owing /\ executed' < start)
        /\ lost' = IF executed' < start THEN lost + Excess(cost, spent) ELSE 0

(* stepBatch goes past its argument by less than one step. *)
RunBatch(spent, cost) ==
    /\ wake = now
    /\ now < Horizon
    /\ ~halted
    /\ Pace(now + cost, cost, spent)
    /\ UNCHANGED <<halted, runningSince, executedBefore>>

(* A panic ends the batch early; what it executed counts, unless nothing.  *)
BatchPanics(spent, cost) ==
    /\ wake = now
    /\ now < Horizon
    /\ ~halted
    /\ halted' = TRUE
    /\ IF spent > 0 THEN Pace(now + cost, cost, spent)
       ELSE /\ now' = now + cost
            /\ wake' = now' + HaltSleep
            /\ UNCHANGED <<executed, owing, lost>>
    /\ UNCHANGED <<runningSince, executedBefore>>

(* stepBatch returns 0. *)
FindHalted(cost) ==
    /\ wake = now
    /\ now < Horizon
    /\ halted
    /\ now' = now + cost
    /\ wake' = now' + HaltSleep
    /\ UNCHANGED <<executed, halted, owing, lost, runningSince, executedBefore>>

WakeUp(late) ==
    /\ wake > now
    /\ now' = wake + late
    /\ wake' = now'
    /\ owing' = (owing \/ halted)
    /\ UNCHANGED <<executed, halted, lost, runningSince, executedBefore>>

(* RS, at some time of the sleep. *)
ResetAt(t) ==
    /\ t \in now .. wake
    /\ halted
    /\ halted' = FALSE
    /\ now' = t
    /\ owing' = TRUE
    /\ runningSince' = t
    /\ executedBefore' = executed
    /\ UNCHANGED <<executed, wake, lost>>

(* The context is done: RunCPU returns and the process ends.  It is        *)
(* started again.                                                          *)
ContextDone ==
    /\ wake = now
    /\ now' = 0
    /\ executed' = 0
    /\ wake' = 0
    /\ halted' = FALSE
    /\ owing' = FALSE
    /\ lost' = 0
    /\ runningSince' = 0
    /\ executedBefore' = 0

ThrottleInit ==
    /\ now = 0
    /\ executed = 0
    /\ wake = 0
    /\ halted = FALSE
    /\ owing = FALSE
    /\ lost = 0
    /\ runningSince = 0
    /\ executedBefore = 0

ThrottleNext ==
    \/ \E cost \in Costs :
          \/ \E spent \in BatchCycles .. BatchCycles + LongestStep - 1 : RunBatch(spent, cost)
          \/ \E spent \in 0 .. BatchCycles - 1 : BatchPanics(spent, cost)
          \/ FindHalted(cost)
    \/ ContextDone
    \/ \E late \in 0 .. MaxLate : WakeUp(late)
    \/ \E t \in now .. wake : ResetAt(t)

ThrottleSpec == ThrottleInit /\ [][ThrottleNext]_throttleVars

----------------------------------------------------------------------------
(* Types. *)
ThrottleTypeOK ==
    /\ now \in Nat /\ executed \in Nat /\ wake \in Nat
    /\ lost \in Nat /\ runningSince \in Nat /\ executedBefore \in Nat
    /\ halted \in BOOLEAN /\ owing \in BOOLEAN

Overshoot == BatchCycles + LongestStep - 1

(* The KIM-1 is never ahead of a real one by more than the batch at hand.  *)
(* Behind it can be by a single late wake-up, and by what batches cost     *)
(* beyond the cycles they executed since the last time it had caught up.   *)
(* Nothing else adds up: not the lateness of the sleeps, nor the cycles by *)
(* which batches go past their size, nor what a panic cut off -- except    *)
(* that a halt is made up for afterwards.                                  *)
KeepsPace ==
    /\ executed <= now + Overshoot
    /\ wake = now => executed <= now
    /\ ~owing /\ ~halted => now - executed <= MaxLate + lost

(* What RunCPU's comment says: since it last started to run, the machine   *)
(* has executed about what a KIM-1 would have.                             *)
Throttled == ~halted => executed - executedBefore <= now - runningSince + 2 * Overshoot
=============================================================================
