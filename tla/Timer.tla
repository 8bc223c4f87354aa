------------------------------- MODULE Timer -------------------------------
(***************************************************************************)
(* internal/riot/timer.go: the RIOT's interval timer, as System.Step       *)
(* drives it.  An instruction may write or read a timer register; then, in *)
(* the same Step, the timer is ticked by all the cycles the instruction    *)
(* took.                                                                   *)
(***************************************************************************)
EXTENDS Integers

CONSTANTS
    MaxValue,       \* largest count (255)
    Dividers,       \* the prescale settings (1, 8, 64, 1024)
    StepCycles,     \* cycles one Step may take
    Horizon         \* bound: cycles observed after one write

ASSUME TimerAssumption ==
    /\ MaxValue \in Nat \ {0}
    /\ Dividers \subseteq Nat \ {0}
    /\ StepCycles \subseteq Nat \ {0}
    /\ Horizon \in Nat

VARIABLE timer  \* the Timer struct; irqEnabled, always false, is left out

(* History variables. *)
VARIABLES
    start,      \* the divider and value of the last write; divider 0: none
    elapsed,    \* cycles ticked since that write
    readAt      \* what elapsed was when the timer was last read

timerVars == <<timer, start, elapsed, readAt>>

TimerState == [value : 0 .. MaxValue, prescale : Nat, divider : Dividers \cup {0},
               underflowed : BOOLEAN]

----------------------------------------------------------------------------
(* Faulty variant: a timer that was never written is not provided for. *)
ReloadAsIs(t) == t.divider

(* A timer that was never written has divider 0 and free-runs. *)
Reload(t) == IF t.divider = 0 THEN 1 ELSE t.divider

(* Faulty variant: each count but the first takes a single cycle. *)
CountDownByOne(t) ==
    IF t.value = 0
    THEN [t EXCEPT !.underflowed = TRUE, !.value = MaxValue, !.prescale = 1]
    ELSE [t EXCEPT !.value = @ - 1, !.prescale = 1]

(* The prescaler of t has reached zero: one count. *)
CountDown(t) ==
    IF t.value = 0
    THEN [t EXCEPT !.underflowed = TRUE, !.value = MaxValue, !.prescale = 1]
    ELSE [t EXCEPT !.value = @ - 1, !.prescale = Reload(t)]

(* A round of Tick's loop consumes what is left of the prescaler or of the *)
(* cycles; with the prescaler at zero it consumes nothing and counts.      *)
TickState == [timer : TimerState, remaining : Nat]

Round(tick) ==
    LET t    == tick.timer
        step == IF t.prescale < tick.remaining THEN t.prescale ELSE tick.remaining
        left == [t EXCEPT !.prescale = @ - step]
    IN  [timer |-> IF left.prescale = 0 THEN CountDown(left) ELSE left,
         remaining |-> tick.remaining - step]

TickLoop[tick \in TickState] ==
    IF tick.remaining = 0 THEN tick.timer ELSE TickLoop[Round(tick)]

Ticked(t, n) == TickLoop[[timer |-> t, remaining |-> n]]

Written(d, v) ==
    [value |-> v, prescale |-> d, divider |-> d, underflowed |-> FALSE]

(* Faulty variant: reading leaves the flag as it is. *)
AfterReadUntouched(t) == t

(* ReadValue's side effect; its result is t.value. *)
AfterRead(t) == [t EXCEPT !.underflowed = FALSE]

----------------------------------------------------------------------------
TimerInit ==
    /\ timer = [value |-> 0, prescale |-> 0, divider |-> 0, underflowed |-> FALSE]
    /\ start = [divider |-> 0, value |-> 0]
    /\ elapsed = 0
    /\ readAt = 0

(* Instructions that leave the timer alone, write it, and read it. *)
StepTicks(n) ==
    /\ elapsed + n <= Horizon
    /\ timer' = Ticked(timer, n)
    /\ elapsed' = elapsed + n
    /\ UNCHANGED <<start, readAt>>

StepWrites(d, v, n) ==
    /\ timer' = Ticked(Written(d, v), n)
    /\ start' = [divider |-> d, value |-> v]
    /\ elapsed' = n
    /\ readAt' = 0

StepReads(n) ==
    /\ elapsed + n <= Horizon
    /\ timer' = Ticked(AfterRead(timer), n)
    /\ elapsed' = elapsed + n
    /\ readAt' = elapsed
    /\ UNCHANGED start

TimerNext ==
    \E n \in StepCycles :
        \/ StepTicks(n)
        \/ \E d \in Dividers, v \in 0 .. MaxValue : StepWrites(d, v, n)
        \/ StepReads(n)

TimerSpec == TimerInit /\ [][TimerNext]_timerVars

----------------------------------------------------------------------------
(* Types; after the first step the prescaler is never left exhausted, so   *)
(* the count changes within one divider of cycles -- never written or not. *)
TimerTypeOK ==
    /\ timer \in TimerState
    /\ elapsed > 0 => timer.prescale \in 1 .. Reload(timer)

(* Cycle numbers, counted from the write, at which the counter underflows: *)
(* the k-th wrap is a whole count of the divider after the one before,     *)
(* except that the first count after each wrap takes a single cycle.       *)
Underflow(k) ==
    (start.value + 1) * start.divider + k * (1 + MaxValue * start.divider)

IsWritten == start.divider # 0

(* The countdown does not depend on how the cycles were cut into           *)
(* instructions, neither before nor after the first underflow: the count   *)
(* tells, to the cycle, how many whole counts of the divider are left      *)
(* before the next one.                                                    *)
CountsExactly ==
    IsWritten =>
        \E k \in 0 .. elapsed :
            LET left == Underflow(k) - elapsed
            IN  /\ k > 0 => Underflow(k - 1) <= elapsed
                /\ left > 0
                /\ timer.value = (left - 1) \div start.divider
                /\ timer.prescale = 1 + ((left - 1) % start.divider)

(* The flag register shows an underflow exactly if one has happened since  *)
(* the count was last written or read, however many wraps there were and   *)
(* wherever inside an instruction they fell: none is lost, none is seen    *)
(* twice.                                                                  *)
FlagExact ==
    IsWritten =>
        (timer.underflowed <=>
            \E k \in 0 .. elapsed : readAt < Underflow(k) /\ Underflow(k) <= elapsed)

(* What the type's comment says of the time after the first underflow:     *)
(* the count wraps to its maximum and goes on at one per cycle.            *)
FreeRunsByOne ==
    IsWritten /\ elapsed >= Underflow(0) =>
        timer.value = (MaxValue - (elapsed - Underflow(0))) % (MaxValue + 1)
=============================================================================
