------------------------------ MODULE Machine ------------------------------
(***************************************************************************)
(* internal/webui: the running machine.  The RunCPU goroutine steps the    *)
(* system in batches, each under the server's mutex; a panic inside a      *)
(* batch halts the machine instead of ending the process; the handlers of  *)
(* browser messages take the same mutex between batches.                   *)
(***************************************************************************)
EXTENDS Kim1System

CONSTANTS
    BatchCycles,    \* stepBatch's argument: cycles per batch
    InstrCycles,    \* the cycle counts instructions may return
    IntCycles       \* the cycles an interrupt takes (7)

ASSUME MachineAssumption ==
    /\ BatchCycles \in Nat \ {0}
    /\ InstrCycles \subseteq Nat \ {0}
    /\ IntCycles \in Nat \ {0}

VARIABLES
    mu,         \* who holds Server.mu: "free" or "cpu"
    spent,      \* the running batch's cycle count
    halted      \* Server.halted; haltReason is non-empty exactly then

machineVars == <<sysVars, mu, spent, halted>>

MachineInit ==
    /\ SystemInit
    /\ mu = "free"
    /\ spent = 0
    /\ halted = FALSE

----------------------------------------------------------------------------
(* Faulty variant: batches go on after a halt. *)
BeginBatchHalted ==
    /\ mu = "free"
    /\ mu' = "cpu"
    /\ spent' = 0
    /\ UNCHANGED <<sysVars, halted>>

(* stepBatch, from RunCPU.  When halted it returns at once, which changes  *)
(* nothing.                                                                *)
BeginBatch ==
    /\ mu = "free"
    /\ ~halted
    /\ mu' = "cpu"
    /\ spent' = 0
    /\ UNCHANGED <<sysVars, halted>>

Spend(cycles) == spent' = spent + cycles

BatchStep ==
    /\ mu = "cpu"
    /\ spent < BatchCycles
    /\ \/ StepInterrupt /\ Spend(IntCycles)
       \/ \E op \in Opcode, next \in Addr, mask \in BOOLEAN, cycles \in InstrCycles :
             StepInstruction(op, next, mask) /\ Spend(cycles)
    /\ UNCHANGED <<mu, halted>>

(* Faulty variant: the panic leaves stepBatch without the Unlock. *)
BatchPanicsLocked ==
    /\ mu = "cpu"
    /\ spent < BatchCycles
    /\ StepPanics
    /\ halted' = TRUE
    /\ mu' = "leaked"
    /\ UNCHANGED spent

(* The deferred recover marks the machine halted, the deferred Unlock runs *)
(* after it.                                                               *)
BatchPanics ==
    /\ mu = "cpu"
    /\ spent < BatchCycles
    /\ StepPanics
    /\ halted' = TRUE
    /\ mu' = "free"
    /\ UNCHANGED spent

EndBatch ==
    /\ mu = "cpu"
    /\ spent >= BatchCycles
    /\ mu' = "free"
    /\ UNCHANGED <<sysVars, spent, halted>>

----------------------------------------------------------------------------
(* Message handlers; each holds mu from its first line to its last. *)

(* Faulty variant: the reset does not clear the halt. *)
ClientResetOnly ==
    /\ mu = "free"
    /\ Reset
    /\ UNCHANGED <<halted, mu, spent>>

(* "reset", and a snapshot posted with the right size: restoring memory,   *)
(* which is abstracted here, and then the same reset.                      *)
ClientReset ==
    /\ mu = "free"
    /\ Reset
    /\ halted' = FALSE
    /\ UNCHANGED <<mu, spent>>

ClientNMI ==
    /\ mu = "free"
    /\ PressST
    /\ UNCHANGED <<mu, spent, halted>>

ClientSST(on) ==
    /\ mu = "free"
    /\ SetSST(on)
    /\ UNCHANGED <<mu, spent, halted>>

RunCPU == BeginBatch \/ BatchStep \/ BatchPanics \/ EndBatch

ClientMessages ==
    \/ ClientReset
    \/ ClientNMI
    \/ \E on \in BOOLEAN : ClientSST(on)

MachineNext == RunCPU \/ ClientMessages

(* RunCPU is a goroutine of its own that never waits for anything but mu   *)
(* and a bounded sleep, and Go's mutex hands over to a waiter that has     *)
(* been passed by: it keeps making progress.  Browsers owe nothing.        *)
MachineSpec == MachineInit /\ [][MachineNext]_machineVars /\ WF_machineVars(RunCPU)

----------------------------------------------------------------------------
(* Type invariant of the server's own state. *)
MachineTypeOK ==
    /\ SystemTypeOK
    /\ mu \in {"free", "cpu"}
    /\ spent \in Nat
    /\ halted \in BOOLEAN

(* A halted machine shows the state it died in: from the panic until RS    *)
(* (or a snapshot) clears the halt, neither the CPU nor the trail the      *)
(* debug view shows changes, whatever else is pressed.                     *)
HaltFreezes ==
    [][halted /\ halted' => UNCHANGED <<pc, flagI, RecentPCs, lastStepWasInterrupt>>]_machineVars

(* After RS the machine runs: it executes at least one step (or halts      *)
(* anew trying), however many more resets and messages arrive.             *)
ResetRevives == fresh ~> ~fresh

(* An NMI, pressed or raised by SST, is serviced unless the machine halts. *)
NmiServed == nmiPending ~> (~nmiPending \/ halted)

(* A batch ends and lets go of the lock, also when it ends in a panic: the *)
(* handlers -- above all the RS that must clear a halt -- and broadcasts   *)
(* are not shut out.                                                       *)
BatchesEnd == mu = "cpu" ~> mu = "free"
=============================================================================
