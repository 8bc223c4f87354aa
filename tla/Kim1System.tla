---------------------------- MODULE Kim1System ----------------------------
(***************************************************************************)
(* internal/kim1/system.go: one System.Step at a time -- the CPU, the SST  *)
(* single-step circuit that raises an NMI behind an instruction, and the   *)
(* ring of recently executed addresses.  Timers and the teletype, which    *)
(* Step also drives, are modelled in modules of their own.                 *)
(*                                                                         *)
(* Addresses are numbers, so the address decoding is the code's; which     *)
(* opcode an address holds is left open at every step, because programs,   *)
(* the loader and the memory editor all rewrite memory.                    *)
(***************************************************************************)
EXTENDS Cpu, Sequences

CONSTANTS
    PCHistoryLen,   \* size of the ring of recent addresses
    AppROMStart,    \* first address of the two ROMs ($1800)
    ExpRAMStart,    \* first address behind the ROMs ($2000)
    HwVectorStart,  \* the ROM alias that holds the vectors ($FFFA)
    ExpansionRAM    \* whether EnableExpansionRAM was called

ASSUME SystemAssumption ==
    /\ Addr \subseteq Nat
    /\ 0 \in Addr
    /\ PCHistoryLen \in Nat \ {0}
    /\ AppROMStart \in Nat
    /\ ExpRAMStart \in Nat
    /\ HwVectorStart \in Nat
    /\ AppROMStart <= ExpRAMStart
    /\ ExpansionRAM \in BOOLEAN

VARIABLES
    sst,        \* System.SST, the slide switch
    pcHist,     \* System.pcHist
    pcHead,     \* System.pcHead
    pcCount     \* System.pcCount

(* History variables: the code has no such state, the properties read it.  *)
VARIABLES
    stepped,    \* instructions run from outside ROM with SST on, BRK apart,
                \* since the last interrupt or reset
    fresh,      \* nothing has run or been pressed since the last reset
    late        \* interrupts taken since SST was last off, none by ST

trailVars   == <<pcHist, pcHead, pcCount>>
historyVars == <<stepped, fresh, late>>
sysVars     == <<cpuVars, sst, trailVars, historyVars>>

InROM(a) == (AppROMStart <= a /\ a < ExpRAMStart) \/ HwVectorStart <= a

(* Unpopulated addresses read as $00, the BRK opcode.  On-board RAM, the   *)
(* RIOT windows and the hole are not told apart below the ROMs.            *)
Holds(a, op) == op = "brk" \/ ExpansionRAM \/ a < ExpRAMStart \/ InROM(a)

SystemInit ==
    /\ CpuInit
    /\ sst = FALSE
    /\ pcHist = [i \in 0 .. PCHistoryLen - 1 |-> 0]
    /\ pcHead = 0
    /\ pcCount = 0
    /\ stepped = 0
    /\ fresh = TRUE
    /\ late = 0

----------------------------------------------------------------------------
(* RecentPCs: newest first, walking back from the slot before pcHead.      *)
RecentPCs ==
    [i \in 1 .. pcCount |-> pcHist[(pcHead - i + 2 * PCHistoryLen) % PCHistoryLen]]

(* Faulty variants: the head runs off the array; the slot is written after *)
(* the head has moved on.                                                  *)
RecordPCNoWrap ==
    /\ pcHist' = [pcHist EXCEPT ![pcHead] = pc]
    /\ pcHead' = pcHead + 1
    /\ pcCount' = IF pcCount < PCHistoryLen THEN pcCount + 1 ELSE pcCount

RecordPCLate ==
    /\ pcHead' = (pcHead + 1) % PCHistoryLen
    /\ pcHist' = [pcHist EXCEPT ![pcHead'] = pc]
    /\ pcCount' = IF pcCount < PCHistoryLen THEN pcCount + 1 ELSE pcCount

(* Step appends the address it fetched from to the ring. *)
RecordPC ==
    /\ pcHist' = [pcHist EXCEPT ![pcHead] = pc]
    /\ pcHead' = (pcHead + 1) % PCHistoryLen
    /\ pcCount' = IF pcCount < PCHistoryLen THEN pcCount + 1 ELSE pcCount

(* Faulty variants: the circuit looks at where the instruction went, or    *)
(* does not look at the switch.                                            *)
SingleStepsTarget(op) == sst /\ pc' < AppROMStart /\ op # "brk"
SingleStepsUnswitched(op) == pc < AppROMStart /\ op # "brk"

(* The circuit that follows SYNC: does the instruction just run break?     *)
SingleSteps(op) == sst /\ pc < AppROMStart /\ op # "brk"

(* What the documentation says the circuit watches. *)
Traceable(op) == sst /\ ~InROM(pc) /\ op # "brk"

----------------------------------------------------------------------------
StepInterrupt ==
    /\ ServiceNMI
    /\ UNCHANGED <<sst, trailVars>>
    /\ stepped' = 0
    /\ fresh' = FALSE
    /\ late' = IF sst THEN 0 ELSE late + 1

StepInstruction(op, next, mask) ==
    /\ Holds(pc, op)
    /\ Execute(op, next, mask)
    /\ RecordPC
    /\ nmiPending' = SingleSteps(op)
    /\ UNCHANGED sst
    /\ stepped' = IF Traceable(op) THEN stepped + 1 ELSE stepped
    /\ fresh' = FALSE
    /\ UNCHANGED late

(* System.Step.  Nothing in the system calls CPU.IRQ, so the third case of *)
(* CPU.Step, ServiceIRQ, never arises here.                                *)
Step ==
    \/ StepInterrupt
    \/ \E op \in Opcode, next \in Addr, mask \in BOOLEAN :
          StepInstruction(op, next, mask)

(* Step when execute panics: the panic unwinds through System.Step before  *)
(* the ring or the circuit see the instruction.                            *)
StepPanics ==
    /\ Holds(pc, "illegal")
    /\ ExecutePanics
    /\ UNCHANGED <<sst, trailVars, stepped, late>>
    /\ fresh' = FALSE

(* System.Reset restarts the CPU and empties the ring; pcHead stays.       *)
Reset ==
    /\ CpuReset
    /\ pcCount' = 0
    /\ UNCHANGED <<sst, pcHist, pcHead>>
    /\ stepped' = 0
    /\ fresh' = TRUE
    /\ UNCHANGED late

(* The ST key. *)
PressST ==
    /\ RequestNMI
    /\ UNCHANGED <<sst, trailVars, stepped>>
    /\ fresh' = FALSE
    /\ late' = 0

(* The SST slide switch. *)
SetSST(on) ==
    /\ sst' = on
    /\ UNCHANGED <<cpuVars, trailVars, stepped, fresh>>
    /\ late' = 0

SystemNext ==
    \/ Step
    \/ StepPanics
    \/ Reset
    \/ PressST
    \/ \E on \in BOOLEAN : SetSST(on)

SystemSpec == SystemInit /\ [][SystemNext]_sysVars

----------------------------------------------------------------------------
(* Types and ranges.  The ring index never leaves the array and the count  *)
(* never exceeds it, in the modelled range of addresses.                   *)
SystemTypeOK ==
    /\ CpuTypeOK
    /\ sst \in BOOLEAN
    /\ pcHist \in [0 .. PCHistoryLen - 1 -> Addr]
    /\ pcHead \in 0 .. PCHistoryLen - 1
    /\ pcCount \in 0 .. PCHistoryLen
    /\ stepped \in Nat
    /\ fresh \in BOOLEAN
    /\ late \in Nat

(* Single step: with the SST switch on, a second instruction from outside  *)
(* ROM never runs before the monitor got its NMI for the first, whatever   *)
(* ST presses, switch movements, BRKs and panics fall in between.          *)
SingleStep == stepped <= 1

(* Switching SST off ends single stepping: at most the one NMI that was    *)
(* already latched still breaks in, unless ST is pressed.                  *)
SwitchOffEnds == late <= 1

(* A reset starts the monitor afresh: the first Step after Reset executes  *)
(* the instruction at the reset vector, it does not service an NMI that    *)
(* was latched before the reset.                                           *)
ResetStartsAfresh == fresh => ~nmiPending

(* The ring behind RecentPCs implements the trail of recent instructions.  *)
Trail == INSTANCE RecentTrail WITH recent <- RecentPCs

(* RecentPCs is always the last PCHistoryLen executed addresses since the  *)
(* last reset, newest first: interrupts and panics leave no entry, and a   *)
(* reset that keeps pcHead loses nothing.                                  *)
TrailSpec == Trail!Spec
=============================================================================
