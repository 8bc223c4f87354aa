-------------------------------- MODULE Cpu --------------------------------
(***************************************************************************)
(* internal/cpu: the interrupt and control-flow skeleton of the 6502 core. *)
(*                                                                         *)
(* What is kept is what other parts of the simulator depend on: where the  *)
(* program counter goes, the interrupt-disable flag, the two interrupt     *)
(* latches and whether the last Step serviced an interrupt.  Registers,    *)
(* memory contents, the stack and the cycle counter are abstracted: an     *)
(* ordinary instruction may continue at any address (fall through, branch, *)
(* JMP, JSR, RTS, RTI) and may leave the I flag as it likes (CLI, SEI,     *)
(* PLP, RTI).  BRK and an illegal opcode are told apart because the code   *)
(* treats them differently.                                                *)
(***************************************************************************)
EXTENDS Naturals

CONSTANTS
    Addr,           \* the addresses instructions are fetched from
    NmiVector,      \* contents of $FFFA: the ROM's NMI entry
    ResetVector,    \* contents of $FFFC
    IrqVector       \* contents of $FFFE, shared by IRQ and BRK

ASSUME VectorAssumption == {NmiVector, ResetVector, IrqVector} \subseteq Addr

VARIABLES
    pc,                     \* CPU.PC
    flagI,                  \* the interrupt-disable bit of CPU.P
    nmiPending,             \* CPU.nmiPending
    irqPending,             \* CPU.irqPending
    lastStepWasInterrupt    \* CPU.lastStepWasInterrupt

cpuVars == <<pc, flagI, nmiPending, irqPending, lastStepWasInterrupt>>

(* The kinds of opcode the control flow distinguishes. *)
Opcode == {"ordinary", "brk", "illegal"}

CpuTypeOK ==
    /\ pc \in Addr
    /\ flagI \in BOOLEAN
    /\ nmiPending \in BOOLEAN
    /\ irqPending \in BOOLEAN
    /\ lastStepWasInterrupt \in BOOLEAN

(* A CPU right after the Reset every user of the core performs first. *)
CpuInit ==
    /\ pc = ResetVector
    /\ flagI = TRUE
    /\ nmiPending = FALSE
    /\ irqPending = FALSE
    /\ lastStepWasInterrupt = FALSE

----------------------------------------------------------------------------
(* Requests from outside: they only set a latch. *)
RequestNMI ==
    /\ nmiPending' = TRUE
    /\ UNCHANGED <<pc, flagI, irqPending, lastStepWasInterrupt>>

RequestIRQ ==
    /\ irqPending' = TRUE
    /\ UNCHANGED <<pc, flagI, nmiPending, lastStepWasInterrupt>>

(* Reset loads PC from the reset vector and sets I.  It leaves both        *)
(* interrupt latches as they are.                                          *)
CpuReset ==
    /\ pc' = ResetVector
    /\ flagI' = TRUE
    /\ UNCHANGED <<nmiPending, irqPending, lastStepWasInterrupt>>

(* handleInterrupt: the return frame it pushes is abstracted. *)
EnterHandler(vector) ==
    /\ flagI' = TRUE
    /\ pc' = vector

----------------------------------------------------------------------------
(* Faulty variant: servicing an NMI leaves its latch set. *)
ServiceNMIKeepingLatch ==
    /\ nmiPending
    /\ UNCHANGED nmiPending
    /\ EnterHandler(NmiVector)
    /\ lastStepWasInterrupt' = TRUE
    /\ UNCHANGED irqPending

(* One call of Step is exactly one of the four cases below. *)
ServiceNMI ==
    /\ nmiPending
    /\ nmiPending' = FALSE
    /\ EnterHandler(NmiVector)
    /\ lastStepWasInterrupt' = TRUE
    /\ UNCHANGED irqPending

ServiceIRQ ==
    /\ ~nmiPending
    /\ irqPending
    /\ ~flagI
    /\ irqPending' = FALSE
    /\ EnterHandler(IrqVector)
    /\ lastStepWasInterrupt' = TRUE
    /\ UNCHANGED nmiPending

(* No interrupt is taken.  An IRQ found masked is discarded, not kept. *)
NoInterrupt ==
    /\ ~nmiPending
    /\ irqPending => flagI
    /\ irqPending' = FALSE
    /\ lastStepWasInterrupt' = FALSE

(* An instruction with opcode op runs; next and mask are what an ordinary  *)
(* one leaves in PC and I.  Whoever calls this decides nmiPending': the    *)
(* CPU itself never sets it.                                               *)
Execute(op, next, mask) ==
    /\ NoInterrupt
    /\ op # "illegal"
    /\ IF op = "brk" THEN EnterHandler(IrqVector)
                     ELSE pc' = next /\ flagI' = mask

(* execute panics on an opcode with no table entry before it touches PC.   *)
(* The latch updates Step made before that stay.                           *)
ExecutePanics ==
    /\ NoInterrupt
    /\ UNCHANGED <<pc, flagI, nmiPending>>
=============================================================================
