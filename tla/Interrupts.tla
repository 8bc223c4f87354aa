----------------------------- MODULE Interrupts -----------------------------
(***************************************************************************)
(* internal/cpu on its own: NMI, IRQ, BRK, RTI, JSR, RTS, PHP and PLP with *)
(* the stack page they share, as a program uses them that pops only what   *)
(* was pushed.                                                             *)
(*                                                                         *)
(* Interrupts arrive between any two instructions, nest, and may take the  *)
(* stack pointer round the end of its page.                                *)
(*                                                                         *)
(* Addresses have a high and a low byte of Page values each; the flag byte *)
(* holds the I and B bits.  A byte that has been popped is not read again  *)
(* before it is overwritten; the model clears it.                          *)
(***************************************************************************)
EXTENDS Cpu, Sequences

CONSTANTS
    Page,           \* values of an address byte (256)
    StackSize,      \* bytes of the stack page (256)
    Targets         \* where jumps, branches and calls go

ASSUME StackAssumption ==
    /\ Page \in Nat \ {0}
    /\ Addr = 0 .. Page * Page - 1
    /\ StackSize \in Nat \ {0}
    /\ Targets \subseteq Addr

VARIABLE stack  \* the stack page and CPU.SP

(* History variable. *)
VARIABLE frames     \* what was pushed and not popped, newest first

interruptVars == <<cpuVars, stack, frames>>

Plus(a, n) == (a + n) % (Page * Page)

----------------------------------------------------------------------------
(* Bytes of what is pushed by an interrupt or BRK, by JSR and by PHP. *)
Bytes == [nmi |-> 3, irq |-> 3, brk |-> 3, call |-> 2, flags |-> 1]

(* Faulty variant: B is kept in another bit. *)
FlagByteShifted(i, b) == (IF i THEN 1 ELSE 0) + (IF b THEN 4 ELSE 0)

FlagByte(i, b) == (IF i THEN 1 ELSE 0) + (IF b THEN 2 ELSE 0)
IBit(flags) == flags % 2 = 1
BBit(flags) == flags \div 2 = 1

Below(sp) == (sp + StackSize - 1) % StackSize
Above(sp) == (sp + 1) % StackSize

Push(s, v) == [sp |-> Below(s.sp), mem |-> [s.mem EXCEPT ![s.sp] = v]]

Push16(s, v) == Push(Push(s, v \div Page), v % Page)

Top(s) == s.mem[Above(s.sp)]

Pop(s) == [sp |-> Above(s.sp), mem |-> [s.mem EXCEPT ![Above(s.sp)] = 0]]

Top16(s) == Top(Pop(s)) * Page + Top(s)

Pop16(s) == Pop(Pop(s))

(* Faulty variants: the flags are pushed after I was set; the B bit is     *)
(* pushed for every interrupt.                                             *)
PushFrameMasked(s, return, brk) == Push(Push16(s, return), FlagByte(TRUE, brk))
PushFrameWithB(s, return, brk) == Push(Push16(s, return), FlagByte(flagI, TRUE))

(* What handleInterrupt pushes. *)
PushFrame(s, return, brk) == Push(Push16(s, return), FlagByte(flagI, brk))

----------------------------------------------------------------------------
(* What the frames leave of the stack page; each knows what it left.       *)
Room == IF frames = <<>> THEN StackSize ELSE Head(frames).room

(* The bound of the model: pushes that would go round the whole page and   *)
(* overwrite what is still to be popped are left out.                      *)
Pushes(kind, return, mask) ==
    /\ Bytes[kind] <= Room
    /\ frames' = <<[kind |-> kind, return |-> return, mask |-> mask,
                    room |-> Room - Bytes[kind]]>> \o frames

----------------------------------------------------------------------------
(* Step, case by case. *)
TakeNMI ==
    /\ ServiceNMI
    /\ stack' = PushFrame(stack, pc, FALSE)
    /\ Pushes("nmi", pc, flagI)

TakeIRQ ==
    /\ ServiceIRQ
    /\ stack' = PushFrame(stack, pc, FALSE)
    /\ Pushes("irq", pc, flagI)

(* BRK skips its padding byte. *)
Break ==
    /\ Execute("brk", pc, flagI)
    /\ stack' = PushFrame(stack, Plus(pc, 2), TRUE)
    /\ Pushes("brk", Plus(pc, 2), flagI)
    /\ UNCHANGED nmiPending

(* JSR pushes the address of its own last byte. *)
Call(target) ==
    /\ Execute("ordinary", target, flagI)
    /\ stack' = Push16(stack, Plus(pc, 2))
    /\ Pushes("call", Plus(pc, 3), FALSE)
    /\ UNCHANGED nmiPending

(* PHP pushes P with B set. *)
SaveFlags ==
    /\ Execute("ordinary", Plus(pc, 1), flagI)
    /\ stack' = Push(stack, FlagByte(flagI, TRUE))
    /\ Pushes("flags", 0, flagI)
    /\ UNCHANGED nmiPending

Pops(kinds) == frames # <<>> /\ Head(frames).kind \in kinds

ReturnFromInterrupt ==
    /\ Pops({"nmi", "irq", "brk"})
    /\ Execute("ordinary", Top16(Pop(stack)), IBit(Top(stack)))
    /\ stack' = Pop16(Pop(stack))
    /\ frames' = Tail(frames)
    /\ UNCHANGED nmiPending

ReturnFromCall ==
    /\ Pops({"call"})
    /\ Execute("ordinary", Plus(Top16(stack), 1), flagI)
    /\ stack' = Pop16(stack)
    /\ frames' = Tail(frames)
    /\ UNCHANGED nmiPending

RestoreFlags ==
    /\ Pops({"flags"})
    /\ Execute("ordinary", Plus(pc, 1), IBit(Top(stack)))
    /\ stack' = Pop(stack)
    /\ frames' = Tail(frames)
    /\ UNCHANGED nmiPending

(* Jumps, branches, CLI and SEI, and anything else off the stack. *)
Elsewhere(target, mask) ==
    /\ Execute("ordinary", target, mask)
    /\ UNCHANGED <<nmiPending, stack, frames>>

(* Reset moves the stack pointer as if it pushed a frame, writing nothing. *)
ResetCore ==
    /\ CpuReset
    /\ stack' = [sp |-> Below(Below(Below(stack.sp))), mem |-> [a \in DOMAIN stack.mem |-> 0]]
    /\ frames' = <<>>

CallNMI == RequestNMI /\ UNCHANGED <<stack, frames>>

CallIRQ == RequestIRQ /\ UNCHANGED <<stack, frames>>

----------------------------------------------------------------------------
(* A new CPU has stack pointer 0; this is after its first Reset. *)
InterruptsInit ==
    /\ CpuInit
    /\ stack = [sp |-> Below(Below(Below(0))), mem |-> [a \in 0 .. StackSize - 1 |-> 0]]
    /\ frames = <<>>

InterruptsNext ==
    \/ TakeNMI \/ TakeIRQ \/ Break
    \/ \E target \in Targets : Call(target)
    \/ \E target \in Targets, mask \in BOOLEAN : Elsewhere(target, mask)
    \/ SaveFlags \/ RestoreFlags \/ ReturnFromCall \/ ReturnFromInterrupt
    \/ ResetCore \/ CallNMI \/ CallIRQ

InterruptsSpec == InterruptsInit /\ [][InterruptsNext]_interruptVars

----------------------------------------------------------------------------
(* Types. *)
StackTypeOK ==
    /\ CpuTypeOK
    /\ stack.sp \in 0 .. StackSize - 1
    /\ stack.mem \in [0 .. StackSize - 1 -> 0 .. IF Page < 4 THEN 3 ELSE Page - 1]
    /\ Room \in 0 .. StackSize

ResumedAt(f) == pc' = f.return
MaskOf(f) == flagI' = f.mask

(* Whatever interrupted a program, however deep and however the stack      *)
(* pointer wrapped round, RTI resumes it at the very instruction and with  *)
(* the very interrupt mask it was interrupted with, and RTS and PLP find   *)
(* what JSR and PHP left.                                                  *)
Resumes ==
    [][/\ ReturnFromInterrupt => ResumedAt(Head(frames)) /\ MaskOf(Head(frames))
       /\ ReturnFromCall => ResumedAt(Head(frames))
       /\ RestoreFlags => MaskOf(Head(frames))]_interruptVars

(* The handler BRK and IRQ share tells them apart by the B bit on top of   *)
(* the stack: set for BRK alone, also when an NMI handler ran in between.  *)
BreakTold ==
    frames # <<>> /\ Head(frames).kind \in {"nmi", "irq", "brk"} =>
        (BBit(Top(stack)) <=> Head(frames).kind = "brk")
=============================================================================
