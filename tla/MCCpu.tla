------------------------------- MODULE MCCpu -------------------------------
(***************************************************************************)
(* The 6502 core and its pace, one behaviour at one of three benches:      *)
(* Interrupts (bench "stack") nests interrupts, calls and returns over     *)
(* every program, Programs (bench "programs") runs given programs in       *)
(* detail, and Throttle (bench "pace") has cycles take their time.         *)
(*                                                                         *)
(* Interrupts has two-valued address bytes and a stack page that holds two *)
(* interrupt frames, so that pushes run into the end of the page.  The     *)
(* operands of the programs lie around the carries, borrows and signs of   *)
(* one and of two bytes or digits.  A batch takes the host no time, less   *)
(* than its cycles, or longer than two batches' cycles.                    *)
(***************************************************************************)
EXTENDS Interrupts, Programs, Throttle

VARIABLE bench

FourAddresses == 0 .. 3

SampleWords == {0, 1, 255, 256, 32767, 32768, 65535, 4660}
SampleDecimals == {0, 1, 153, 256, 16657, 20480, 39321, 2456}

Init ==
    /\ bench \in {"stack", "programs", "pace"}
    /\ InterruptsInit
    /\ ProgramsInit
    /\ ThrottleInit

Next ==
    /\ UNCHANGED bench
    /\ \/ bench = "stack" /\ InterruptsNext /\ UNCHANGED <<programVars, throttleVars>>
       \/ bench = "programs" /\ ProgramsNext /\ UNCHANGED <<interruptVars, throttleVars>>
       \/ bench = "pace" /\ ThrottleNext /\ UNCHANGED <<interruptVars, programVars>>

Spec == Init /\ [][Next]_<<bench, interruptVars, programVars, throttleVars>>

(* Types of all benches (cpu.go's CPU and the stack page, server.go's      *)
(* RunCPU).                                                                *)
CpuBenchesTypeOK == StackTypeOK /\ ProgramsTypeOK /\ ThrottleTypeOK
=============================================================================
