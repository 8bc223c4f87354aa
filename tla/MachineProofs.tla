---------------------------- MODULE MachineProofs ----------------------------
(***************************************************************************)
(* Proofs about Kim1System, for every set of addresses, ring size and      *)
(* memory layout SystemAssumption allows; and about Machine: the running   *)
(* machine is that system, so that everything proved of it holds of the    *)
(* machine, and a halt freezes it.                                         *)
(***************************************************************************)
EXTENDS Machine, TLAPS

----------------------------------------------------------------------------
(* Every step keeps the CPU's part of the state typed, given that what an  *)
(* instruction leaves in PC and I is.                                      *)
LEMMA CpuTypes ==
    ASSUME SystemTypeOK, [SystemNext]_sysVars
    PROVE  CpuTypeOK'
PROOF
    <1>1. CASE StepInterrupt
        BY <1>1, VectorAssumption
        DEF StepInterrupt, ServiceNMI, EnterHandler, SystemTypeOK, CpuTypeOK
    <1>2. ASSUME NEW op \in Opcode, NEW next \in Addr, NEW mask \in BOOLEAN,
                 StepInstruction(op, next, mask)
          PROVE  CpuTypeOK'
        <2>1. nmiPending' \in BOOLEAN
            BY <1>2 DEF StepInstruction, SingleSteps
        <2>2. pc' \in Addr /\ flagI' \in BOOLEAN
            BY <1>2, VectorAssumption DEF StepInstruction, Execute, EnterHandler
        <2>3. irqPending' = FALSE /\ lastStepWasInterrupt' = FALSE
            BY <1>2 DEF StepInstruction, Execute, NoInterrupt
        <2> QED
            BY <2>1, <2>2, <2>3 DEF CpuTypeOK
    <1>3. CASE StepPanics
        BY <1>3 DEF StepPanics, ExecutePanics, NoInterrupt, SystemTypeOK, CpuTypeOK
    <1>4. CASE Reset
        BY <1>4, VectorAssumption DEF Reset, CpuReset, SystemTypeOK, CpuTypeOK
    <1>5. CASE PressST
        BY <1>5 DEF PressST, RequestNMI, SystemTypeOK, CpuTypeOK
    <1>6. CASE (\E on \in BOOLEAN : SetSST(on)) \/ UNCHANGED sysVars
        BY <1>6 DEF SetSST, sysVars, cpuVars, SystemTypeOK, CpuTypeOK
    <1> QED
        BY <1>1, <1>2, <1>3, <1>4, <1>5, <1>6 DEF SystemNext, Step

(* Every step keeps the ring in its array and its head and count in range. *)
LEMMA TrailTypes ==
    ASSUME SystemTypeOK, [SystemNext]_sysVars
    PROVE  /\ pcHist' \in [0 .. PCHistoryLen - 1 -> Addr]
           /\ pcHead' \in 0 .. PCHistoryLen - 1
           /\ pcCount' \in 0 .. PCHistoryLen
PROOF
    <1>1. CASE RecordPC
        BY <1>1, SystemAssumption DEF RecordPC, SystemTypeOK, CpuTypeOK
    <1>2. CASE UNCHANGED trailVars
        BY <1>2 DEF trailVars, SystemTypeOK
    <1>3. CASE Reset
        BY <1>3, SystemAssumption DEF Reset, SystemTypeOK
    <1> QED
        BY <1>1, <1>2, <1>3
        DEF SystemNext, Step, StepInterrupt, StepInstruction, StepPanics, PressST,
            SetSST, sysVars, trailVars

(* The switch and the history variables keep their types. *)
LEMMA SwitchAndHistoryTypes ==
    ASSUME SystemTypeOK, [SystemNext]_sysVars
    PROVE  sst' \in BOOLEAN /\ stepped' \in Nat /\ fresh' \in BOOLEAN /\ late' \in Nat
PROOF
    <1>1. sst' \in BOOLEAN
        BY DEF SystemNext, Step, StepInterrupt, StepInstruction, StepPanics, Reset,
               PressST, SetSST, sysVars, SystemTypeOK
    <1>2. fresh' \in BOOLEAN
        BY DEF SystemNext, Step, StepInterrupt, StepInstruction, StepPanics, Reset,
               PressST, SetSST, sysVars, historyVars, SystemTypeOK
    <1>3. stepped' \in {0, stepped, stepped + 1} /\ late' \in {0, late, late + 1}
        BY DEF SystemNext, Step, StepInterrupt, StepInstruction, StepPanics, Reset,
               PressST, SetSST, sysVars, historyVars
    <1> QED
        BY <1>1, <1>2, <1>3 DEF SystemTypeOK

LEMMA InitTypes == SystemInit => SystemTypeOK
PROOF
    <1> SUFFICES ASSUME SystemInit
                 PROVE  SystemTypeOK
        OBVIOUS
    <1>1. CpuTypeOK
        BY VectorAssumption DEF SystemInit, CpuInit, CpuTypeOK
    <1>2. /\ pcHist \in [0 .. PCHistoryLen - 1 -> Addr]
          /\ pcHead \in 0 .. PCHistoryLen - 1
          /\ pcCount \in 0 .. PCHistoryLen
        BY SystemAssumption DEF SystemInit
    <1>3. sst \in BOOLEAN /\ fresh \in BOOLEAN
        BY DEF SystemInit
    <1>4. stepped \in Nat /\ late \in Nat
        BY DEF SystemInit
    <1> QED
        BY <1>1, <1>2, <1>3, <1>4 DEF SystemTypeOK

(* The types of the whole state, for any memory layout and any ring: in    *)
(* particular the ring is never indexed outside its array.                 *)
THEOREM TypeCorrect == SystemSpec => []SystemTypeOK
PROOF
    <1>1. SystemTypeOK /\ [SystemNext]_sysVars => SystemTypeOK'
        <2> SUFFICES ASSUME SystemTypeOK, [SystemNext]_sysVars
                     PROVE  SystemTypeOK'
            OBVIOUS
        <2>1. CpuTypeOK'
            BY CpuTypes
        <2>2. /\ pcHist' \in [0 .. PCHistoryLen - 1 -> Addr]
              /\ pcHead' \in 0 .. PCHistoryLen - 1
              /\ pcCount' \in 0 .. PCHistoryLen
            BY TrailTypes
        <2>3. sst' \in BOOLEAN /\ stepped' \in Nat /\ fresh' \in BOOLEAN /\ late' \in Nat
            BY SwitchAndHistoryTypes
        <2> QED
            BY <2>1, <2>2, <2>3 DEF SystemTypeOK
    <1> QED
        BY InitTypes, <1>1, PTL DEF SystemSpec

----------------------------------------------------------------------------
(* SingleStep is not inductive: it does not say that the one instruction   *)
(* that may have run has its NMI coming.                                   *)
StepInv == stepped <= 1 /\ (stepped = 1 => nmiPending)

(* Without RAM behind the ROMs, whatever a program can be made of lies     *)
(* either in the ROMs or below them: the comparison with the first ROM     *)
(* address alone is enough.                                                *)
LEMMA CircuitSeesTraceable ==
    ASSUME SystemTypeOK, ~ExpansionRAM, NEW op \in Opcode,
           Holds(pc, op), Traceable(op)
    PROVE  SingleSteps(op)
PROOF
    <1>1. pc \in Nat
        BY SystemAssumption DEF SystemTypeOK, CpuTypeOK
    <1>2. ~(AppROMStart <= pc /\ pc < ExpRAMStart) /\ ~(HwVectorStart <= pc)
        BY DEF Traceable, InROM
    <1>3. pc < ExpRAMStart
        BY <1>2 DEF Holds, Traceable, InROM
    <1> QED
        BY <1>1, <1>2, <1>3, SystemAssumption DEF SingleSteps, Traceable

(* While an NMI is pending no instruction runs; when none is, nothing has  *)
(* been stepped, and what runs now is either out of the circuit's sight or *)
(* latches its own NMI.                                                    *)
LEMMA StepInvInductive ==
    ASSUME SystemTypeOK, StepInv, ~ExpansionRAM, [SystemNext]_sysVars
    PROVE  StepInv'
PROOF
    <1>1. CASE StepInterrupt \/ Reset
        BY <1>1 DEF StepInterrupt, Reset, StepInv
    <1>2. ASSUME NEW op \in Opcode, NEW next \in Addr, NEW mask \in BOOLEAN,
                 StepInstruction(op, next, mask)
          PROVE  StepInv'
        <2>1. stepped = 0
            BY <1>2 DEF StepInstruction, Execute, NoInterrupt, StepInv, SystemTypeOK
        <2>2. CASE Traceable(op)
            <3>1. SingleSteps(op)
                BY <1>2, <2>2, CircuitSeesTraceable DEF StepInstruction
            <3> QED
                BY <1>2, <2>1, <2>2, <3>1 DEF StepInstruction, StepInv
        <2>3. CASE ~Traceable(op)
            BY <1>2, <2>1, <2>3 DEF StepInstruction, StepInv
        <2> QED
            BY <2>2, <2>3
    <1>3. CASE StepPanics \/ PressST
        BY <1>3 DEF StepPanics, ExecutePanics, PressST, RequestNMI, StepInv
    <1>4. CASE (\E on \in BOOLEAN : SetSST(on)) \/ UNCHANGED sysVars
        BY <1>4 DEF SetSST, sysVars, cpuVars, historyVars, StepInv
    <1> QED
        BY <1>1, <1>2, <1>3, <1>4 DEF SystemNext, Step

(* On a board without expansion RAM, single stepping never lets a second   *)
(* traced instruction run before the NMI of the first is taken.            *)
THEOREM SingleStepHolds == ~ExpansionRAM => (SystemSpec => []SingleStep)
PROOF
    <1> SUFFICES ASSUME ~ExpansionRAM
                 PROVE  SystemSpec => []SingleStep
        OBVIOUS
    <1>1. SystemInit => StepInv
        BY DEF SystemInit, StepInv
    <1>2. SystemTypeOK /\ StepInv /\ [SystemNext]_sysVars => StepInv'
        BY StepInvInductive
    <1>3. StepInv => SingleStep
        BY DEF StepInv, SingleStep
    <1> QED
        BY TypeCorrect, <1>1, <1>2, <1>3, PTL DEF SystemSpec

----------------------------------------------------------------------------
(* Behind an interrupt taken with the switch off, nothing is latched and   *)
(* the switch is still off.                                                *)
LateInv == late <= 1 /\ (late = 1 => ~sst /\ ~nmiPending)

(* With the switch off no instruction latches an NMI.                      *)
LEMMA LateInvInductive ==
    ASSUME SystemTypeOK, LateInv, [SystemNext]_sysVars
    PROVE  LateInv'
PROOF
    <1>1. CASE StepInterrupt
        BY <1>1 DEF StepInterrupt, ServiceNMI, SystemTypeOK, LateInv
    <1>2. ASSUME NEW op \in Opcode, NEW next \in Addr, NEW mask \in BOOLEAN,
                 StepInstruction(op, next, mask)
          PROVE  LateInv'
        BY <1>2 DEF StepInstruction, SingleSteps, LateInv
    <1>3. CASE StepPanics \/ Reset
        BY <1>3 DEF StepPanics, ExecutePanics, Reset, CpuReset, LateInv
    <1>4. CASE PressST \/ (\E on \in BOOLEAN : SetSST(on))
        BY <1>4 DEF PressST, SetSST, LateInv
    <1>5. CASE UNCHANGED sysVars
        BY <1>5 DEF sysVars, cpuVars, historyVars, LateInv
    <1> QED
        BY <1>1, <1>2, <1>3, <1>4, <1>5 DEF SystemNext, Step

(* Once SST is switched off, at most the NMI already latched breaks in.    *)
THEOREM SwitchOffHolds == SystemSpec => []SwitchOffEnds
PROOF
    <1>1. SystemInit => LateInv
        BY DEF SystemInit, LateInv
    <1>2. SystemTypeOK /\ LateInv /\ [SystemNext]_sysVars => LateInv'
        BY LateInvInductive
    <1>3. LateInv => SwitchOffEnds
        BY DEF LateInv, SwitchOffEnds
    <1> QED
        BY TypeCorrect, <1>1, <1>2, <1>3, PTL DEF SystemSpec

----------------------------------------------------------------------------
(* The arithmetic of a ring of n slots: walking back i slots from head.    *)
LEMMA SlotValue ==
    ASSUME NEW n \in Nat \ {0}, NEW head \in 0 .. n - 1, NEW i \in 0 .. n
    PROVE  (head - i + 2 * n) % n =
               IF i = n THEN head ELSE IF i <= head THEN head - i ELSE head - i + n
PROOF
    BY SMT

(* Once the head has moved on, one step back is where it was, and i steps  *)
(* back are where i - 1 were: another slot than that.                      *)
LEMMA SlotAfterAdvance ==
    ASSUME NEW n \in Nat \ {0}, NEW head \in 0 .. n - 1, NEW i \in 1 .. n
    PROVE  /\ (((head + 1) % n) - i + 2 * n) % n = (head - (i - 1) + 2 * n) % n
           /\ (head - (i - 1) + 2 * n) % n \in 0 .. n - 1
           /\ (head - (i - 1) + 2 * n) % n = head <=> i = 1
PROOF
    <1>1. (head + 1) % n = IF head + 1 = n THEN 0 ELSE head + 1
        BY SMT
    <1>2. (head + 1) % n \in 0 .. n - 1 /\ i - 1 \in 0 .. n /\ i - 1 # n
        BY <1>1
    <1>3. (head - (i - 1) + 2 * n) % n =
              IF i - 1 <= head THEN head - (i - 1) ELSE head - (i - 1) + n
        BY <1>2, SlotValue
    <1>4. CASE head + 1 = n
        <2>1. (0 - i + 2 * n) % n = IF i = n THEN 0 ELSE 0 - i + n
            BY SMT
        <2> QED
            BY <1>1, <1>3, <1>4, <2>1
    <1>5. CASE head + 1 # n
        <2>1. head + 1 \in 0 .. n - 1
            BY <1>5
        <2>2. (head + 1 - i + 2 * n) % n =
                  IF i = n THEN head + 1 ELSE IF i <= head + 1 THEN head + 1 - i
                  ELSE head + 1 - i + n
            BY <2>1, SMT
        <2> QED
            BY <1>1, <1>3, <1>5, <2>2
    <1> QED
        BY <1>4, <1>5

LEMMA RecentLength == SystemTypeOK => Len(RecentPCs) = pcCount
PROOF
    BY DEF SystemTypeOK, RecentPCs

(* Recording an address in the ring puts it in front of the trail, and     *)
(* drops the oldest address once the ring is full.                         *)
LEMMA RecordExtendsTrail ==
    ASSUME SystemTypeOK, RecordPC
    PROVE  Trail!Executed(pc)
PROOF
    <1> DEFINE Slot(head, i) == (head - i + 2 * PCHistoryLen) % PCHistoryLen
    <1>1. PCHistoryLen \in Nat \ {0} /\ pcHead \in 0 .. PCHistoryLen - 1
        BY SystemAssumption DEF SystemTypeOK
    <1>2. pcCount' = Trail!Capped(Len(RecentPCs)) /\ pcCount' \in 1 .. PCHistoryLen
        BY <1>1, RecentLength DEF RecordPC, Trail!Capped, SystemTypeOK
    <1>3. ASSUME NEW i \in 1 .. pcCount'
          PROVE  pcHist'[Slot(pcHead', i)] = IF i = 1 THEN pc ELSE RecentPCs[i - 1]
        <2>1. i \in 1 .. PCHistoryLen
            BY <1>1, <1>2
        <2>2. /\ Slot(pcHead', i) = Slot(pcHead, i - 1)
              /\ Slot(pcHead, i - 1) \in 0 .. PCHistoryLen - 1
              /\ Slot(pcHead, i - 1) = pcHead <=> i = 1
            BY <1>1, <2>1, SlotAfterAdvance, ZenonT(30) DEF RecordPC
        <2>3. CASE i = 1
            BY <1>1, <2>2, <2>3 DEF RecordPC, SystemTypeOK
        <2>4. CASE i # 1
            <3>1. i - 1 \in 1 .. pcCount
                BY <2>1, <2>4, <1>1 DEF RecordPC, SystemTypeOK
            <3>2. RecentPCs[i - 1] = pcHist[Slot(pcHead, i - 1)]
                BY <3>1 DEF RecentPCs
            <3>3. pcHist'[Slot(pcHead, i - 1)] = pcHist[Slot(pcHead, i - 1)]
                BY <2>2, <2>4 DEF RecordPC, SystemTypeOK
            <3> QED
                BY <2>2, <2>4, <3>2, <3>3
        <2> QED
            BY <2>3, <2>4
    <1>4. RecentPCs' = [i \in 1 .. pcCount' |-> IF i = 1 THEN pc ELSE RecentPCs[i - 1]]
        BY <1>3 DEF RecentPCs
    <1> QED
        BY <1>2, <1>4 DEF Trail!Executed

(* Every step extends the trail by the address executed, empties it, or    *)
(* leaves it alone.                                                        *)
LEMMA StepsImplementTrail ==
    ASSUME SystemTypeOK, [SystemNext]_sysVars
    PROVE  [Trail!Next]_RecentPCs
PROOF
    <1>1. CASE RecordPC
        BY <1>1, RecordExtendsTrail DEF Trail!Next, SystemTypeOK, CpuTypeOK
    <1>2. CASE UNCHANGED trailVars
        BY <1>2 DEF trailVars, RecentPCs
    <1>3. CASE Reset
        <2>1. RecentPCs' = <<>>
            BY <1>3 DEF Reset, RecentPCs
        <2> QED
            BY <2>1 DEF Trail!Next, Trail!Forgotten
    <1> QED
        BY <1>1, <1>2, <1>3
        DEF SystemNext, Step, StepInterrupt, StepInstruction, StepPanics, PressST,
            SetSST, sysVars, trailVars

(* The ring behind RecentPCs implements the abstract trail, for any size.  *)
THEOREM RingImplementsTrail == SystemSpec => TrailSpec
PROOF
    <1>1. SystemInit => Trail!Init
        BY DEF SystemInit, Trail!Init, RecentPCs
    <1>2. SystemTypeOK /\ [SystemNext]_sysVars => [Trail!Next]_RecentPCs
        BY StepsImplementTrail
    <1> QED
        BY TypeCorrect, <1>1, <1>2, PTL DEF SystemSpec, TrailSpec, Trail!Spec

----------------------------------------------------------------------------
(* Whatever the server does to the system is a step of the system.         *)
LEMMA MachineStepsAreSystemSteps ==
    [MachineNext]_machineVars => [SystemNext]_sysVars
PROOF
    <1> SUFFICES ASSUME [MachineNext]_machineVars
                 PROVE  [SystemNext]_sysVars
        OBVIOUS
    <1>1. CASE BeginBatch \/ EndBatch \/ UNCHANGED machineVars
        BY <1>1 DEF BeginBatch, EndBatch, machineVars
    <1>2. CASE BatchStep
        BY <1>2 DEF BatchStep, SystemNext, Step
    <1>3. CASE BatchPanics
        BY <1>3 DEF BatchPanics, SystemNext
    <1>4. CASE ClientMessages
        BY <1>4 DEF ClientMessages, ClientReset, ClientNMI, ClientSST, SystemNext
    <1> QED
        BY <1>1, <1>2, <1>3, <1>4 DEF MachineNext, RunCPU

(* The server's machine implements the system on its own: batches, halts   *)
(* and locking take nothing away from it and add nothing to it.            *)
THEOREM MachineImplementsSystem == MachineSpec => SystemSpec
PROOF
    <1>1. MachineInit => SystemInit
        BY DEF MachineInit
    <1> QED
        BY <1>1, MachineStepsAreSystemSteps, PTL DEF MachineSpec, SystemSpec

(* In the running machine, too, single stepping stops behind every traced  *)
(* instruction, and ends with the switch.                                  *)
THEOREM MachineSingleSteps ==
    /\ ~ExpansionRAM => (MachineSpec => []SingleStep)
    /\ MachineSpec => []SwitchOffEnds
PROOF
    BY MachineImplementsSystem, SingleStepHolds, SwitchOffHolds

----------------------------------------------------------------------------
(* The mutex and the halt flag are only ever set to these values, and the  *)
(* batch counts cycles.                                                    *)
LEMMA ServerTypes ==
    ASSUME MachineTypeOK, [MachineNext]_machineVars
    PROVE  mu' \in {"free", "cpu"} /\ spent' \in Nat /\ halted' \in BOOLEAN
PROOF
    <1>1. mu' \in {"free", "cpu"}
        BY DEF MachineNext, RunCPU, BeginBatch, BatchStep, BatchPanics, EndBatch, ClientMessages,
               ClientReset, ClientNMI, ClientSST, machineVars, MachineTypeOK
    <1>2. halted' \in BOOLEAN
        BY DEF MachineNext, RunCPU, BeginBatch, BatchStep, BatchPanics, EndBatch, ClientMessages,
               ClientReset, ClientNMI, ClientSST, machineVars, MachineTypeOK
    <1>3. CASE BatchStep
        <2>1. spent' \in Nat
            BY <1>3, MachineAssumption DEF BatchStep, Spend, MachineTypeOK
        <2> QED
            BY <1>1, <1>2, <2>1
    <1>4. CASE BeginBatch \/ BatchPanics \/ EndBatch \/ ClientMessages \/ UNCHANGED machineVars
        <2>1. spent' \in {0, spent}
            BY <1>4 DEF BeginBatch, BatchPanics, EndBatch, ClientMessages, ClientReset, ClientNMI,
                   ClientSST, machineVars
        <2> QED
            BY <1>1, <1>2, <2>1 DEF MachineTypeOK
    <1> QED
        BY <1>3, <1>4 DEF MachineNext, RunCPU

(* The types of the server's state, over those of the system.              *)
THEOREM MachineTypeCorrect == MachineSpec => []MachineTypeOK
PROOF
    <1>1. MachineInit => MachineTypeOK
        <2> SUFFICES ASSUME MachineInit
                     PROVE  MachineTypeOK
            OBVIOUS
        <2>1. SystemTypeOK
            BY InitTypes DEF MachineInit
        <2>2. halted \in BOOLEAN
            BY DEF MachineInit
        <2>3. mu \in {"free", "cpu"} /\ spent \in Nat
            BY DEF MachineInit
        <2> QED
            BY <2>1, <2>2, <2>3 DEF MachineTypeOK
    <1>2. MachineTypeOK /\ SystemTypeOK' /\ [MachineNext]_machineVars => MachineTypeOK'
        BY ServerTypes DEF MachineTypeOK
    <1>3. MachineSpec => []SystemTypeOK
        BY MachineImplementsSystem, TypeCorrect
    <1> QED
        BY <1>1, <1>2, <1>3, PTL DEF MachineSpec

----------------------------------------------------------------------------
(* Why a halted machine stands still: no batch is under way.               *)
HaltInv == halted => mu = "free"

LEMMA HaltInvInductive == HaltInv /\ [MachineNext]_machineVars => HaltInv'
PROOF
    BY DEF HaltInv, MachineNext, RunCPU, BeginBatch, BatchStep, BatchPanics, EndBatch,
           ClientMessages, ClientReset, ClientNMI, ClientSST, machineVars

(* Between two states in which the machine is halted, none but the keys'   *)
(* latches and the switches change.                                        *)
LEMMA HaltedStandsStill ==
    ASSUME HaltInv, [MachineNext]_machineVars, halted, halted'
    PROVE  UNCHANGED <<pc, flagI, RecentPCs, lastStepWasInterrupt>>
PROOF
    <1>1. UNCHANGED <<pc, flagI, trailVars, lastStepWasInterrupt>>
        <2>1. CASE RunCPU
            BY <2>1 DEF HaltInv, RunCPU, BeginBatch, BatchStep, BatchPanics, EndBatch,
                   sysVars, cpuVars
        <2>2. CASE ClientMessages
            BY <2>2 DEF ClientMessages, ClientReset, ClientNMI, ClientSST, PressST, RequestNMI,
                   SetSST, cpuVars
        <2>3. CASE UNCHANGED machineVars
            BY <2>3 DEF machineVars, sysVars, cpuVars
        <2> QED
            BY <2>1, <2>2, <2>3 DEF MachineNext
    <1> QED
        BY <1>1 DEF trailVars, RecentPCs

(* A halted machine shows the state it died in until the halt is cleared.  *)
THEOREM HaltFreezesHolds == MachineSpec => HaltFreezes
PROOF
    <1>1. MachineInit => HaltInv
        BY DEF MachineInit, HaltInv
    <1>2. HaltInv /\ [MachineNext]_machineVars
              => [halted /\ halted' => UNCHANGED <<pc, flagI, RecentPCs,
                                                   lastStepWasInterrupt>>]_machineVars
        BY HaltedStandsStill
    <1> QED
        BY <1>1, <1>2, HaltInvInductive, PTL DEF MachineSpec, HaltFreezes
=============================================================================
