---------------------------- MODULE Instructions ----------------------------
(***************************************************************************)
(* internal/cpu: what the 6502's instructions do to its registers, to      *)
(* memory and to the cycle count.  A program is given by its instructions  *)
(* at their addresses, each with its name, addressing mode and operand;    *)
(* the encoding of opcodes is left out, and so is code as data.            *)
(***************************************************************************)
EXTENDS Alu

CONSTANTS
    Code,           \* address -> instruction
    Cells,          \* the addresses with RAM; the rest reads 0
    NmiEntry,       \* contents of the NMI vector
    IrqEntry        \* contents of the IRQ and BRK vector

UInt16 == 0 .. 65535
Word(lo, hi) == lo + 256 * hi
PageOf(a) == a \div 256

----------------------------------------------------------------------------
(* opcodeTable: which instructions there are, and what they cost.          *)
Indexed == {"zp", "zpx", "abs", "absx"}
Reading == Indexed \cup {"imm", "absy", "indx", "indy"}

Reads == {"LDA", "LDX", "LDY", "AND", "ORA", "EOR", "BIT", "ADC", "SBC", "CMP", "CPX", "CPY"}
Stores == [STA |-> "A", STX |-> "X", STY |-> "Y"]
Shifts == {"ASL", "LSR", "ROL", "ROR"}
Modifies == Shifts \cup {"INC", "DEC"}

Modes(name) ==
    CASE name \in {"LDA", "AND", "ORA", "EOR", "ADC", "SBC", "CMP"} -> Reading
      [] name = "LDX" -> {"imm", "zp", "zpy", "abs", "absy"}
      [] name = "LDY" -> Indexed \cup {"imm"}
      [] name \in {"CPX", "CPY"} -> {"imm", "zp", "abs"}
      [] name = "BIT" -> {"zp", "abs"}
      [] name = "STA" -> Reading \ {"imm"}
      [] name = "STX" -> {"zp", "zpy", "abs"}
      [] name = "STY" -> {"zp", "zpx", "abs"}
      [] name \in Shifts -> Indexed \cup {"acc"}
      [] name \in {"INC", "DEC"} -> Indexed
      [] name = "JMP" -> {"abs", "ind"}
      [] name = "JSR" -> {"abs"}
      [] name \in {"BPL", "BMI", "BVC", "BVS", "BCC", "BCS", "BNE", "BEQ"} -> {"rel"}
      [] OTHER -> {"imp"}

(* opcodeInfo.pageCycle *)
PageCycle(name, mode) == name \in Reads /\ mode \in {"absx", "absy", "indy"}

(* opcodeInfo.cycles: some instructions have a count of their own, others  *)
(* take what their access to memory takes; a write pays for the page its   *)
(* index may cross.                                                        *)
OwnCycles == [BRK |-> 7, JSR |-> 6, RTS |-> 6, RTI |-> 6, PLA |-> 4, PLP |-> 4, PHA |-> 3, PHP |-> 3]
AccessCycles == [zp |-> 3, zpx |-> 4, zpy |-> 4, abs |-> 4, absx |-> 4, absy |-> 4, indx |-> 6, indy |-> 5]

Cycles(name, mode) ==
    IF name \in DOMAIN OwnCycles THEN OwnCycles[name]
    ELSE IF name = "JMP" THEN IF mode = "abs" THEN 3 ELSE 5
    ELSE IF mode \in DOMAIN AccessCycles
         THEN AccessCycles[mode] + (IF name \in Modifies THEN 2 ELSE 0)
              + (IF mode \in {"absx", "absy", "indy"} /\ name \in Modifies \cup DOMAIN Stores THEN 1 ELSE 0)
         ELSE 2

Length(mode) ==
    CASE mode \in {"imp", "acc"} -> 1
      [] mode \in {"abs", "absx", "absy", "ind"} -> 3
      [] OTHER -> 2

ASSUME CodeAssumption ==
    /\ Cells \subseteq UInt16
    /\ NmiEntry \in UInt16 /\ IrqEntry \in UInt16
    /\ DOMAIN Code \subseteq UInt16
    /\ \A at \in DOMAIN Code :
          /\ Code[at].mode \in Modes(Code[at].name)
          /\ Code[at].arg \in IF Length(Code[at].mode) = 3 THEN UInt16 ELSE UInt8

(* Each instruction with its row of opcodeTable. *)
Decoded ==
    [at \in DOMAIN Code |->
        [name |-> Code[at].name, mode |-> Code[at].mode, arg |-> Code[at].arg,
         next |-> (at + Length(Code[at].mode)) % 65536,
         cycles |-> Cycles(Code[at].name, Code[at].mode),
         pageCycle |-> PageCycle(Code[at].name, Code[at].mode)]]

RAM == [Cells -> UInt8]

----------------------------------------------------------------------------
VARIABLE core   \* the CPU's registers and cycle count, and memory

Peek(s, a) == IF a \in DOMAIN s.mem THEN s.mem[a] ELSE 0
Poke(s, a, v) == IF a \in DOMAIN s.mem THEN [s EXCEPT !.mem[a] = v] ELSE s

PushByte(s, v) == [Poke(s, 256 + s.SP, v) EXCEPT !.SP = (@ + 255) % 256]
PushWord(s, w) == PushByte(PushByte(s, w \div 256), w % 256)
PullByte(s) == [s EXCEPT !.SP = (@ + 1) % 256]
Pulled(s) == Peek(s, 256 + ((s.SP + 1) % 256))

(* P as a byte: bit 5 is always set when it is pushed, B for BRK and PHP.  *)
Weights == [C |-> 1, Z |-> 2, I |-> 4, D |-> 8, V |-> 64, N |-> 128]
FlagByte8(p, brk) ==
    LET on(f) == IF f \in p THEN Weights[f] ELSE 0
    IN  on("C") + on("Z") + on("I") + on("D") + on("V") + on("N") + 32 + (IF brk THEN 16 ELSE 0)
FlagsOf(byte) == {f \in Flags : HasBit(byte, Weights[f])}

----------------------------------------------------------------------------
(* resolveOperand.  inst is the instruction at PC.                         *)
inst == Decoded[core.PC]

ZeroPageWord(z) == Word(Peek(core, z), Peek(core, (z + 1) % 256))

(* readBug16: the high byte comes from the same page as the low one. *)
ReadBug16(a) == Word(Peek(core, a), Peek(core, (256 * PageOf(a)) + ((a + 1) % 256)))

(* The address before indexing by a register that may cross a page. *)
Base == IF inst.mode = "indy" THEN ZeroPageWord(inst.arg) ELSE inst.arg

Address ==
    CASE inst.mode \in {"zp", "abs"} -> inst.arg
      [] inst.mode = "zpx" -> (inst.arg + core.X) % 256
      [] inst.mode = "zpy" -> (inst.arg + core.Y) % 256
      [] inst.mode = "absx" -> (Base + core.X) % 65536
      [] inst.mode \in {"absy", "indy"} -> (Base + core.Y) % 65536
      [] inst.mode = "indx" -> ZeroPageWord((inst.arg + core.X) % 256)
      [] inst.mode = "ind" -> ReadBug16(inst.arg)
      [] inst.mode = "rel" -> (inst.next + (IF inst.arg < 128 THEN inst.arg ELSE inst.arg - 256)) % 65536

Value == IF inst.mode = "imm" THEN inst.arg ELSE Peek(core, Address)

PageCrossed == inst.mode \in {"absx", "absy", "indy"} /\ PageOf(Base) # PageOf(Address)

(* Faulty variant: a branch pays for the page of its own first byte. *)
BranchCostOwn(taken) ==
    IF ~taken THEN 0 ELSE IF PageOf(core.PC) # PageOf(Address) THEN 2 ELSE 1

(* branch *)
BranchCost(taken) ==
    IF ~taken THEN 0 ELSE IF PageOf(inst.next) # PageOf(Address) THEN 2 ELSE 1

(* execute: the operand is consumed and the cycles are counted. *)
Executed(cost) ==
    [core EXCEPT !.PC = inst.next,
                 !.cycles = @ + inst.cycles + cost
                            + (IF inst.pageCycle /\ PageCrossed THEN 1 ELSE 0)]

Done(s) == core' = s
SetReg(reg, v) == [Executed(0) EXCEPT ![reg] = v, !.P = SetZN(@, v)]

----------------------------------------------------------------------------
(* dispatch, by kind of instruction. *)
Loads == [LDA |-> "A", LDX |-> "X", LDY |-> "Y"]
Load == inst.name \in DOMAIN Loads /\ Done(SetReg(Loads[inst.name], Value))

Store == inst.name \in DOMAIN Stores /\ Done(Poke(Executed(0), Address, core[Stores[inst.name]]))

Moves == [TAX |-> <<"A", "X">>, TAY |-> <<"A", "Y">>, TXA |-> <<"X", "A">>,
          TYA |-> <<"Y", "A">>, TSX |-> <<"SP", "X">>]
Transfer == inst.name \in DOMAIN Moves /\ Done(SetReg(Moves[inst.name][2], core[Moves[inst.name][1]]))
SetStack == inst.name = "TXS" /\ Done([Executed(0) EXCEPT !.SP = core.X])

PushA == inst.name = "PHA" /\ Done(PushByte(Executed(0), core.A))
PushP == inst.name = "PHP" /\ Done(PushByte(Executed(0), FlagByte8(core.P, TRUE)))
PullA == inst.name = "PLA" /\ Done(PullByte(SetReg("A", Pulled(core))))
PullP == inst.name = "PLP" /\ Done([PullByte(Executed(0)) EXCEPT !.P = FlagsOf(Pulled(core))])

Logic ==
    \/ inst.name = "AND" /\ Done(SetReg("A", And(core.A, Value)))
    \/ inst.name = "ORA" /\ Done(SetReg("A", Or(core.A, Value)))
    \/ inst.name = "EOR" /\ Done(SetReg("A", Xor(core.A, Value)))

TestBits ==
    /\ inst.name = "BIT"
    /\ Done([Executed(0) EXCEPT !.P =
           SetFlag(SetFlag(SetFlag(@, "Z", And(core.A, Value) = 0), "V", HasBit(Value, 64)),
                   "N", Bit7(Value))])

Sum(r) == Done([Executed(0) EXCEPT !.A = r.a, !.P = r.p])
Arithmetic ==
    \/ inst.name = "ADC" /\ Sum(Adc(core.A, Value, core.P))
    \/ inst.name = "SBC" /\ Sum(Sbc(core.A, Value, core.P))

Compares == [CMP |-> "A", CPX |-> "X", CPY |-> "Y"]
CompareReg ==
    /\ inst.name \in DOMAIN Compares
    /\ Done([Executed(0) EXCEPT !.P = Compare(core[Compares[inst.name]], Value, @)])

(* shiftRotate, INC and DEC: v replaces the accumulator or the byte in     *)
(* memory; a shift leaves a carry.                                         *)
Replaced(v, p) ==
    LET flagged == [Executed(0) EXCEPT !.P = SetZN(p, v)]
    IN  IF inst.mode = "acc" THEN [flagged EXCEPT !.A = v] ELSE Poke(flagged, Address, v)
Shifted(v, out) == Replaced(v, SetFlag(core.P, "C", out))

Old == IF inst.mode = "acc" THEN core.A ELSE Peek(core, Address)
Bit0(v) == v % 2 = 1
Modify ==
    \/ inst.name = "ASL" /\ Done(Shifted((2 * Old) % 256, Bit7(Old)))
    \/ inst.name = "LSR" /\ Done(Shifted(Old \div 2, Bit0(Old)))
    \/ inst.name = "ROL" /\ Done(Shifted((2 * Old + Carry(core.P)) % 256, Bit7(Old)))
    \/ inst.name = "ROR" /\ Done(Shifted((Old \div 2) + 128 * Carry(core.P), Bit0(Old)))
    \/ inst.name = "INC" /\ Done(Replaced((Old + 1) % 256, core.P))
    \/ inst.name = "DEC" /\ Done(Replaced((Old + 255) % 256, core.P))

Counts == [INX |-> <<"X", 1>>, INY |-> <<"Y", 1>>, DEX |-> <<"X", 255>>, DEY |-> <<"Y", 255>>]
Count ==
    /\ inst.name \in DOMAIN Counts
    /\ Done(SetReg(Counts[inst.name][1], (core[Counts[inst.name][1]] + Counts[inst.name][2]) % 256))

Jump == inst.name = "JMP" /\ Done([Executed(0) EXCEPT !.PC = Address])

JumpSub ==
    inst.name = "JSR" /\ Done([PushWord(Executed(0), (inst.next + 65535) % 65536) EXCEPT !.PC = Address])

(* The state s after two bytes are pulled into PC. *)
PulledPC(s, plus) ==
    [PullByte(PullByte(s)) EXCEPT !.PC = (Word(Pulled(s), Pulled(PullByte(s))) + plus) % 65536]

ReturnSub == inst.name = "RTS" /\ Done(PulledPC(Executed(0), 1))
ReturnInt ==
    inst.name = "RTI" /\ Done(PulledPC([PullByte(Executed(0)) EXCEPT !.P = FlagsOf(Pulled(core))], 0))

Branches == [BPL |-> <<"N", FALSE>>, BMI |-> <<"N", TRUE>>, BVC |-> <<"V", FALSE>>,
             BVS |-> <<"V", TRUE>>, BCC |-> <<"C", FALSE>>, BCS |-> <<"C", TRUE>>,
             BNE |-> <<"Z", FALSE>>, BEQ |-> <<"Z", TRUE>>]
Branch ==
    /\ inst.name \in DOMAIN Branches
    /\ LET taken == (Branches[inst.name][1] \in core.P) = Branches[inst.name][2]
       IN  Done([Executed(BranchCost(taken)) EXCEPT !.PC = IF taken THEN Address ELSE @])

FlagOps == [CLC |-> <<"C", FALSE>>, SEC |-> <<"C", TRUE>>, CLI |-> <<"I", FALSE>>,
            SEI |-> <<"I", TRUE>>, CLV |-> <<"V", FALSE>>, CLD |-> <<"D", FALSE>>,
            SED |-> <<"D", TRUE>>]
SetOrClear ==
    /\ inst.name \in DOMAIN FlagOps
    /\ Done([Executed(0) EXCEPT !.P = SetFlag(@, FlagOps[inst.name][1], FlagOps[inst.name][2])])

Nothing == inst.name = "NOP" /\ Done(Executed(0))

(* handleInterrupt, from state s; BRK and an interrupt between two         *)
(* instructions.                                                           *)
Interrupted(s, entry, brk) ==
    [PushByte(PushWord(s, s.PC), FlagByte8(s.P, brk)) EXCEPT !.P = @ \cup {"I"}, !.PC = entry]

BreakIn ==
    inst.name = "BRK" /\ Done(Interrupted([Executed(0) EXCEPT !.PC = (@ + 1) % 65536], IrqEntry, TRUE))

ServeNMI == Done([Interrupted(core, NmiEntry, FALSE) EXCEPT !.cycles = @ + 7])

ExecuteInstruction ==
    /\ core.PC \in DOMAIN Decoded
    /\ \/ Load \/ Store \/ Transfer \/ SetStack \/ PushA \/ PushP \/ PullA \/ PullP
       \/ Logic \/ TestBits \/ Arithmetic \/ CompareReg \/ Modify \/ Count
       \/ Jump \/ JumpSub \/ ReturnSub \/ ReturnInt \/ Branch \/ SetOrClear \/ Nothing \/ BreakIn

CoreTypeOK ==
    /\ core \in [A : UInt8, X : UInt8, Y : UInt8, SP : UInt8, PC : UInt16, P : SUBSET Flags,
                 cycles : Nat, mem : RAM]
=============================================================================
