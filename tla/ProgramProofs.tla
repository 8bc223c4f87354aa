--------------------------- MODULE ProgramProofs ---------------------------
(***************************************************************************)
(* What the programs of Programs compute and how long they take, for any   *)
(* operands in Words and Decimals, in any memory that holds their cells,   *)
(* and with an interrupt between any two of their instructions.            *)
(*                                                                         *)
(* For each program there is a predicate of where it is: at each of its    *)
(* addresses the cycles counted so far, and what the registers, the flags  *)
(* and memory hold there.  A ...Step lemma shows that each instruction     *)
(* leads from one of these states to another, a ...Resumes lemma that the  *)
(* handler returns to the state it interrupted, a ...Starts lemma that the *)
(* program starts in one of them and an ...Ends lemma that in the last of  *)
(* them it has computed what it means.  InHandler follows the handler      *)
(* itself, with the state it interrupted on the stack.  ProgramsInv joins  *)
(* them.                                                                   *)
(***************************************************************************)
EXTENDS CpuProofs, FiniteSetTheorems

----------------------------------------------------------------------------
(* Which instruction is where, and the cells the programs use.              *)
LEMMA Listed ==
    ASSUME core \in CoreState, ExecuteInstruction,
           NEW at \in Nat, NEW name, NEW mode, NEW arg, <<at, name, mode, arg>> \in Listing,
           core.PC = at, at + 3 < 65536
    PROVE  Doing(name, mode, arg)
<1>1. PICK line \in Listing : line = <<at, name, mode, arg>>
    OBVIOUS
<1>2. line[1] = at /\ line[2] = name /\ line[3] = mode /\ line[4] = arg
    BY <1>1
<1>3. at \in DOMAIN Code /\ Code[at] = Row(line)
    BY <1>2, ProgramsAssumption
<1>. QED BY <1>2, <1>3 DEF Doing, Row

LEMMA TextsListed ==
    ASSUME NEW prog \in DOMAIN Texts
    PROVE  Texts[prog] \subseteq Listing
BY Zenon DEF Listing

LEMMA ChainsListed ==
    /\ Chain(2048, "CLD", "CLC", "ADC") \subseteq Listing
    /\ Chain(2080, "SED", "CLC", "ADC") \subseteq Listing
    /\ Chain(2112, "CLD", "SEC", "SBC") \subseteq Listing
    /\ Chain(2144, "SED", "SEC", "SBC") \subseteq Listing
<1>1. /\ "add" \in DOMAIN Texts /\ Texts["add"] = Chain(2048, "CLD", "CLC", "ADC")
      /\ "decimalAdd" \in DOMAIN Texts /\ Texts["decimalAdd"] = Chain(2080, "SED", "CLC", "ADC")
      /\ "subtract" \in DOMAIN Texts /\ Texts["subtract"] = Chain(2112, "CLD", "SEC", "SBC")
      /\ "decimalSubtract" \in DOMAIN Texts
      /\ Texts["decimalSubtract"] = Chain(2144, "SED", "SEC", "SBC")
    BY DEF Texts
<1>. QED BY <1>1, TextsListed

LEMMA Roomy ==
    /\ 16 \in Cells /\ 17 \in Cells /\ 18 \in Cells /\ 19 \in Cells
    /\ 20 \in Cells /\ 21 \in Cells /\ 22 \in Cells /\ NmiCount \in Cells /\ BrkCount \in Cells
    /\ 0 \in Cells /\ 255 \in Cells /\ 1279 \in Cells /\ 1024 \in Cells /\ 1280 \in Cells
    /\ 32 \in Cells /\ 33 \in Cells /\ 34 \in Cells /\ 35 \in Cells /\ 36 \in Cells
    /\ Source \subseteq Cells /\ Stack \subseteq Cells
<1>1. ProgramCells \subseteq Cells
    BY ProgramsAssumption
<1>. QED BY <1>1 DEF ProgramCells, A, Saved, Copied, Vector, NmiCount, BrkCount

LEMMA Written ==
    ASSUME NEW m \in RAM, NEW at \in Cells, NEW v
    PROVE  /\ Wrote(m, at, v)[at] = v
           /\ \A c \in Cells : c # at => Wrote(m, at, v)[c] = m[c]
BY DEF Wrote, RAM

LEMMA SetZNKeeps ==
    ASSUME NEW p, NEW v, NEW f, f \notin {"Z", "N"}
    PROVE  f \in SetZN(p, v) <=> f \in p
BY DEF SetZN, SetFlag

LEMMA SetZNSets ==
    ASSUME NEW p, NEW v
    PROVE  ("Z" \in SetZN(p, v) <=> v = 0) /\ ("N" \in SetZN(p, v) <=> v >= 128)
BY DEF SetZN, SetFlag, Bit7

----------------------------------------------------------------------------
(* The four programs on words.                                             *)
Hi(w) == w \div 256
Lo(w) == w % 256

(* A program of this kind: its address, its mode, its carry, its operands. *)
Mode(dec, cy, p) == ("D" \in p <=> dec) /\ ("C" \in p <=> cy)
Sums(cy, a, m, p) == IF cy THEN Sbc(a, m, p) ELSE Adc(a, m, p)

(* l is the sum of the low bytes and p has its carry; h is that of the     *)
(* high ones, with it.                                                     *)
LowSum(dec, cy, j, l, p) ==
    \E q : /\ Mode(dec, cy, q)
           /\ l = Sums(cy, Lo(j.a), Lo(j.b), q).a
           /\ "C" \in p <=> "C" \in Sums(cy, Lo(j.a), Lo(j.b), q).p
           /\ "D" \in p <=> dec
HighSum(dec, cy, j, h, l, p) ==
    \E q : /\ LowSum(dec, cy, j, l, q)
           /\ h = Sums(cy, Hi(j.a), Hi(j.b), q).a
           /\ "C" \in p <=> "C" \in Sums(cy, Hi(j.a), Hi(j.b), q).p
           /\ "V" \in p <=> "V" \in Sums(cy, Hi(j.a), Hi(j.b), q).p
           /\ "D" \in p <=> dec

(* s is at this address, n cycles after it had counted d. *)
At(s, d, at, n) == s.PC = at /\ s.cycles = d + n

LEMMA LowSumKept ==
    ASSUME NEW dec, NEW cy, NEW j, NEW l, NEW p, LowSum(dec, cy, j, l, p), NEW v
    PROVE  LowSum(dec, cy, j, l, SetZN(p, v))
<1>1. /\ "C" \in SetZN(p, v) <=> "C" \in p
      /\ "D" \in SetZN(p, v) <=> "D" \in p
    BY SetZNKeeps
<1>. QED BY <1>1 DEF LowSum

LEMMA HighSumKept ==
    ASSUME NEW dec, NEW cy, NEW j, NEW h, NEW l, NEW p, HighSum(dec, cy, j, h, l, p), NEW v
    PROVE  HighSum(dec, cy, j, h, l, SetZN(p, v))
<1>1. /\ "C" \in SetZN(p, v) <=> "C" \in p
      /\ "D" \in SetZN(p, v) <=> "D" \in p
      /\ "V" \in SetZN(p, v) <=> "V" \in p
    BY SetZNKeeps
<1>. QED BY <1>1 DEF HighSum

LEMMA SumsKeepD ==
    ASSUME NEW cy, NEW a, NEW m, NEW p
    PROVE  "D" \in Sums(cy, a, m, p).p <=> "D" \in p
<1>1. \A x : "D" \in AddBinary(a, x, p).p <=> "D" \in p
    BY DEF AddBinary, SetZN, SetFlag
<1>2. \A x : "D" \in AddDecimal(a, x, p).p <=> "D" \in p
    BY DEF AddDecimal, SetFlag
<1>. QED BY <1>1, <1>2 DEF Sums, Adc, Sbc
ChainAt(base, dec, cy, j, s, d) ==
    /\ s.SP = 255
    /\ s.mem[16] = Hi(j.a)
    /\ s.mem[17] = Lo(j.a)
    /\ s.mem[18] = Hi(j.b)
    /\ s.mem[19] = Lo(j.b)
    /\ \/ At(s, d, base, 0)
       \/ /\ At(s, d, base + 1, 2)
          /\ ("D" \in s.P <=> dec)
       \/ At(s, d, base + 2, 4) /\ Mode(dec, cy, s.P)
       \/ At(s, d, base + 4, 6) /\ Mode(dec, cy, s.P) /\ s.X = 1
       \/ At(s, d, base + 6, 10) /\ Mode(dec, cy, s.P) /\ s.X = 1 /\ s.A = Lo(j.a)
       \/ At(s, d, base + 8, 14) /\ LowSum(dec, cy, j, s.A, s.P) /\ s.X = 1
       \/ At(s, d, base + 10, 18) /\ LowSum(dec, cy, j, s.mem[21], s.P) /\ s.X = 1
       \/ /\ At(s, d, base + 11, 20) /\ LowSum(dec, cy, j, s.mem[21], s.P) /\ s.X = 0
          /\ "N" \notin s.P
       \/ At(s, d, base + 4, 23) /\ LowSum(dec, cy, j, s.mem[21], s.P) /\ s.X = 0
       \/ At(s, d, base + 6, 27) /\ LowSum(dec, cy, j, s.mem[21], s.P) /\ s.X = 0 /\ s.A = Hi(j.a)
       \/ At(s, d, base + 8, 31) /\ HighSum(dec, cy, j, s.A, s.mem[21], s.P) /\ s.X = 0
       \/ At(s, d, base + 10, 35) /\ HighSum(dec, cy, j, s.mem[20], s.mem[21], s.P) /\ s.X = 0
       \/ At(s, d, base + 11, 37) /\ HighSum(dec, cy, j, s.mem[20], s.mem[21], s.P) /\ "N" \in s.P
       \/ At(s, d, base + 13, 39) /\ HighSum(dec, cy, j, s.mem[20], s.mem[21], s.P)
       \/ At(s, d, StopAt, 42) /\ HighSum(dec, cy, j, s.mem[20], s.mem[21], s.P)

LEMMA ChainStep ==
    ASSUME core \in CoreState, ExecuteInstruction,
           NEW base \in {2048, 2080, 2112, 2144}, NEW dec \in BOOLEAN, NEW cy \in BOOLEAN,
           Chain(base, IF dec THEN "SED" ELSE "CLD", IF cy THEN "SEC" ELSE "CLC",
                 IF cy THEN "SBC" ELSE "ADC") \subseteq Listing,
           NEW j, NEW d \in Nat, ChainAt(base, dec, cy, j, core, d), core.PC # StopAt
    PROVE  ChainAt(base, dec, cy, j, core', d) /\ core'.mem[NmiCount] = core.mem[NmiCount]
<1>. DEFINE Onward == ChainAt(base, dec, cy, j, core', d) /\ core'.mem[NmiCount] = core.mem[NmiCount]
            Unmoved == /\ core'.SP = 255
                     /\ core'.mem[16] = Hi(j.a)
                     /\ core'.mem[17] = Lo(j.a)
                     /\ core'.mem[18] = Hi(j.b)
                     /\ core'.mem[19] = Lo(j.b)
<1>. SUFFICES Onward
    OBVIOUS
<1>. HIDE DEF Onward
<1>1. PICK set, carry, op : /\ set = (IF dec THEN "SED" ELSE "CLD")
                            /\ carry = (IF cy THEN "SEC" ELSE "CLC")
                            /\ op = (IF cy THEN "SBC" ELSE "ADC")
    OBVIOUS
<1>2. /\ <<base, set, "imp", 0>> \in Listing
      /\ <<base + 1, carry, "imp", 0>> \in Listing
      /\ <<base + 2, "LDX", "imm", 1>> \in Listing
      /\ <<base + 4, "LDA", "zpx", 16>> \in Listing
      /\ <<base + 6, op, "zpx", 18>> \in Listing
      /\ <<base + 8, "STA", "zpx", 20>> \in Listing
      /\ <<base + 10, "DEX", "imp", 0>> \in Listing
      /\ <<base + 11, "BPL", "rel", 247>> \in Listing
      /\ <<base + 13, "JMP", "abs", StopAt>> \in Listing
    BY <1>1 DEF Chain, A, B, R
<1>3. ASSUME NEW at \in Nat, NEW name, NEW mode, NEW arg,
             <<at, name, mode, arg>> \in Listing, core.PC = at, at < 60000
      PROVE  Doing(name, mode, arg)
    BY <1>3, Listed
<1>4. /\ core.SP = 255
      /\ core.mem[16] = Hi(j.a)
      /\ core.mem[17] = Lo(j.a)
      /\ core.mem[18] = Hi(j.b)
      /\ core.mem[19] = Lo(j.b)
    BY DEF ChainAt
<1>5. core'.mem = core.mem /\ core'.SP = core.SP => Unmoved
    BY <1>4
<1>6. CASE At(core, d, base, 0)
  <2>1. Doing(set, "imp", 0)
      BY <1>2, <1>3, <1>6 DEF At
  <2>2. PICK p : p = SetFlag(core.P, "D", dec)
      OBVIOUS
  <2>3. (dec => p = core.P \cup {"D"}) /\ (~dec => p = core.P \ {"D"})
      BY <2>2 DEF SetFlag
  <2>4. Goes(core.A, core.X, core.Y, core.SP, 1, p, 2, core.mem) /\ ("D" \in p <=> dec)
      BY <1>1, <2>1, <2>3, FlagDoes
  <2>5. At(core', d, base + 1, 2)
      BY <1>6, <2>4 DEF At, Goes, GoesTo
  <2>. QED BY <1>5, <1>6, <2>4, <2>5 DEF Onward, ChainAt, Goes, GoesTo
<1>7. CASE /\ At(core, d, base + 1, 2)
           /\ ("D" \in core.P <=> dec)
  <2>1. Doing(carry, "imp", 0)
      BY <1>2, <1>3, <1>7 DEF At
  <2>2. PICK p : p = SetFlag(core.P, "C", cy)
      OBVIOUS
  <2>3. (cy => p = core.P \cup {"C"}) /\ (~cy => p = core.P \ {"C"})
      BY <2>2 DEF SetFlag
  <2>4. Goes(core.A, core.X, core.Y, core.SP, 1, p, 2, core.mem) /\ Mode(dec, cy, p)
      BY <1>1, <1>7, <2>1, <2>3, FlagDoes DEF Mode
  <2>5. At(core', d, base + 2, 4)
      BY <1>7, <2>4 DEF At, Goes, GoesTo
  <2>. QED BY <1>5, <1>7, <2>4, <2>5 DEF Onward, ChainAt, Goes, GoesTo
<1>8. CASE At(core, d, base + 2, 4) /\ Mode(dec, cy, core.P)
  <2>1. Doing("LDX", "imm", 1)
      BY <1>2, <1>3, <1>8 DEF At
  <2>2. Goes(core.A, 1, core.Y, core.SP, 2, SetZN(core.P, 1), 2, core.mem)
      BY <2>1, LoadImm DEF Loads
  <2>3. Mode(dec, cy, SetZN(core.P, 1))
      BY <1>8, SetZNKeeps DEF Mode
  <2>4. At(core', d, base + 4, 6)
      BY <1>8, <2>2 DEF At, Goes, GoesTo
  <2>. QED BY <1>5, <1>8, <2>2, <2>4, <2>3 DEF Onward, ChainAt, Goes, GoesTo
<1>9. CASE At(core, d, base + 4, 6) /\ Mode(dec, cy, core.P) /\ core.X = 1
  <2>1. Doing("LDA", "zpx", 16)
      BY <1>2, <1>3, <1>9 DEF At
  <2>2. (16 + core.X) % 256 = 17
      BY <1>9
  <2>3. Goes(Lo(j.a), core.X, core.Y, core.SP, 2, SetZN(core.P, Lo(j.a)), 4, core.mem)
      BY <1>4, <2>1, <2>2, LoadZpx, Roomy
  <2>4. Mode(dec, cy, SetZN(core.P, Lo(j.a)))
      BY <1>9, SetZNKeeps DEF Mode
  <2>5. At(core', d, base + 6, 10)
      BY <1>9, <2>3 DEF At, Goes, GoesTo
  <2>. QED BY <1>5, <1>9, <2>3, <2>5, <2>4 DEF Onward, ChainAt, Goes, GoesTo
<1>10. CASE At(core, d, base + 6, 10) /\ Mode(dec, cy, core.P) /\ core.X = 1 /\ core.A = Lo(j.a)
  <2>1. Doing(op, "zpx", 18)
      BY <1>2, <1>3, <1>10 DEF At
  <2>2. Reads8("zpx", 18, Lo(j.b), 2, 4)
      BY <1>4, <1>10, Roomy DEF Reads8
  <2>3. PICK r : r = Sums(cy, core.A, Lo(j.b), core.P)
      OBVIOUS
  <2>4. op \in {"ADC", "SBC"} /\ (op = "ADC" => ~cy) /\ (op = "SBC" => cy)
      BY <1>1
  <2>5. Goes(r.a, core.X, core.Y, core.SP, 2, r.p, 4, core.mem)
      BY <2>1, <2>2, <2>3, <2>4, SumDoes DEF Sums
  <2>6. LowSum(dec, cy, j, r.a, r.p)
      BY <1>10, <2>3, SumsKeepD DEF LowSum, Mode
  <2>7. At(core', d, base + 8, 14)
      BY <1>10, <2>5 DEF At, Goes, GoesTo
  <2>. QED BY <1>5, <1>10, <2>5, <2>7, <2>6 DEF Onward, ChainAt, Goes, GoesTo
<1>11. CASE At(core, d, base + 8, 14) /\ LowSum(dec, cy, j, core.A, core.P) /\ core.X = 1
  <2>1. Doing("STA", "zpx", 20)
      BY <1>2, <1>3, <1>11 DEF At
  <2>2. (20 + core.X) % 256 = 21
      BY <1>11
  <2>3. Goes(core.A, core.X, core.Y, core.SP, 2, core.P, 4, Wrote(core.mem, 21, core.A))
      BY <2>1, <2>2, StoreIndexed, Roomy
  <2>4. /\ Unmoved /\ core'.mem[21] = core.A
         /\ core'.mem[NmiCount] = core.mem[NmiCount]
      BY <1>4, <2>3, Roomy, Parts, Written DEF Goes, GoesTo, NmiCount
  <2>5. At(core', d, base + 10, 18)
      BY <1>11, <2>3 DEF At, Goes, GoesTo
  <2>. QED BY <1>11, <2>3, <2>5, <2>4 DEF Onward, ChainAt, Goes, GoesTo
<1>12. CASE At(core, d, base + 10, 18) /\ LowSum(dec, cy, j, core.mem[21], core.P) /\ core.X = 1
  <2>1. Doing("DEX", "imp", 0)
      BY <1>2, <1>3, <1>12 DEF At
  <2>2. (core.X + 255) % 256 = 0
      BY <1>12
  <2>3. Goes(core.A, 0, core.Y, core.SP, 1, SetZN(core.P, 0), 2, core.mem)
      BY <2>1, <2>2, CountDoes
  <2>4. LowSum(dec, cy, j, core.mem[21], SetZN(core.P, 0)) /\ "N" \notin SetZN(core.P, 0)
      BY <1>12, LowSumKept, SetZNSets
  <2>5. At(core', d, base + 11, 20)
      BY <1>12, <2>3 DEF At, Goes, GoesTo
  <2>. QED BY <1>5, <1>12, <2>3, <2>5, <2>4 DEF Onward, ChainAt, Goes, GoesTo
<1>13. CASE /\ At(core, d, base + 11, 20) /\ LowSum(dec, cy, j, core.mem[21], core.P)
            /\ core.X = 0 /\ "N" \notin core.P
  <2>1. Doing("BPL", "rel", 247)
      BY <1>2, <1>3, <1>13 DEF At
  <2>2. base + 4 = Target(247) /\ 3 = Paid(base + 4)
      BY <1>13 DEF Target, Paid, At, PageOf
  <2>3. GoesTo(core.A, core.X, core.Y, core.SP, base + 4, core.P, 3, core.mem)
      BY <1>13, <2>1, <2>2, BranchDoes DEF Branching
  <2>4. At(core', d, base + 4, 23)
      BY <1>13, <2>3 DEF At, Goes, GoesTo
  <2>. QED BY <1>5, <1>13, <2>3, <2>4 DEF Onward, ChainAt, Goes, GoesTo
<1>14. CASE At(core, d, base + 4, 23) /\ LowSum(dec, cy, j, core.mem[21], core.P) /\ core.X = 0
  <2>1. Doing("LDA", "zpx", 16)
      BY <1>2, <1>3, <1>14 DEF At
  <2>2. (16 + core.X) % 256 = 16
      BY <1>14
  <2>3. Goes(Hi(j.a), core.X, core.Y, core.SP, 2, SetZN(core.P, Hi(j.a)), 4, core.mem)
      BY <1>4, <2>1, <2>2, LoadZpx, Roomy
  <2>4. LowSum(dec, cy, j, core.mem[21], SetZN(core.P, Hi(j.a)))
      BY <1>14, LowSumKept
  <2>5. At(core', d, base + 6, 27)
      BY <1>14, <2>3 DEF At, Goes, GoesTo
  <2>. QED BY <1>5, <1>14, <2>3, <2>5, <2>4 DEF Onward, ChainAt, Goes, GoesTo
<1>15. CASE /\ At(core, d, base + 6, 27) /\ LowSum(dec, cy, j, core.mem[21], core.P)
            /\ core.X = 0 /\ core.A = Hi(j.a)
  <2>1. Doing(op, "zpx", 18)
      BY <1>2, <1>3, <1>15 DEF At
  <2>2. Reads8("zpx", 18, Hi(j.b), 2, 4)
      BY <1>4, <1>15, Roomy DEF Reads8
  <2>3. PICK r : r = Sums(cy, core.A, Hi(j.b), core.P)
      OBVIOUS
  <2>4. op \in {"ADC", "SBC"} /\ (op = "ADC" => ~cy) /\ (op = "SBC" => cy)
      BY <1>1
  <2>5. Goes(r.a, core.X, core.Y, core.SP, 2, r.p, 4, core.mem)
      BY <2>1, <2>2, <2>3, <2>4, SumDoes DEF Sums
  <2>6. HighSum(dec, cy, j, r.a, core.mem[21], r.p)
      BY <1>15, <2>3, SumsKeepD DEF HighSum, LowSum
  <2>7. At(core', d, base + 8, 31)
      BY <1>15, <2>5 DEF At, Goes, GoesTo
  <2>. QED BY <1>5, <1>15, <2>5, <2>7, <2>6 DEF Onward, ChainAt, Goes, GoesTo
<1>16. CASE /\ At(core, d, base + 8, 31) /\ HighSum(dec, cy, j, core.A, core.mem[21], core.P)
            /\ core.X = 0
  <2>1. Doing("STA", "zpx", 20)
      BY <1>2, <1>3, <1>16 DEF At
  <2>2. (20 + core.X) % 256 = 20
      BY <1>16
  <2>3. Goes(core.A, core.X, core.Y, core.SP, 2, core.P, 4, Wrote(core.mem, 20, core.A))
      BY <2>1, <2>2, StoreIndexed, Roomy
  <2>4. /\ Unmoved /\ core'.mem[20] = core.A /\ core'.mem[21] = core.mem[21]
         /\ core'.mem[NmiCount] = core.mem[NmiCount]
      BY <1>4, <2>3, Roomy, Parts, Written DEF Goes, GoesTo, NmiCount
  <2>5. At(core', d, base + 10, 35)
      BY <1>16, <2>3 DEF At, Goes, GoesTo
  <2>. QED BY <1>16, <2>3, <2>5, <2>4 DEF Onward, ChainAt, Goes, GoesTo
<1>17. CASE /\ At(core, d, base + 10, 35)
            /\ HighSum(dec, cy, j, core.mem[20], core.mem[21], core.P) /\ core.X = 0
  <2>1. Doing("DEX", "imp", 0)
      BY <1>2, <1>3, <1>17 DEF At
  <2>2. (core.X + 255) % 256 = 255
      BY <1>17
  <2>3. Goes(core.A, 255, core.Y, core.SP, 1, SetZN(core.P, 255), 2, core.mem)
      BY <2>1, <2>2, CountDoes
  <2>4. HighSum(dec, cy, j, core.mem[20], core.mem[21], SetZN(core.P, 255)) /\ "N" \in SetZN(core.P, 255)
      BY <1>17, HighSumKept, SetZNSets
  <2>5. At(core', d, base + 11, 37)
      BY <1>17, <2>3 DEF At, Goes, GoesTo
  <2>. QED BY <1>5, <1>17, <2>3, <2>5, <2>4 DEF Onward, ChainAt, Goes, GoesTo
<1>18. CASE /\ At(core, d, base + 11, 37)
            /\ HighSum(dec, cy, j, core.mem[20], core.mem[21], core.P) /\ "N" \in core.P
  <2>1. Doing("BPL", "rel", 247)
      BY <1>2, <1>3, <1>18 DEF At
  <2>2. Goes(core.A, core.X, core.Y, core.SP, 2, core.P, 2, core.mem)
      BY <1>18, <2>1, BranchDoes DEF Branching
  <2>3. At(core', d, base + 13, 39)
      BY <1>18, <2>2 DEF At, Goes, GoesTo
  <2>. QED BY <1>5, <1>18, <2>2, <2>3 DEF Onward, ChainAt, Goes, GoesTo
<1>19. CASE At(core, d, base + 13, 39) /\ HighSum(dec, cy, j, core.mem[20], core.mem[21], core.P)
  <2>1. Doing("JMP", "abs", StopAt)
      BY <1>2, <1>3, <1>19 DEF At
  <2>2. GoesTo(core.A, core.X, core.Y, core.SP, StopAt, core.P, 3, core.mem)
      BY <2>1, JumpDoes
  <2>3. At(core', d, StopAt, 42)
      BY <1>19, <2>2 DEF At, Goes, GoesTo
  <2>. QED BY <1>5, <1>19, <2>2, <2>3 DEF Onward, ChainAt, Goes, GoesTo
<1>20. ~At(core, d, StopAt, 42)
    BY DEF At
<1>. QED BY <1>6, <1>7, <1>8, <1>9, <1>10, <1>11, <1>12, <1>13, <1>14, <1>15, <1>16, <1>17,
            <1>18, <1>19, <1>20 DEF ChainAt

----------------------------------------------------------------------------
(* Rows of the listing, and the instruction at one. *)
Lists(at, name, mode, arg) == at \in Nat /\ at < 60000 /\ <<at, name, mode, arg>> \in Listing

LEMMA Reached ==
    ASSUME core \in CoreState, ExecuteInstruction,
           NEW at, NEW name, NEW mode, NEW arg, Lists(at, name, mode, arg), core.PC = at
    PROVE  Doing(name, mode, arg)
BY Listed DEF Lists

(* The comparison: what subtracting the high bytes leaves, with over,      *)
(* less and below telling whether the difference overflows and how the     *)
(* operands compare, with a sign and without.                              *)
Outcome(over, less, below, j) ==
    /\ over = 1 <=> ~Fits(Signed(j.a) - Signed(j.b))
    /\ less = 1 <=> Signed(j.a) < Signed(j.b)
    /\ below = 1 <=> j.a < j.b
Verdict(over, less, below, p, a) ==
    /\ a \in UInt8
    /\ "C" \in p <=> below = 0
    /\ "V" \in p <=> over = 1
    /\ less = 1 <=> ~(a >= 128 <=> over = 1)
    /\ "N" \in p <=> a >= 128
Decided(less, below, p) == ("C" \in p <=> below = 0) /\ ("N" \in p <=> less = 1)

LEMMA Fitting ==
    ASSUME NEW n \in Int
    PROVE  Fits(n) <=> n >= -32768 /\ n <= 32767
<1>1. PICK lo \in Int, hi \in Int : lo = -32768 /\ hi = 32767
    OBVIOUS
<1>2. Fits(n) <=> n \in lo .. hi
    BY <1>1 DEF Fits
<1>3. n \in lo .. hi <=> n >= lo /\ n <= hi
    OBVIOUS
<1>4. (n >= lo <=> n >= -32768) /\ (n <= hi <=> n <= 32767)
    BY <1>1
<1>. QED BY <1>2, <1>3, <1>4

(* Subtracting the high bytes with the borrow of the low ones tells how    *)
(* two words compare.                                                      *)
LEMMA HighDifference ==
    ASSUME NEW j, j.a \in UInt16, j.b \in UInt16,
           NEW over \in {0, 1}, NEW less \in {0, 1}, NEW below \in {0, 1},
           Outcome(over, less, below, j),
           NEW p, "D" \notin p, "C" \in p <=> Lo(j.a) >= Lo(j.b),
           NEW r, r = Sbc(Hi(j.a), Hi(j.b), p)
    PROVE  Verdict(over, less, below, r.p, r.a)
<1>1. PICK x \in Nat, y \in Nat : x = j.a /\ y = j.b /\ x < 65536 /\ y < 65536
    BY Ranges
<1>2. PICK ah \in UInt8, al \in UInt8, bh \in UInt8, bl \in UInt8 :
          ah = Hi(x) /\ al = Lo(x) /\ bh = Hi(y) /\ bl = Lo(y)
    BY <1>1, Bytes8 DEF Hi, Lo
<1>3. /\ ah \in Nat /\ al \in Nat /\ bh \in Nat /\ bl \in Nat
      /\ ah < 256 /\ al < 256 /\ bh < 256 /\ bl < 256
      /\ x = 256 * ah + al /\ y = 256 * bh + bl
  <2>1. /\ ah \in Nat /\ al \in Nat /\ bh \in Nat /\ bl \in Nat
        /\ ah < 256 /\ al < 256 /\ bh < 256 /\ bl < 256
      BY Ranges
  <2>2. x = Word(al, ah) /\ y = Word(bl, bh)
      BY <1>1, <1>2, WordSplit DEF Hi, Lo
  <2>. QED BY <2>1, <2>2 DEF Word
<1>4. PICK sa \in Int, sb \in Int : sa = Signed8(ah) /\ sb = Signed8(bh)
    BY <1>3 DEF Signed8
<1>5. /\ sa = (IF ah < 128 THEN ah ELSE ah - 256) /\ sb = (IF bh < 128 THEN bh ELSE bh - 256)
      /\ Signed(x) = 256 * sa + al /\ Signed(y) = 256 * sb + bl
    BY <1>3, <1>4 DEF Signed8, Signed
<1>6. PICK k \in {0, 1} : k = Borrow(p) /\ k = (IF al >= bl THEN 0 ELSE 1)
    BY <1>1, <1>2 DEF Borrow, Carry
<1>7. PICK o \in {0, 1} : o = Borrow(r.p) /\ (o = 0 <=> "C" \in r.p)
  <2>1. Borrow(r.p) \in {0, 1} /\ (Borrow(r.p) = 0 <=> "C" \in r.p)
      BY DEF Borrow, Carry
  <2>. QED BY <2>1
<1>8. /\ r.a \in UInt8 /\ r.a - 256 * o = ah - bh - k
      /\ "V" \in r.p <=> sa - sb - k \notin -128 .. 127
      /\ "N" \in r.p <=> r.a >= 128
  <2>1. PICK q : q = Sbc(ah, bh, p)
      OBVIOUS
  <2>2. q = r
      BY <1>1, <1>2, <2>1
  <2>3. /\ q.a \in UInt8 /\ q.a - 256 * Borrow(q.p) = ah - bh - Borrow(p)
        /\ "V" \in q.p <=> Signed8(ah) - Signed8(bh) - Borrow(p) \notin -128 .. 127
        /\ "N" \in q.p <=> q.a >= 128
      BY <2>1, SbcBinary, SMTT(30)
  <2>. QED BY <1>4, <1>6, <1>7, <2>2, <2>3
<1>9. PICK v \in Nat : v = r.a /\ v < 256 /\ v - 256 * o = ah - bh - k
    BY <1>8, Ranges
<1>10. "C" \in r.p <=> x >= y
    BY <1>3, <1>6, <1>7, <1>9
<1>11. PICK t \in Int, d \in Int : t = sa - sb - k /\ d = Signed(x) - Signed(y)
    BY <1>3, <1>4, <1>5
<1>12. t \in -128 .. 127 <=> Fits(d)
  <2>1. d = 256 * (t + k) + (al - bl)
      BY <1>3, <1>4, <1>5, <1>11
  <2>2. /\ t >= -128 <=> d >= -32768
        /\ t <= 127 <=> d <= 32767
      BY <1>3, <1>6, <1>11, <2>1
  <2>3. Fits(d) <=> d >= -32768 /\ d <= 32767
      BY <1>11, Fitting
  <2>4. t \in -128 .. 127 <=> t >= -128 /\ t <= 127
      BY <1>11
  <2>. QED BY <1>11, <2>2, <2>3, <2>4
<1>13. d < 0 <=> t < 0
    BY <1>3, <1>5, <1>6, <1>11
<1>14. t < 0 <=> ~(v >= 128 <=> t \notin -128 .. 127)
    BY <1>3, <1>5, <1>6, <1>9, <1>11
<1>15. Signed(x) < Signed(y) <=> d < 0
    BY <1>3, <1>4, <1>5, <1>11
<1>16. over = 1 <=> t \notin -128 .. 127
    BY <1>1, <1>11, <1>12 DEF Outcome
<1>17. less = 1 <=> t < 0
    BY <1>1, <1>13, <1>15 DEF Outcome
<1>18. below = 0 <=> x >= y
    BY <1>1 DEF Outcome
<1>19. less = 1 <=> ~(r.a >= 128 <=> over = 1)
    BY <1>9, <1>14, <1>16, <1>17
<1>. QED BY <1>8, <1>10, <1>16, <1>18, <1>19, <1>11, <1>4 DEF Verdict

LEMMA TopBit ==
    ASSUME NEW a \in UInt8, NEW r, r = Xor(a, 128)
    PROVE  r >= 128 <=> ~(a >= 128)
<1>1. 128 \in UInt8 /\ 128 \in BitWeights
    BY Ranges DEF BitWeights
<1>2. r \in UInt8 /\ (HasBit(r, 128) <=> ~(HasBit(a, 128) <=> HasBit(128, 128)))
    BY <1>1, LogicExact
<1>3. ASSUME NEW v \in UInt8 PROVE HasBit(v, 128) <=> v >= 128
  <2>1. v \in Nat /\ v < 256
      BY Ranges
  <2>. QED BY <2>1 DEF HasBit
<1>. QED BY <1>1, <1>2, <1>3

CompareAt(over, less, below, j, s, d) ==
    /\ s.SP = 255
    /\ s.mem[16] = Hi(j.a)
    /\ s.mem[17] = Lo(j.a)
    /\ s.mem[18] = Hi(j.b)
    /\ s.mem[19] = Lo(j.b)
    /\ \/ At(s, d, 2176, 0)
       \/ At(s, d, 2177, 2) /\ "D" \notin s.P
       \/ At(s, d, 2179, 4) /\ "D" \notin s.P /\ s.X = 0
       \/ At(s, d, 2181, 6) /\ "D" \notin s.P /\ s.X = 0 /\ s.Y = 0
       \/ At(s, d, 2183, 9) /\ "D" \notin s.P /\ s.X = 0 /\ s.Y = 0 /\ s.A = Lo(j.a)
       \/ /\ At(s, d, 2185, 12) /\ "D" \notin s.P /\ s.X = 0 /\ s.Y = 0
          /\ ("C" \in s.P <=> Lo(j.a) >= Lo(j.b))
       \/ /\ At(s, d, 2187, 15) /\ "D" \notin s.P /\ s.X = 0 /\ s.Y = 0 /\ s.A = Hi(j.a)
          /\ ("C" \in s.P <=> Lo(j.a) >= Lo(j.b))
       \/ At(s, d, 2189, 18) /\ s.X = 0 /\ s.Y = 0 /\ Verdict(over, less, below, s.P, s.A)
       \/ /\ At(s, d, 2191, 20) /\ s.X = 0 /\ s.Y = 0 /\ Verdict(over, less, below, s.P, s.A)
          /\ over = 1
       \/ At(s, d, 2193, 21 + over) /\ s.X = 0 /\ s.Y = 0 /\ Decided(less, below, s.P)
       \/ At(s, d, 2195, 23 + over) /\ s.X = 0 /\ s.Y = 0 /\ Decided(less, below, s.P) /\ less = 1
       \/ /\ At(s, d, 2196, 24 + over + less) /\ s.X = less /\ s.Y = 0
          /\ ("C" \in s.P <=> below = 0)
       \/ At(s, d, 2198, 26 + over + less) /\ s.X = less /\ s.Y = 0 /\ below = 1
       \/ At(s, d, 2199, 27 + over + less + below) /\ s.X = less /\ s.Y = below
       \/ At(s, d, 2201, 30 + over + less + below) /\ s.X = less /\ s.mem[20] = below
       \/ At(s, d, 2203, 33 + over + less + below) /\ s.mem[20] = below /\ s.mem[21] = less
       \/ At(s, d, StopAt, 36 + over + less + below) /\ s.mem[20] = below /\ s.mem[21] = less

LEMMA CompareListed ==
    /\ Lists(2176, "CLD", "imp", 0)
    /\ Lists(2177, "LDX", "imm", 0)
    /\ Lists(2179, "LDY", "imm", 0)
    /\ Lists(2181, "LDA", "zp", 17)
    /\ Lists(2183, "CMP", "zp", 19)
    /\ Lists(2185, "LDA", "zp", 16)
    /\ Lists(2187, "SBC", "zp", 18)
    /\ Lists(2189, "BVC", "rel", 2)
    /\ Lists(2191, "EOR", "imm", 128)
    /\ Lists(2193, "BPL", "rel", 1)
    /\ Lists(2195, "INX", "imp", 0)
    /\ Lists(2196, "BCS", "rel", 1)
    /\ Lists(2198, "INY", "imp", 0)
    /\ Lists(2199, "STY", "zp", 20)
    /\ Lists(2201, "STX", "zp", 21)
    /\ Lists(2203, "JMP", "abs", StopAt)
<1>1. "compare" \in DOMAIN Texts
    BY DEF Texts
<1>2. Lists(2176, "CLD", "imp", 0)
    BY <1>1, TextsListed DEF Lists, Texts, A, B, R, Saved, Copied, Pointer,
       NmiCount, BrkCount, Vector, StopAt
<1>3. Lists(2177, "LDX", "imm", 0)
    BY <1>1, TextsListed DEF Lists, Texts, A, B, R, Saved, Copied, Pointer,
       NmiCount, BrkCount, Vector, StopAt
<1>4. Lists(2179, "LDY", "imm", 0)
    BY <1>1, TextsListed DEF Lists, Texts, A, B, R, Saved, Copied, Pointer,
       NmiCount, BrkCount, Vector, StopAt
<1>5. Lists(2181, "LDA", "zp", 17)
    BY <1>1, TextsListed DEF Lists, Texts, A, B, R, Saved, Copied, Pointer,
       NmiCount, BrkCount, Vector, StopAt
<1>6. Lists(2183, "CMP", "zp", 19)
    BY <1>1, TextsListed DEF Lists, Texts, A, B, R, Saved, Copied, Pointer,
       NmiCount, BrkCount, Vector, StopAt
<1>7. Lists(2185, "LDA", "zp", 16)
    BY <1>1, TextsListed DEF Lists, Texts, A, B, R, Saved, Copied, Pointer,
       NmiCount, BrkCount, Vector, StopAt
<1>8. Lists(2187, "SBC", "zp", 18)
    BY <1>1, TextsListed DEF Lists, Texts, A, B, R, Saved, Copied, Pointer,
       NmiCount, BrkCount, Vector, StopAt
<1>9. Lists(2189, "BVC", "rel", 2)
    BY <1>1, TextsListed DEF Lists, Texts, A, B, R, Saved, Copied, Pointer,
       NmiCount, BrkCount, Vector, StopAt
<1>10. Lists(2191, "EOR", "imm", 128)
    BY <1>1, TextsListed DEF Lists, Texts, A, B, R, Saved, Copied, Pointer,
       NmiCount, BrkCount, Vector, StopAt
<1>11. Lists(2193, "BPL", "rel", 1)
    BY <1>1, TextsListed DEF Lists, Texts, A, B, R, Saved, Copied, Pointer,
       NmiCount, BrkCount, Vector, StopAt
<1>12. Lists(2195, "INX", "imp", 0)
    BY <1>1, TextsListed DEF Lists, Texts, A, B, R, Saved, Copied, Pointer,
       NmiCount, BrkCount, Vector, StopAt
<1>13. Lists(2196, "BCS", "rel", 1)
    BY <1>1, TextsListed DEF Lists, Texts, A, B, R, Saved, Copied, Pointer,
       NmiCount, BrkCount, Vector, StopAt
<1>14. Lists(2198, "INY", "imp", 0)
    BY <1>1, TextsListed DEF Lists, Texts, A, B, R, Saved, Copied, Pointer,
       NmiCount, BrkCount, Vector, StopAt
<1>15. Lists(2199, "STY", "zp", 20)
    BY <1>1, TextsListed DEF Lists, Texts, A, B, R, Saved, Copied, Pointer,
       NmiCount, BrkCount, Vector, StopAt
<1>16. Lists(2201, "STX", "zp", 21)
    BY <1>1, TextsListed DEF Lists, Texts, A, B, R, Saved, Copied, Pointer,
       NmiCount, BrkCount, Vector, StopAt
<1>17. Lists(2203, "JMP", "abs", StopAt)
    BY <1>1, TextsListed DEF Lists, Texts, A, B, R, Saved, Copied, Pointer,
       NmiCount, BrkCount, Vector, StopAt
<1>. QED BY <1>2, <1>3, <1>4, <1>5, <1>6, <1>7, <1>8, <1>9, <1>10, <1>11, <1>12, <1>13, <1>14,
            <1>15, <1>16, <1>17

LEMMA CompareStep ==
    ASSUME core \in CoreState, ExecuteInstruction,
           NEW j, j.a \in UInt16, j.b \in UInt16, NEW over \in {0, 1}, NEW less \in {0, 1}, NEW below \in
           {0, 1}, Outcome(over, less, below, j), NEW d \in Nat, CompareAt(over, less, below, j,
           core, d), core.PC # StopAt
    PROVE  CompareAt(over, less, below, j, core', d) /\ core'.mem[NmiCount] = core.mem[NmiCount]
<1>. DEFINE Onward == CompareAt(over, less, below, j, core', d) /\ core'.mem[NmiCount] = core.mem[NmiCount]
            Unmoved == /\ core'.SP = 255
                     /\ core'.mem[16] = Hi(j.a)
                     /\ core'.mem[17] = Lo(j.a)
                     /\ core'.mem[18] = Hi(j.b)
                     /\ core'.mem[19] = Lo(j.b)
<1>. SUFFICES Onward
    OBVIOUS
<1>. HIDE DEF Onward
<1>1. /\ core.SP = 255
      /\ core.mem[16] = Hi(j.a)
      /\ core.mem[17] = Lo(j.a)
      /\ core.mem[18] = Hi(j.b)
      /\ core.mem[19] = Lo(j.b)
    BY DEF CompareAt
<1>2. core'.mem = core.mem /\ core'.SP = core.SP => Unmoved
    BY <1>1
<1>3. CASE At(core, d, 2176, 0)
  <2>1. Doing("CLD", "imp", 0)
      BY CompareListed, Reached, <1>3 DEF At
  <2>2. PICK p : p = core.P \ {"D"}
      OBVIOUS
  <2>3. Goes(core.A, core.X, core.Y, core.SP, 1, p, 2, core.mem) /\ "D" \notin p
      BY <2>1, <2>2, FlagDoes
  <2>4. At(core', d, 2177, 2)
      BY <1>3, <2>3 DEF At, Goes, GoesTo
  <2>. QED BY <1>2, <1>3, <2>3, <2>4 DEF Onward, CompareAt, Goes, GoesTo
<1>4. CASE At(core, d, 2177, 2) /\ "D" \notin core.P
  <2>1. Doing("LDX", "imm", 0)
      BY CompareListed, Reached, <1>4 DEF At
  <2>2. Goes(core.A, 0, core.Y, core.SP, 2, SetZN(core.P, 0), 2, core.mem)
      BY <2>1, LoadImm DEF Loads
  <2>3. "D" \notin SetZN(core.P, 0)
      BY <1>4, SetZNKeeps
  <2>4. At(core', d, 2179, 4)
      BY <1>4, <2>2 DEF At, Goes, GoesTo
  <2>. QED BY <1>2, <1>4, <2>2, <2>4, <2>3 DEF Onward, CompareAt, Goes, GoesTo
<1>5. CASE At(core, d, 2179, 4) /\ "D" \notin core.P /\ core.X = 0
  <2>1. Doing("LDY", "imm", 0)
      BY CompareListed, Reached, <1>5 DEF At
  <2>2. Goes(core.A, core.X, 0, core.SP, 2, SetZN(core.P, 0), 2, core.mem)
      BY <2>1, LoadImm DEF Loads
  <2>3. "D" \notin SetZN(core.P, 0)
      BY <1>5, SetZNKeeps
  <2>4. At(core', d, 2181, 6)
      BY <1>5, <2>2 DEF At, Goes, GoesTo
  <2>. QED BY <1>2, <1>5, <2>2, <2>4, <2>3 DEF Onward, CompareAt, Goes, GoesTo
<1>6. CASE At(core, d, 2181, 6) /\ "D" \notin core.P /\ core.X = 0 /\ core.Y = 0
  <2>1. Doing("LDA", "zp", 17)
      BY CompareListed, Reached, <1>6 DEF At
  <2>2. Goes(Lo(j.a), core.X, core.Y, core.SP, 2, SetZN(core.P, Lo(j.a)), 3, core.mem)
      BY <1>1, <2>1, LoadZp, Roomy DEF Loads
  <2>3. "D" \notin SetZN(core.P, Lo(j.a))
      BY <1>6, SetZNKeeps
  <2>4. At(core', d, 2183, 9)
      BY <1>6, <2>2 DEF At, Goes, GoesTo
  <2>. QED BY <1>2, <1>6, <2>2, <2>4, <2>3 DEF Onward, CompareAt, Goes, GoesTo
<1>7. CASE /\ At(core, d, 2183, 9) /\ "D" \notin core.P /\ core.X = 0 /\ core.Y = 0
           /\ core.A = Lo(j.a)
  <2>1. Doing("CMP", "zp", 19)
      BY CompareListed, Reached, <1>7 DEF At
  <2>2. Reads8("zp", 19, Lo(j.b), 2, 3)
      BY <1>1, Roomy DEF Reads8
  <2>3. PICK p : p = Compare(core.A, Lo(j.b), core.P)
      OBVIOUS
  <2>4. Goes(core.A, core.X, core.Y, core.SP, 2, p, 3, core.mem)
      BY <2>1, <2>2, <2>3, CompareDoes
  <2>5. "D" \notin p /\ ("C" \in p <=> Lo(j.a) >= Lo(j.b))
      BY <1>7, <2>3 DEF Compare, SetZN, SetFlag
  <2>6. At(core', d, 2185, 12)
      BY <1>7, <2>4 DEF At, Goes, GoesTo
  <2>. QED BY <1>2, <1>7, <2>4, <2>6, <2>5 DEF Onward, CompareAt, Goes, GoesTo
<1>8. CASE /\ At(core, d, 2185, 12) /\ "D" \notin core.P /\ core.X = 0 /\ core.Y = 0
           /\ ("C" \in core.P <=> Lo(j.a) >= Lo(j.b))
  <2>1. Doing("LDA", "zp", 16)
      BY CompareListed, Reached, <1>8 DEF At
  <2>2. Goes(Hi(j.a), core.X, core.Y, core.SP, 2, SetZN(core.P, Hi(j.a)), 3, core.mem)
      BY <1>1, <2>1, LoadZp, Roomy DEF Loads
  <2>3. "D" \notin SetZN(core.P, Hi(j.a)) /\ ("C" \in SetZN(core.P, Hi(j.a)) <=> "C" \in core.P)
      BY <1>8, SetZNKeeps
  <2>4. At(core', d, 2187, 15)
      BY <1>8, <2>2 DEF At, Goes, GoesTo
  <2>. QED BY <1>2, <1>8, <2>2, <2>4, <2>3 DEF Onward, CompareAt, Goes, GoesTo
<1>9. CASE /\ At(core, d, 2187, 15) /\ "D" \notin core.P /\ core.X = 0 /\ core.Y = 0
           /\ core.A = Hi(j.a)
           /\ ("C" \in core.P <=> Lo(j.a) >= Lo(j.b))
  <2>1. Doing("SBC", "zp", 18)
      BY CompareListed, Reached, <1>9 DEF At
  <2>2. Reads8("zp", 18, Hi(j.b), 2, 3)
      BY <1>1, Roomy DEF Reads8
  <2>3. PICK r : r = Sbc(core.A, Hi(j.b), core.P)
      OBVIOUS
  <2>4. Goes(r.a, core.X, core.Y, core.SP, 2, r.p, 3, core.mem)
      BY <2>1, <2>2, <2>3, SumDoes
  <2>5. Verdict(over, less, below, r.p, r.a)
      BY <1>9, <2>3, HighDifference
  <2>6. At(core', d, 2189, 18)
      BY <1>9, <2>4 DEF At, Goes, GoesTo
  <2>. QED BY <1>2, <1>9, <2>4, <2>6, <2>5 DEF Onward, CompareAt, Goes, GoesTo
<1>10. CASE /\ At(core, d, 2189, 18) /\ core.X = 0 /\ core.Y = 0
            /\ Verdict(over, less, below, core.P, core.A)
  <2>1. Doing("BVC", "rel", 2)
      BY CompareListed, Reached, <1>10 DEF At
  <2>2. 2193 = Target(2) /\ 3 = Paid(2193)
      BY <1>10 DEF Target, Paid, At, PageOf
  <2>3. CASE "V" \notin core.P
    <3>1. GoesTo(core.A, core.X, core.Y, core.SP, 2193, core.P, 3, core.mem)
        BY <2>1, <2>2, <2>3, BranchDoes DEF Branching
    <3>2. Decided(less, below, core.P) /\ over = 0
        BY <1>10, <2>3 DEF Verdict, Decided
    <3>3. At(core', d, 2193, 21 + over)
        BY <1>10, <3>1, <3>2 DEF At, GoesTo
    <3>. QED BY <1>2, <1>10, <3>1, <3>2, <3>3 DEF Onward, CompareAt, GoesTo
  <2>4. CASE "V" \in core.P
    <3>1. Goes(core.A, core.X, core.Y, core.SP, 2, core.P, 2, core.mem)
        BY <2>1, <2>2, <2>4, BranchDoes DEF Branching
    <3>2. over = 1
        BY <1>10, <2>4 DEF Verdict, Decided
    <3>3. At(core', d, 2191, 20)
        BY <1>10, <3>1, <3>2 DEF At, Goes, GoesTo
    <3>. QED BY <1>2, <1>10, <3>1, <3>2, <3>3 DEF Onward, CompareAt, Goes, GoesTo
  <2>. QED BY <2>3, <2>4
<1>11. CASE /\ At(core, d, 2191, 20) /\ core.X = 0 /\ core.Y = 0
            /\ Verdict(over, less, below, core.P, core.A) /\ over = 1
  <2>1. Doing("EOR", "imm", 128)
      BY CompareListed, Reached, <1>11 DEF At
  <2>2. PICK r : r = Xor(core.A, 128)
      OBVIOUS
  <2>3. Goes(r, core.X, core.Y, core.SP, 2, SetZN(core.P, r), 2, core.mem)
      BY <2>1, <2>2, LogicDoes DEF Reads8
  <2>4. r >= 128 <=> ~(core.A >= 128)
      BY <1>11, <2>2, TopBit DEF Verdict
  <2>5. Decided(less, below, SetZN(core.P, r)) /\ over = 1
      BY <1>11, <2>4, SetZNSets, SetZNKeeps DEF Verdict, Decided
  <2>6. At(core', d, 2193, 21 + over)
      BY <1>11, <2>3, <2>5 DEF At, Goes, GoesTo
  <2>. QED BY <1>2, <1>11, <2>3, <2>6, <2>5 DEF Onward, CompareAt, Goes, GoesTo
<1>12. CASE /\ At(core, d, 2193, 21 + over) /\ core.X = 0 /\ core.Y = 0
            /\ Decided(less, below, core.P)
  <2>1. Doing("BPL", "rel", 1)
      BY CompareListed, Reached, <1>12 DEF At
  <2>2. 2196 = Target(1) /\ 3 = Paid(2196)
      BY <1>12 DEF Target, Paid, At, PageOf
  <2>3. CASE "N" \notin core.P
    <3>1. GoesTo(core.A, core.X, core.Y, core.SP, 2196, core.P, 3, core.mem)
        BY <2>1, <2>2, <2>3, BranchDoes DEF Branching
    <3>2. less = 0 /\ ("C" \in core.P <=> below = 0)
        BY <1>12, <2>3 DEF Decided
    <3>3. At(core', d, 2196, 24 + over + less)
        BY <1>12, <3>1, <3>2 DEF At, GoesTo
    <3>. QED BY <1>2, <1>12, <3>1, <3>2, <3>3 DEF Onward, CompareAt, GoesTo
  <2>4. CASE "N" \in core.P
    <3>1. Goes(core.A, core.X, core.Y, core.SP, 2, core.P, 2, core.mem)
        BY <2>1, <2>2, <2>4, BranchDoes DEF Branching
    <3>2. less = 1
        BY <1>12, <2>4 DEF Decided
    <3>3. At(core', d, 2195, 23 + over)
        BY <1>12, <3>1, <3>2 DEF At, Goes, GoesTo
    <3>. QED BY <1>2, <1>12, <3>1, <3>2, <3>3 DEF Onward, CompareAt, Goes, GoesTo
  <2>. QED BY <2>3, <2>4
<1>13. CASE /\ At(core, d, 2195, 23 + over) /\ core.X = 0 /\ core.Y = 0
            /\ Decided(less, below, core.P) /\ less = 1
  <2>1. Doing("INX", "imp", 0)
      BY CompareListed, Reached, <1>13 DEF At
  <2>2. (core.X + 1) % 256 = 1
      BY <1>13
  <2>3. Goes(core.A, 1, core.Y, core.SP, 1, SetZN(core.P, 1), 2, core.mem)
      BY <2>1, <2>2, CountDoes
  <2>4. ("C" \in SetZN(core.P, 1) <=> below = 0) /\ less = 1
      BY <1>13, SetZNKeeps DEF Decided
  <2>5. At(core', d, 2196, 24 + over + less)
      BY <1>13, <2>3, <2>4 DEF At, Goes, GoesTo
  <2>. QED BY <1>2, <1>13, <2>3, <2>5, <2>4 DEF Onward, CompareAt, Goes, GoesTo
<1>14. CASE /\ At(core, d, 2196, 24 + over + less) /\ core.X = less /\ core.Y = 0
            /\ ("C" \in core.P <=> below = 0)
  <2>1. Doing("BCS", "rel", 1)
      BY CompareListed, Reached, <1>14 DEF At
  <2>2. 2199 = Target(1) /\ 3 = Paid(2199)
      BY <1>14 DEF Target, Paid, At, PageOf
  <2>3. CASE "C" \in core.P
    <3>1. GoesTo(core.A, core.X, core.Y, core.SP, 2199, core.P, 3, core.mem)
        BY <2>1, <2>2, <2>3, BranchDoes DEF Branching
    <3>2. below = 0
        BY <1>14, <2>3
    <3>3. At(core', d, 2199, 27 + over + less + below)
        BY <1>14, <3>1, <3>2 DEF At, GoesTo
    <3>. QED BY <1>2, <1>14, <3>1, <3>2, <3>3 DEF Onward, CompareAt, GoesTo
  <2>4. CASE "C" \notin core.P
    <3>1. Goes(core.A, core.X, core.Y, core.SP, 2, core.P, 2, core.mem)
        BY <2>1, <2>2, <2>4, BranchDoes DEF Branching
    <3>2. below = 1
        BY <1>14, <2>4
    <3>3. At(core', d, 2198, 26 + over + less)
        BY <1>14, <3>1, <3>2 DEF At, Goes, GoesTo
    <3>. QED BY <1>2, <1>14, <3>1, <3>2, <3>3 DEF Onward, CompareAt, Goes, GoesTo
  <2>. QED BY <2>3, <2>4
<1>15. CASE At(core, d, 2198, 26 + over + less) /\ core.X = less /\ core.Y = 0 /\ below = 1
  <2>1. Doing("INY", "imp", 0)
      BY CompareListed, Reached, <1>15 DEF At
  <2>2. (core.Y + 1) % 256 = 1
      BY <1>15
  <2>3. Goes(core.A, core.X, 1, core.SP, 1, SetZN(core.P, 1), 2, core.mem)
      BY <2>1, <2>2, CountDoes
  <2>4. At(core', d, 2199, 27 + over + less + below)
      BY <1>15, <2>3 DEF At, Goes, GoesTo
  <2>. QED BY <1>2, <1>15, <2>3, <2>4 DEF Onward, CompareAt, Goes, GoesTo
<1>16. CASE At(core, d, 2199, 27 + over + less + below) /\ core.X = less /\ core.Y = below
  <2>1. Doing("STY", "zp", 20)
      BY CompareListed, Reached, <1>16 DEF At
  <2>2. Goes(core.A, core.X, core.Y, core.SP, 2, core.P, 3, Wrote(core.mem, 20, core.Y))
      BY <2>1, StoreZp, Roomy DEF Stores
  <2>3. /\ Unmoved /\ core'.mem[20] = core.Y
         /\ core'.mem[NmiCount] = core.mem[NmiCount]
      BY <1>1, <2>2, Roomy, Parts, Written DEF Goes, GoesTo, NmiCount
  <2>4. At(core', d, 2201, 30 + over + less + below)
      BY <1>16, <2>2 DEF At, Goes, GoesTo
  <2>. QED BY <1>16, <2>2, <2>4, <2>3 DEF Onward, CompareAt, Goes, GoesTo
<1>17. CASE At(core, d, 2201, 30 + over + less + below) /\ core.X = less /\ core.mem[20] = below
  <2>1. Doing("STX", "zp", 21)
      BY CompareListed, Reached, <1>17 DEF At
  <2>2. Goes(core.A, core.X, core.Y, core.SP, 2, core.P, 3, Wrote(core.mem, 21, core.X))
      BY <2>1, StoreZp, Roomy DEF Stores
  <2>3. /\ Unmoved /\ core'.mem[21] = core.X /\ core'.mem[20] = core.mem[20]
         /\ core'.mem[NmiCount] = core.mem[NmiCount]
      BY <1>1, <2>2, Roomy, Parts, Written DEF Goes, GoesTo, NmiCount
  <2>4. At(core', d, 2203, 33 + over + less + below)
      BY <1>17, <2>2 DEF At, Goes, GoesTo
  <2>. QED BY <1>17, <2>2, <2>4, <2>3 DEF Onward, CompareAt, Goes, GoesTo
<1>18. CASE /\ At(core, d, 2203, 33 + over + less + below) /\ core.mem[20] = below
            /\ core.mem[21] = less
  <2>1. Doing("JMP", "abs", StopAt)
      BY CompareListed, Reached, <1>18 DEF At
  <2>2. GoesTo(core.A, core.X, core.Y, core.SP, StopAt, core.P, 3, core.mem)
      BY <2>1, JumpDoes
  <2>3. At(core', d, StopAt, 36 + over + less + below)
      BY <1>18, <2>2 DEF At, Goes, GoesTo
  <2>. QED BY <1>2, <1>18, <2>2, <2>3 DEF Onward, CompareAt, Goes, GoesTo
<1>19. ~At(core, d, StopAt, 36 + over + less + below)
    BY DEF At
<1>. QED BY <1>3, <1>4, <1>5, <1>6, <1>7, <1>8, <1>9, <1>10, <1>11, <1>12, <1>13, <1>14, <1>15,
            <1>16, <1>17, <1>18, <1>19 DEF CompareAt

----------------------------------------------------------------------------
(* The multiplication.  With x turns left, a scale of 2^(8 - x) tells the  *)
(* part of the first operand that is still to come.                        *)
Scale(x) ==
    IF x = 8 THEN 1 ELSE IF x = 7 THEN 2 ELSE IF x = 6 THEN 4 ELSE IF x = 5 THEN 8
    ELSE IF x = 4 THEN 16 ELSE IF x = 3 THEN 32 ELSE IF x = 2 THEN 64 ELSE IF x = 1 THEN 128
    ELSE 256
Rest(a, x) == a \div Scale(x)
NextBit(a, x) == Rest(a, x) % 2
Ones(v) == Cardinality(Bits(v))
Spent(a, x) == Ones(a) - Ones(Rest(a, x))
Times(v, w) == v * w

(* l is the part of the low byte that is already there; low holds it above *)
(* the rest of the first operand.                                          *)
Turn(a, b, x, acc, low) ==
    \E l \in Nat :
        /\ l < Scale(x)
        /\ low = l * (256 \div Scale(x)) + (Rest(a, x) \div 2)
        /\ acc * Scale(x) + l + Scale(x) * Times(Rest(a, x), b) = Times(a, b)
Added(a, b, x, sum, low) ==
    \E l \in Nat :
        /\ l < Scale(x)
        /\ low = l * (256 \div Scale(x)) + (Rest(a, x) \div 2)
        /\ sum * Scale(x) + l + 2 * (Scale(x) * Times(Rest(a, x - 1), b)) = Times(a, b)

LEMMA Scaled ==
    ASSUME NEW x \in 1 .. 8
    PROVE  \/ x = 8 /\ Scale(x) = 1 /\ Scale(x - 1) = 2
           \/ x = 7 /\ Scale(x) = 2 /\ Scale(x - 1) = 4
           \/ x = 6 /\ Scale(x) = 4 /\ Scale(x - 1) = 8
           \/ x = 5 /\ Scale(x) = 8 /\ Scale(x - 1) = 16
           \/ x = 4 /\ Scale(x) = 16 /\ Scale(x - 1) = 32
           \/ x = 3 /\ Scale(x) = 32 /\ Scale(x - 1) = 64
           \/ x = 2 /\ Scale(x) = 64 /\ Scale(x - 1) = 128
           \/ x = 1 /\ Scale(x) = 128 /\ Scale(x - 1) = 256
BY DEF Scale

LEMMA RestHalves ==
    ASSUME NEW a \in UInt8, NEW x \in 1 .. 8
    PROVE  /\ Rest(a, x) \in Nat /\ Rest(a, x - 1) \in Nat /\ Rest(a, x) < 256
           /\ Rest(a, x - 1) = Rest(a, x) \div 2 /\ NextBit(a, x) \in {0, 1}
           /\ Rest(a, x) = 2 * Rest(a, x - 1) + NextBit(a, x)
<1>1. a \in Nat /\ a < 256
    BY Ranges
<1>2. Rest(a, x) \in Nat /\ Rest(a, x) < 256
    BY <1>1, Scaled DEF Rest
<1>3. Rest(a, x - 1) = Rest(a, x) \div 2
    BY <1>1, Scaled DEF Rest
<1>. QED BY <1>2, <1>3 DEF NextBit

LEMMA TimesHalves ==
    ASSUME NEW v \in Nat, NEW h \in Nat, NEW b \in Nat
    PROVE  /\ Times(v, b) \in Nat /\ Times(h, b) \in Nat
           /\ v = 2 * h => Times(v, b) = 2 * Times(h, b)
           /\ v = 2 * h + 1 => Times(v, b) = 2 * Times(h, b) + b
<1>1. Times(v, b) \in Nat /\ Times(h, b) \in Nat
    BY DEF Times
<1>2. ASSUME v = 2 * h PROVE Times(v, b) = 2 * Times(h, b)
    BY <1>1, <1>2 DEF Times
<1>3. ASSUME v = 2 * h + 1 PROVE Times(v, b) = 2 * Times(h, b) + b
    BY <1>1, <1>3 DEF Times
<1>. QED BY <1>1, <1>2, <1>3

LEMMA TimesRest ==
    ASSUME NEW a \in UInt8, NEW b \in Nat, NEW x \in 1 .. 8
    PROVE  /\ Times(Rest(a, x), b) \in Nat /\ Times(Rest(a, x - 1), b) \in Nat
           /\ NextBit(a, x) = 0 => Times(Rest(a, x), b) = 2 * Times(Rest(a, x - 1), b)
           /\ NextBit(a, x) = 1 => Times(Rest(a, x), b) = 2 * Times(Rest(a, x - 1), b) + b
<1>1. PICK v \in Nat : v = Rest(a, x)
    BY RestHalves
<1>2. PICK h \in Nat : h = Rest(a, x - 1)
    BY RestHalves
<1>3. (NextBit(a, x) = 0 => v = 2 * h) /\ (NextBit(a, x) = 1 => v = 2 * h + 1)
    BY <1>1, <1>2, RestHalves
<1>4. /\ Times(v, b) \in Nat /\ Times(h, b) \in Nat
      /\ v = 2 * h => Times(v, b) = 2 * Times(h, b)
      /\ v = 2 * h + 1 => Times(v, b) = 2 * Times(h, b) + b
    BY TimesHalves
<1>. QED BY <1>1, <1>2, <1>3, <1>4

LEMMA Adds ==
    ASSUME NEW a \in UInt8, NEW b \in UInt8, NEW x \in 1 .. 8, NEW acc \in UInt8, NEW low,
           Turn(a, b, x, acc, low), NEW sum \in Nat,
           sum = IF NextBit(a, x) = 1 THEN acc + b ELSE acc
    PROVE  Added(a, b, x, sum, low)
<1>1. PICK l \in Nat : /\ l < Scale(x)
                       /\ low = l * (256 \div Scale(x)) + (Rest(a, x) \div 2)
                       /\ acc * Scale(x) + l + Scale(x) * Times(Rest(a, x), b) = Times(a, b)
    BY DEF Turn
<1>2. b \in Nat /\ acc \in Nat
    BY Ranges
<1>3. PICK t \in Nat, h \in Nat : /\ t = Times(Rest(a, x), b) /\ h = Times(Rest(a, x - 1), b)
                                  /\ NextBit(a, x) = 0 => t = 2 * h
                                  /\ NextBit(a, x) = 1 => t = 2 * h + b
  <2>1. PICK t \in Nat : t = Times(Rest(a, x), b)
      BY <1>2, TimesRest
  <2>2. PICK h \in Nat : h = Times(Rest(a, x - 1), b)
      BY <1>2, TimesRest
  <2>3. /\ NextBit(a, x) = 0 => t = 2 * h
        /\ NextBit(a, x) = 1 => t = 2 * h + b
      BY <1>2, <2>1, <2>2, TimesRest
  <2>. QED BY <2>1, <2>2, <2>3
<1>4. PICK all : all = Times(a, b)
    OBVIOUS
<1>5. acc * Scale(x) + l + Scale(x) * t = all
    BY <1>1, <1>3, <1>4
<1>6. acc + t = sum + 2 * h
    BY <1>2, <1>3, RestHalves
<1>7. sum * Scale(x) + l + 2 * (Scale(x) * h) = all
    BY <1>2, <1>3, <1>5, <1>6, Scaled
<1>. QED BY <1>1, <1>3, <1>4, <1>7 DEF Added

LEMMA Rotates ==
    ASSUME NEW a \in UInt8, NEW b \in UInt8, NEW x \in 1 .. 8, NEW sum \in Nat, NEW low,
           Added(a, b, x, sum, low), NEW c \in {0, 1}, NEW acc \in Nat, sum = 2 * acc + c,
           NEW after, after = (low \div 2) + 128 * c
    PROVE  Turn(a, b, x - 1, acc, after) /\ low % 2 = NextBit(a, x - 1)
<1>1. PICK l \in Nat : /\ l < Scale(x)
                       /\ low = l * (256 \div Scale(x)) + (Rest(a, x) \div 2)
                       /\ sum * Scale(x) + l + 2 * (Scale(x) * Times(Rest(a, x - 1), b)) = Times(a, b)
    BY DEF Added
<1>2. PICK rest \in Nat : rest = Rest(a, x - 1) /\ rest = Rest(a, x) \div 2
    BY RestHalves
<1>3. sum = 2 * acc + c
    OBVIOUS
<1>4. PICK h \in Nat : h = Times(rest, b)
    BY <1>2, Ranges DEF Times
<1>5. PICK all : all = Times(a, b)
    OBVIOUS
<1>6. /\ low = l * (256 \div Scale(x)) + rest
      /\ sum * Scale(x) + l + 2 * (Scale(x) * h) = all
    BY <1>1, <1>2, <1>4, <1>5
<1>7. PICK more \in Nat : more = l + c * Scale(x) /\ more < Scale(x - 1)
    BY <1>1, Scaled
<1>8. acc * Scale(x - 1) + more + Scale(x - 1) * h = all
  <2>1. CASE x = 8
      BY <1>3, <1>4, <1>6, <1>7, <2>1 DEF Scale
  <2>2. CASE x = 7
      BY <1>3, <1>4, <1>6, <1>7, <2>2 DEF Scale
  <2>3. CASE x = 6
      BY <1>3, <1>4, <1>6, <1>7, <2>3 DEF Scale
  <2>4. CASE x = 5
      BY <1>3, <1>4, <1>6, <1>7, <2>4 DEF Scale
  <2>5. CASE x = 4
      BY <1>3, <1>4, <1>6, <1>7, <2>5 DEF Scale
  <2>6. CASE x = 3
      BY <1>3, <1>4, <1>6, <1>7, <2>6 DEF Scale
  <2>7. CASE x = 2
      BY <1>3, <1>4, <1>6, <1>7, <2>7 DEF Scale
  <2>8. CASE x = 1
    <3>1. Scale(x) = 128 /\ Scale(x - 1) = 256
        BY <2>8 DEF Scale
    <3>2. sum * 128 + l + 2 * (128 * h) = all /\ more = l + c * 128
        BY <1>6, <1>7, <3>1
    <3>3. acc * 256 + more + 256 * h = all
        BY <1>3, <1>4, <3>2
    <3>. QED BY <3>1, <3>3
  <2>. QED BY <2>1, <2>2, <2>3, <2>4, <2>5, <2>6, <2>7, <2>8
<1>9. PICK half \in Nat, odd \in {0, 1} :
          rest = 2 * half + odd /\ half = rest \div 2 /\ odd = rest % 2
    OBVIOUS
<1>10. after = more * (256 \div Scale(x - 1)) + (rest \div 2) /\ low % 2 = rest % 2
  <2>1. CASE x = 8
    <3>1. Scale(x) = 1 /\ Scale(x - 1) = 2 /\ 256 \div Scale(x) = 256 /\ 256 \div Scale(x - 1) = 128
        BY <2>1 DEF Scale
    <3>2. low = 256 * l + rest /\ low \in Nat /\ more = l + 1 * c
        BY <1>6, <1>7, <3>1
    <3>3. PICK y \in Nat : y = 128 * l + half
        OBVIOUS
    <3>4. low = 2 * y + odd
        BY <1>9, <3>2, <3>3
    <3>5. low \div 2 = y /\ low % 2 = odd
        BY <3>2, <3>4
    <3>6. after = 128 * more + half
        BY <3>2, <3>3, <3>5
    <3>. QED BY <1>9, <3>1, <3>5, <3>6
  <2>2. CASE x = 7
    <3>1. Scale(x) = 2 /\ Scale(x - 1) = 4 /\ 256 \div Scale(x) = 128 /\ 256 \div Scale(x - 1) = 64
        BY <2>2 DEF Scale
    <3>2. low = 128 * l + rest /\ low \in Nat /\ more = l + 2 * c
        BY <1>6, <1>7, <3>1
    <3>3. PICK y \in Nat : y = 64 * l + half
        OBVIOUS
    <3>4. low = 2 * y + odd
        BY <1>9, <3>2, <3>3
    <3>5. low \div 2 = y /\ low % 2 = odd
        BY <3>2, <3>4
    <3>6. after = 64 * more + half
        BY <3>2, <3>3, <3>5
    <3>. QED BY <1>9, <3>1, <3>5, <3>6
  <2>3. CASE x = 6
    <3>1. Scale(x) = 4 /\ Scale(x - 1) = 8 /\ 256 \div Scale(x) = 64 /\ 256 \div Scale(x - 1) = 32
        BY <2>3 DEF Scale
    <3>2. low = 64 * l + rest /\ low \in Nat /\ more = l + 4 * c
        BY <1>6, <1>7, <3>1
    <3>3. PICK y \in Nat : y = 32 * l + half
        OBVIOUS
    <3>4. low = 2 * y + odd
        BY <1>9, <3>2, <3>3
    <3>5. low \div 2 = y /\ low % 2 = odd
        BY <3>2, <3>4
    <3>6. after = 32 * more + half
        BY <3>2, <3>3, <3>5
    <3>. QED BY <1>9, <3>1, <3>5, <3>6
  <2>4. CASE x = 5
    <3>1. Scale(x) = 8 /\ Scale(x - 1) = 16 /\ 256 \div Scale(x) = 32 /\ 256 \div Scale(x - 1) = 16
        BY <2>4 DEF Scale
    <3>2. low = 32 * l + rest /\ low \in Nat /\ more = l + 8 * c
        BY <1>6, <1>7, <3>1
    <3>3. PICK y \in Nat : y = 16 * l + half
        OBVIOUS
    <3>4. low = 2 * y + odd
        BY <1>9, <3>2, <3>3
    <3>5. low \div 2 = y /\ low % 2 = odd
        BY <3>2, <3>4
    <3>6. after = 16 * more + half
        BY <3>2, <3>3, <3>5
    <3>. QED BY <1>9, <3>1, <3>5, <3>6
  <2>5. CASE x = 4
    <3>1. Scale(x) = 16 /\ Scale(x - 1) = 32 /\ 256 \div Scale(x) = 16 /\ 256 \div Scale(x - 1) = 8
        BY <2>5 DEF Scale
    <3>2. low = 16 * l + rest /\ low \in Nat /\ more = l + 16 * c
        BY <1>6, <1>7, <3>1
    <3>3. PICK y \in Nat : y = 8 * l + half
        OBVIOUS
    <3>4. low = 2 * y + odd
        BY <1>9, <3>2, <3>3
    <3>5. low \div 2 = y /\ low % 2 = odd
        BY <3>2, <3>4
    <3>6. after = 8 * more + half
        BY <3>2, <3>3, <3>5
    <3>. QED BY <1>9, <3>1, <3>5, <3>6
  <2>6. CASE x = 3
    <3>1. Scale(x) = 32 /\ Scale(x - 1) = 64 /\ 256 \div Scale(x) = 8 /\ 256 \div Scale(x - 1) = 4
        BY <2>6 DEF Scale
    <3>2. low = 8 * l + rest /\ low \in Nat /\ more = l + 32 * c
        BY <1>6, <1>7, <3>1
    <3>3. PICK y \in Nat : y = 4 * l + half
        OBVIOUS
    <3>4. low = 2 * y + odd
        BY <1>9, <3>2, <3>3
    <3>5. low \div 2 = y /\ low % 2 = odd
        BY <3>2, <3>4
    <3>6. after = 4 * more + half
        BY <3>2, <3>3, <3>5
    <3>. QED BY <1>9, <3>1, <3>5, <3>6
  <2>7. CASE x = 2
    <3>1. Scale(x) = 64 /\ Scale(x - 1) = 128 /\ 256 \div Scale(x) = 4 /\ 256 \div Scale(x - 1) = 2
        BY <2>7 DEF Scale
    <3>2. low = 4 * l + rest /\ low \in Nat /\ more = l + 64 * c
        BY <1>6, <1>7, <3>1
    <3>3. PICK y \in Nat : y = 2 * l + half
        OBVIOUS
    <3>4. low = 2 * y + odd
        BY <1>9, <3>2, <3>3
    <3>5. low \div 2 = y /\ low % 2 = odd
        BY <3>2, <3>4
    <3>6. after = 2 * more + half
        BY <3>2, <3>3, <3>5
    <3>. QED BY <1>9, <3>1, <3>5, <3>6
  <2>8. CASE x = 1
    <3>1. Scale(x) = 128 /\ Scale(x - 1) = 256 /\ 256 \div Scale(x) = 2 /\ 256 \div Scale(x - 1) = 1
        BY <2>8 DEF Scale
    <3>2. low = 2 * l + rest /\ low \in Nat /\ more = l + 128 * c
        BY <1>6, <1>7, <3>1
    <3>3. PICK y \in Nat : y = 1 * l + half
        OBVIOUS
    <3>4. low = 2 * y + odd
        BY <1>9, <3>2, <3>3
    <3>5. low \div 2 = y /\ low % 2 = odd
        BY <3>2, <3>4
    <3>6. after = 1 * more + half
        BY <3>2, <3>3, <3>5
    <3>. QED BY <1>9, <3>1, <3>5, <3>6
  <2>. QED BY <2>1, <2>2, <2>3, <2>4, <2>5, <2>6, <2>7, <2>8
<1>. QED BY <1>2, <1>4, <1>5, <1>7, <1>8, <1>10 DEF Turn, NextBit

LEMMA LastTurn ==
    ASSUME NEW a \in UInt8, NEW b \in UInt8, NEW acc \in UInt8, NEW low, Turn(a, b, 0, acc, low)
    PROVE  256 * acc + low = a * b
<1>1. a \in Nat /\ a < 256 /\ b \in Nat /\ acc \in Nat
    BY Ranges
<1>2. Scale(0) = 256 /\ Rest(a, 0) = 0
    BY <1>1 DEF Scale, Rest
<1>3. Times(0, b) = 0 /\ Times(a, b) = a * b
    BY <1>1 DEF Times
<1>. QED BY <1>1, <1>2, <1>3 DEF Turn

----------------------------------------------------------------------------
(* The number of ones in a byte.                                           *)
LEMMA Without ==
    ASSUME NEW S, IsFiniteSet(S), NEW e, NEW n \in {0, 1}, n = 1 <=> e \in S
    PROVE  IsFiniteSet(S \ {e}) /\ Cardinality(S) = Cardinality(S \ {e}) + n
<1>1. Cardinality(S) \in Nat
    BY FS_CardinalityType
<1>2. CASE e \in S
    BY <1>1, <1>2, FS_RemoveElement
<1>3. CASE e \notin S
  <2>1. S \ {e} = S
      BY <1>3
  <2>2. n = 0
      BY <1>3
  <2>. QED BY <1>1, <2>1, <2>2
<1>. QED BY <1>2, <1>3

LEMMA OnesCounted ==
    ASSUME NEW b0 \in {0, 1}, NEW b1 \in {0, 1}, NEW b2 \in {0, 1}, NEW b3 \in {0, 1},
           NEW b4 \in {0, 1}, NEW b5 \in {0, 1}, NEW b6 \in {0, 1}, NEW b7 \in {0, 1},
           NEW v, v = Weighed(b0, b1, b2, b3, b4, b5, b6, b7)
    PROVE  Ones(v) = b0 + b1 + b2 + b3 + b4 + b5 + b6 + b7
<1>1. PICK S : S = Bits(v)
    OBVIOUS
<1>2. S \subseteq {1, 2, 4, 8, 16, 32, 64, 128}
    BY <1>1 DEF Bits
<1>3. IsFiniteSet({1, 2, 4, 8, 16, 32, 64, 128})
  <2>1. PICK m \in Int, n \in Int : m = 1 /\ n = 128
      OBVIOUS
  <2>2. IsFiniteSet(m .. n)
      BY FS_Interval
  <2>3. {1, 2, 4, 8, 16, 32, 64, 128} \subseteq m .. n
      BY <2>1
  <2>. QED BY <2>2, <2>3, FS_Subset
<1>4. IsFiniteSet(S)
    BY <1>2, <1>3, FS_Subset
<1>5. /\ (1 \in S <=> b0 = 1) /\ (2 \in S <=> b1 = 1) /\ (4 \in S <=> b2 = 1)
      /\ (8 \in S <=> b3 = 1) /\ (16 \in S <=> b4 = 1) /\ (32 \in S <=> b5 = 1)
      /\ (64 \in S <=> b6 = 1) /\ (128 \in S <=> b7 = 1)
    BY <1>1, BitsRead DEF Bits
<1>6. PICK S1 : S1 = S \ {1}
    OBVIOUS
<1>7. PICK S2 : S2 = S1 \ {2}
    OBVIOUS
<1>8. PICK S3 : S3 = S2 \ {4}
    OBVIOUS
<1>9. PICK S4 : S4 = S3 \ {8}
    OBVIOUS
<1>10. PICK S5 : S5 = S4 \ {16}
    OBVIOUS
<1>11. PICK S6 : S6 = S5 \ {32}
    OBVIOUS
<1>12. PICK S7 : S7 = S6 \ {64}
    OBVIOUS
<1>13. PICK S8 : S8 = S7 \ {128}
    OBVIOUS
<1>14. S8 = {}
    BY <1>2, <1>6, <1>7, <1>8, <1>9, <1>10, <1>11, <1>12, <1>13
<1>15. IsFiniteSet(S1) /\ Cardinality(S) = Cardinality(S1) + b0
    BY <1>4, <1>5, <1>6, Without
<1>16. IsFiniteSet(S2) /\ Cardinality(S1) = Cardinality(S2) + b1
  <2>1. 2 \in S1 <=> b1 = 1
      BY <1>5, <1>6
  <2>. QED BY <1>7, <1>15, <2>1, Without
<1>17. IsFiniteSet(S3) /\ Cardinality(S2) = Cardinality(S3) + b2
  <2>1. 4 \in S2 <=> b2 = 1
      BY <1>5, <1>6, <1>7
  <2>. QED BY <1>8, <1>16, <2>1, Without
<1>18. IsFiniteSet(S4) /\ Cardinality(S3) = Cardinality(S4) + b3
  <2>1. 8 \in S3 <=> b3 = 1
      BY <1>5, <1>6, <1>7, <1>8
  <2>. QED BY <1>9, <1>17, <2>1, Without
<1>19. IsFiniteSet(S5) /\ Cardinality(S4) = Cardinality(S5) + b4
  <2>1. 16 \in S4 <=> b4 = 1
      BY <1>5, <1>6, <1>7, <1>8, <1>9
  <2>. QED BY <1>10, <1>18, <2>1, Without
<1>20. IsFiniteSet(S6) /\ Cardinality(S5) = Cardinality(S6) + b5
  <2>1. 32 \in S5 <=> b5 = 1
      BY <1>5, <1>6, <1>7, <1>8, <1>9, <1>10
  <2>. QED BY <1>11, <1>19, <2>1, Without
<1>21. IsFiniteSet(S7) /\ Cardinality(S6) = Cardinality(S7) + b6
  <2>1. 64 \in S6 <=> b6 = 1
      BY <1>5, <1>6, <1>7, <1>8, <1>9, <1>10, <1>11
  <2>. QED BY <1>12, <1>20, <2>1, Without
<1>22. IsFiniteSet(S8) /\ Cardinality(S7) = Cardinality(S8) + b7
  <2>1. 128 \in S7 <=> b7 = 1
      BY <1>5, <1>6, <1>7, <1>8, <1>9, <1>10, <1>11, <1>12
  <2>. QED BY <1>13, <1>21, <2>1, Without
<1>23. Cardinality(S8) = 0
    BY <1>14, FS_EmptySet
<1>24. Cardinality(S7) = b7
    BY <1>22, <1>23
<1>25. Cardinality(S5) = b5 + b6 + b7
    BY <1>20, <1>21, <1>24
<1>26. Cardinality(S3) = b3 + b4 + b5 + b6 + b7
    BY <1>18, <1>19, <1>25
<1>27. Cardinality(S) = b0 + b1 + b2 + b3 + b4 + b5 + b6 + b7
    BY <1>15, <1>16, <1>17, <1>26
<1>. QED BY <1>1, <1>27 DEF Ones

LEMMA OnesHalve ==
    ASSUME NEW v \in Nat, v < 256, NEW h \in Nat, NEW bit \in {0, 1}, v = 2 * h + bit
    PROVE  Ones(v) = Ones(h) + bit /\ Ones(v) \in Nat /\ Ones(h) \in Nat
<1>1. PICK b0 \in {0, 1}, b1 \in {0, 1}, b2 \in {0, 1}, b3 \in {0, 1},
           b4 \in {0, 1}, b5 \in {0, 1}, b6 \in {0, 1}, b7 \in {0, 1} :
               v = Weighed(b0, b1, b2, b3, b4, b5, b6, b7)
    BY Ranges, ByteOfBits
<1>2. bit = b0 /\ h = Weighed(b1, b2, b3, b4, b5, b6, b7, 0)
    BY <1>1 DEF Weighed
<1>3. Ones(v) = b0 + b1 + b2 + b3 + b4 + b5 + b6 + b7
    BY <1>1, OnesCounted
<1>4. Ones(h) = b1 + b2 + b3 + b4 + b5 + b6 + b7 + 0
    BY <1>2, OnesCounted
<1>. QED BY <1>2, <1>3, <1>4

LEMMA OnesTyped ==
    ASSUME NEW a \in UInt8
    PROVE  Ones(a) \in Nat
<1>1. a \in Nat /\ a < 256
    BY Ranges
<1>2. a \div 2 \in Nat /\ a % 2 \in {0, 1} /\ a = 2 * (a \div 2) + (a % 2)
    BY <1>1
<1>. QED BY <1>1, <1>2, OnesHalve

LEMMA FirstTurn ==
    ASSUME NEW a \in UInt8, NEW b \in UInt8
    PROVE  /\ Turn(a, b, 8, 0, a \div 2)
           /\ NextBit(a, 8) = a % 2 /\ Spent(a, 8) = 0
<1>1. a \in Nat /\ a < 256 /\ b \in Nat
    BY Ranges
<1>2. Scale(8) = 1 /\ Rest(a, 8) = a
    BY <1>1 DEF Scale, Rest
<1>3. PICK all \in Nat : all = Times(a, b)
    BY <1>1 DEF Times
<1>4. 0 < Scale(8) /\ a \div 2 = 0 * (256 \div Scale(8)) + (Rest(a, 8) \div 2)
    BY <1>1, <1>2
<1>5. 0 * Scale(8) + 0 + Scale(8) * Times(Rest(a, 8), b) = Times(a, b)
    BY <1>2, <1>3
<1>6. Turn(a, b, 8, 0, a \div 2)
    BY <1>4, <1>5 DEF Turn
<1>7. PICK n \in Nat : n = Ones(a)
    BY OnesTyped
<1>. QED BY <1>2, <1>6, <1>7 DEF NextBit, Spent

LEMMA SpentMore ==
    ASSUME NEW a \in UInt8, NEW x \in 1 .. 8
    PROVE  /\ Spent(a, x) \in Int /\ Spent(a, x - 1) \in Int
           /\ Spent(a, x - 1) = Spent(a, x) + NextBit(a, x)
<1>1. Ones(Rest(a, x)) = Ones(Rest(a, x - 1)) + NextBit(a, x)
      /\ Ones(Rest(a, x)) \in Nat /\ Ones(Rest(a, x - 1)) \in Nat
  <2>1. PICK v \in Nat, h \in Nat, bit \in {0, 1} :
            v = Rest(a, x) /\ h = Rest(a, x - 1) /\ bit = NextBit(a, x)
      BY RestHalves
  <2>2. v < 256 /\ v = 2 * h + bit
      BY <2>1, RestHalves
  <2>3. Ones(v) = Ones(h) + bit /\ Ones(v) \in Nat /\ Ones(h) \in Nat
      BY <2>2, OnesHalve
  <2>. QED BY <2>1, <2>3
<1>2. Ones(a) \in Nat
    BY OnesTyped
<1>3. NextBit(a, x) \in {0, 1}
    BY RestHalves
<1>. QED BY <1>1, <1>2, <1>3 DEF Spent

LEMMA AllSpent ==
    ASSUME NEW a \in UInt8
    PROVE  Spent(a, 0) = Cardinality(Bits(a))
<1>1. Rest(a, 0) = 0
    BY Ranges DEF Rest, Scale
<1>2. Ones(0) = 0 + 0 + 0 + 0 + 0 + 0 + 0 + 0
  <2>1. 0 = Weighed(0, 0, 0, 0, 0, 0, 0, 0)
      BY DEF Weighed
  <2>. QED BY <2>1, OnesCounted
<1>3. Ones(a) \in Nat
    BY OnesTyped
<1>. QED BY <1>1, <1>2, <1>3 DEF Spent, Ones

----------------------------------------------------------------------------
(* The sum with its carry, and the sum that A and the carry make of it     *)
(* once rotated.                                                           *)
Adds9(a, b, x, acc, p, low) == Added(a, b, x, acc + 256 * Carry(p), low)
Halved(a, b, x, acc, p, low) == Added(a, b, x, 2 * acc + Carry(p), low)
Turned(a, b, x, acc, p, low) ==
    Turn(a, b, x - 1, acc, low) /\ ("C" \in p <=> NextBit(a, x - 1) = 1)
Clock(a, x) == 139 - 16 * x + 4 * Spent(a, x)
AllCycles(a) == 138 + 4 * Ones(a)

LEMMA CarryBit ==
    ASSUME NEW p
    PROVE  Carry(p) \in {0, 1} /\ (Carry(p) = 1 <=> "C" \in p)
BY DEF Carry

LEMMA AddsOne ==
    ASSUME NEW a \in UInt8, NEW b \in UInt8, NEW x \in 1 .. 8, NEW acc \in UInt8, NEW low,
           Turn(a, b, x, acc, low), NextBit(a, x) = 1,
           NEW p, "D" \notin p, "C" \notin p, NEW r, r = Adc(acc, b, p)
    PROVE  Adds9(a, b, x, r.a, r.p, low) /\ "D" \notin r.p
<1>1. r.a \in UInt8 /\ r.a + 256 * Carry(r.p) = acc + b + Carry(p) /\ "D" \notin r.p
    BY AdcBinary
<1>2. acc \in Nat /\ b \in Nat /\ Carry(p) = 0
    BY Ranges, CarryBit
<1>3. PICK sum \in Nat : sum = r.a + 256 * Carry(r.p) /\ sum = acc + b
    BY <1>1, <1>2
<1>4. Added(a, b, x, sum, low)
    BY <1>3, Adds
<1>. QED BY <1>1, <1>3, <1>4 DEF Adds9

LEMMA AddsNone ==
    ASSUME NEW a \in UInt8, NEW b \in UInt8, NEW x \in 1 .. 8, NEW acc \in UInt8, NEW low,
           Turn(a, b, x, acc, low), NextBit(a, x) # 1, NEW p, "C" \notin p
    PROVE  Adds9(a, b, x, acc, p, low)
<1>1. acc \in Nat /\ Carry(p) = 0
    BY Ranges, CarryBit
<1>2. PICK sum \in Nat : sum = acc /\ sum = acc + 256 * Carry(p)
    BY <1>1
<1>3. Added(a, b, x, sum, low)
    BY <1>2, Adds
<1>. QED BY <1>2, <1>3 DEF Adds9

LEMMA RotatesSum ==
    ASSUME NEW a, NEW b, NEW x, NEW acc \in UInt8, NEW p, NEW low, Adds9(a, b, x, acc, p, low),
           NEW v, v = (acc \div 2) + 128 * Carry(p), NEW q, q = SetFlag(p, "C", Bit0(acc))
    PROVE  Halved(a, b, x, v, SetZN(q, v), low)
<1>1. acc \in Nat /\ Carry(p) \in {0, 1}
    BY Ranges, CarryBit
<1>2. PICK c \in {0, 1} : c = Carry(SetZN(q, v)) /\ (c = 1 <=> acc % 2 = 1)
  <2>1. "C" \in SetZN(q, v) <=> acc % 2 = 1
      BY SetZNKeeps DEF SetFlag, Bit0
  <2>. QED BY <2>1, CarryBit
<1>3. PICK sum \in Nat : sum = acc + 256 * Carry(p) /\ sum = 2 * v + c
    BY <1>1, <1>2
<1>. QED BY <1>2, <1>3 DEF Adds9, Halved

LEMMA RotatesLow ==
    ASSUME NEW a \in UInt8, NEW b \in UInt8, NEW x \in 1 .. 8, NEW acc \in UInt8, NEW p,
           NEW low \in UInt8, Halved(a, b, x, acc, p, low),
           NEW v, v = (low \div 2) + 128 * Carry(p), NEW q, q = SetFlag(p, "C", Bit0(low))
    PROVE  Turned(a, b, x, acc, SetZN(q, v), v)
<1>1. PICK c \in {0, 1} : c = Carry(p)
    BY CarryBit
<1>2. acc \in Nat
    BY Ranges
<1>3. PICK sum \in Nat : sum = 2 * acc + Carry(p) /\ sum = 2 * acc + c
    BY <1>1, <1>2
<1>4. Added(a, b, x, sum, low)
    BY <1>3 DEF Halved
<1>5. v = (low \div 2) + 128 * c
    BY <1>1
<1>6. Turn(a, b, x - 1, acc, v) /\ low % 2 = NextBit(a, x - 1)
    BY <1>2, <1>3, <1>4, <1>5, Rotates
<1>7. "C" \in SetZN(q, v) <=> low % 2 = 1
    BY SetZNKeeps DEF SetFlag, Bit0
<1>. QED BY <1>6, <1>7 DEF Turned

LEMMA ClockRuns ==
    ASSUME NEW a \in UInt8, NEW x \in 1 .. 8
    PROVE  /\ Clock(a, x) \in Int /\ Clock(a, x - 1) \in Int
           /\ NextBit(a, x) = 1 => Clock(a, x - 1) = Clock(a, x) + 20
           /\ NextBit(a, x) # 1 => Clock(a, x - 1) = Clock(a, x) + 16
<1>1. PICK n \in Int, m \in Int, bit \in {0, 1} :
          n = Spent(a, x) /\ m = Spent(a, x - 1) /\ bit = NextBit(a, x) /\ m = n + bit
    BY SpentMore, RestHalves
<1>2. x \in Int
    OBVIOUS
<1>. QED BY <1>1, <1>2 DEF Clock

LEMMA ClockEnds ==
    ASSUME NEW a \in UInt8
    PROVE  Clock(a, 8) = 11 /\ Clock(a, 0) = AllCycles(a) + 1 /\ AllCycles(a) \in Nat
<1>1. Spent(a, 8) = 0 /\ Spent(a, 0) = Ones(a) /\ Ones(a) \in Nat
    BY FirstTurn, AllSpent, OnesTyped DEF Ones
<1>. QED BY <1>1 DEF Clock, AllCycles

MultiplyAt(j, s, d) ==
    /\ s.SP = 255
    /\ s.mem[19] = j.b
    /\ \/ At(s, d, 2240, 0) /\ s.mem[17] = j.a
       \/ At(s, d, 2241, 2) /\ s.mem[17] = j.a /\ "D" \notin s.P
       \/ At(s, d, 2243, 4) /\ s.mem[17] = j.a /\ "D" \notin s.P /\ s.A = 0
       \/ At(s, d, 2245, 6) /\ s.mem[17] = j.a /\ "D" \notin s.P /\ s.A = 0 /\ s.X = 8
       \/ /\ At(s, d, 2247, Clock(j.a, s.X)) /\ s.X \in 1 .. 8
          /\ Turn(j.a, j.b, s.X, s.A, s.mem[17])
          /\ ("C" \in s.P <=> NextBit(j.a, s.X) = 1)
          /\ "D" \notin s.P
       \/ /\ At(s, d, 2249, Clock(j.a, s.X) + 2) /\ s.X \in 1 .. 8
          /\ Turn(j.a, j.b, s.X, s.A, s.mem[17]) /\ NextBit(j.a, s.X) = 1 /\ "D" \notin s.P
       \/ /\ At(s, d, 2250, Clock(j.a, s.X) + 4) /\ s.X \in 1 .. 8
          /\ Turn(j.a, j.b, s.X, s.A, s.mem[17]) /\ NextBit(j.a, s.X) = 1 /\ "D" \notin s.P
          /\ "C" \notin s.P
       \/ /\ At(s, d, 2252, Clock(j.a, s.X - 1) - 13) /\ s.X \in 1 .. 8
          /\ Adds9(j.a, j.b, s.X, s.A, s.P, s.mem[17]) /\ "D" \notin s.P
       \/ /\ At(s, d, 2253, Clock(j.a, s.X - 1) - 11) /\ s.X \in 1 .. 8
          /\ Halved(j.a, j.b, s.X, s.A, s.P, s.mem[17]) /\ "D" \notin s.P
       \/ /\ At(s, d, 2256, Clock(j.a, s.X - 1) - 5) /\ s.X \in 1 .. 8
          /\ Turned(j.a, j.b, s.X, s.A, s.P, s.mem[17]) /\ "D" \notin s.P
       \/ /\ At(s, d, 2257, Clock(j.a, s.X) - 3) /\ s.X \in 0 .. 7
          /\ Turn(j.a, j.b, s.X, s.A, s.mem[17])
          /\ ("C" \in s.P <=> NextBit(j.a, s.X) = 1)
          /\ ("Z" \in s.P <=> s.X = 0)
          /\ "D" \notin s.P
       \/ At(s, d, 2259, AllCycles(j.a)) /\ Turn(j.a, j.b, 0, s.A, s.mem[17])
       \/ At(s, d, 2261, AllCycles(j.a) + 3) /\ 256 * s.mem[16] + s.mem[17] = j.a * j.b
       \/ At(s, d, StopAt, AllCycles(j.a) + 6) /\ 256 * s.mem[16] + s.mem[17] = j.a * j.b

LEMMA MultiplyListed ==
    /\ Lists(2240, "CLD", "imp", 0)
    /\ Lists(2241, "LDA", "imm", 0)
    /\ Lists(2243, "LDX", "imm", 8)
    /\ Lists(2245, "LSR", "zp", 17)
    /\ Lists(2247, "BCC", "rel", 3)
    /\ Lists(2249, "CLC", "imp", 0)
    /\ Lists(2250, "ADC", "zp", 19)
    /\ Lists(2252, "ROR", "acc", 0)
    /\ Lists(2253, "ROR", "abs", 17)
    /\ Lists(2256, "DEX", "imp", 0)
    /\ Lists(2257, "BNE", "rel", 244)
    /\ Lists(2259, "STA", "zp", 16)
    /\ Lists(2261, "JMP", "abs", StopAt)
<1>1. "multiply" \in DOMAIN Texts
    BY DEF Texts
<1>2. Lists(2240, "CLD", "imp", 0)
    BY <1>1, TextsListed DEF Lists, Texts, A, B, R, Saved, Copied, Pointer,
       NmiCount, BrkCount, Vector, StopAt
<1>3. Lists(2241, "LDA", "imm", 0)
    BY <1>1, TextsListed DEF Lists, Texts, A, B, R, Saved, Copied, Pointer,
       NmiCount, BrkCount, Vector, StopAt
<1>4. Lists(2243, "LDX", "imm", 8)
    BY <1>1, TextsListed DEF Lists, Texts, A, B, R, Saved, Copied, Pointer,
       NmiCount, BrkCount, Vector, StopAt
<1>5. Lists(2245, "LSR", "zp", 17)
    BY <1>1, TextsListed DEF Lists, Texts, A, B, R, Saved, Copied, Pointer,
       NmiCount, BrkCount, Vector, StopAt
<1>6. Lists(2247, "BCC", "rel", 3)
    BY <1>1, TextsListed DEF Lists, Texts, A, B, R, Saved, Copied, Pointer,
       NmiCount, BrkCount, Vector, StopAt
<1>7. Lists(2249, "CLC", "imp", 0)
    BY <1>1, TextsListed DEF Lists, Texts, A, B, R, Saved, Copied, Pointer,
       NmiCount, BrkCount, Vector, StopAt
<1>8. Lists(2250, "ADC", "zp", 19)
    BY <1>1, TextsListed DEF Lists, Texts, A, B, R, Saved, Copied, Pointer,
       NmiCount, BrkCount, Vector, StopAt
<1>9. Lists(2252, "ROR", "acc", 0)
    BY <1>1, TextsListed DEF Lists, Texts, A, B, R, Saved, Copied, Pointer,
       NmiCount, BrkCount, Vector, StopAt
<1>10. Lists(2253, "ROR", "abs", 17)
    BY <1>1, TextsListed DEF Lists, Texts, A, B, R, Saved, Copied, Pointer,
       NmiCount, BrkCount, Vector, StopAt
<1>11. Lists(2256, "DEX", "imp", 0)
    BY <1>1, TextsListed DEF Lists, Texts, A, B, R, Saved, Copied, Pointer,
       NmiCount, BrkCount, Vector, StopAt
<1>12. Lists(2257, "BNE", "rel", 244)
    BY <1>1, TextsListed DEF Lists, Texts, A, B, R, Saved, Copied, Pointer,
       NmiCount, BrkCount, Vector, StopAt
<1>13. Lists(2259, "STA", "zp", 16)
    BY <1>1, TextsListed DEF Lists, Texts, A, B, R, Saved, Copied, Pointer,
       NmiCount, BrkCount, Vector, StopAt
<1>14. Lists(2261, "JMP", "abs", StopAt)
    BY <1>1, TextsListed DEF Lists, Texts, A, B, R, Saved, Copied, Pointer,
       NmiCount, BrkCount, Vector, StopAt
<1>. QED BY <1>2, <1>3, <1>4, <1>5, <1>6, <1>7, <1>8, <1>9, <1>10, <1>11, <1>12, <1>13, <1>14

LEMMA MultiplyStep ==
    ASSUME core \in CoreState, ExecuteInstruction,
           NEW j, j.a \in UInt8, j.b \in UInt8, NEW d \in Nat, MultiplyAt(j, core, d), core.PC # StopAt
    PROVE  MultiplyAt(j, core', d) /\ core'.mem[NmiCount] = core.mem[NmiCount]
<1>. DEFINE Onward == MultiplyAt(j, core', d) /\ core'.mem[NmiCount] = core.mem[NmiCount]
            Unmoved == /\ core'.SP = 255
                     /\ core'.mem[19] = j.b
<1>. SUFFICES Onward
    OBVIOUS
<1>. HIDE DEF Onward
<1>1. /\ core.SP = 255
      /\ core.mem[19] = j.b
    BY DEF MultiplyAt
<1>2. core'.mem = core.mem /\ core'.SP = core.SP => Unmoved
    BY <1>1
<1>3. CASE At(core, d, 2240, 0) /\ core.mem[17] = j.a
  <2>1. Doing("CLD", "imp", 0)
      BY MultiplyListed, Reached, <1>3 DEF At
  <2>2. PICK p : p = core.P \ {"D"}
      OBVIOUS
  <2>3. Goes(core.A, core.X, core.Y, core.SP, 1, p, 2, core.mem)
      BY <2>1, <2>2, FlagDoes
  <2>4. "D" \notin p
      BY <2>2
  <2>5. At(core', d, 2241, 2)
      BY <1>3, <2>3 DEF At, Goes, GoesTo
  <2>. QED BY <1>2, <1>3, <2>3, <2>5, <2>4 DEF Onward, MultiplyAt, Goes, GoesTo
<1>4. CASE At(core, d, 2241, 2) /\ core.mem[17] = j.a /\ "D" \notin core.P
  <2>1. Doing("LDA", "imm", 0)
      BY MultiplyListed, Reached, <1>4 DEF At
  <2>2. Goes(0, core.X, core.Y, core.SP, 2, SetZN(core.P, 0), 2, core.mem)
      BY <2>1, LoadImm DEF Loads
  <2>3. "D" \notin SetZN(core.P, 0)
      BY <1>4, SetZNKeeps
  <2>4. At(core', d, 2243, 4)
      BY <1>4, <2>2 DEF At, Goes, GoesTo
  <2>. QED BY <1>2, <1>4, <2>2, <2>4, <2>3 DEF Onward, MultiplyAt, Goes, GoesTo
<1>5. CASE At(core, d, 2243, 4) /\ core.mem[17] = j.a /\ "D" \notin core.P /\ core.A = 0
  <2>1. Doing("LDX", "imm", 8)
      BY MultiplyListed, Reached, <1>5 DEF At
  <2>2. Goes(core.A, 8, core.Y, core.SP, 2, SetZN(core.P, 8), 2, core.mem)
      BY <2>1, LoadImm DEF Loads
  <2>3. "D" \notin SetZN(core.P, 8)
      BY <1>5, SetZNKeeps
  <2>4. At(core', d, 2245, 6)
      BY <1>5, <2>2 DEF At, Goes, GoesTo
  <2>. QED BY <1>2, <1>5, <2>2, <2>4, <2>3 DEF Onward, MultiplyAt, Goes, GoesTo
<1>6. CASE /\ At(core, d, 2245, 6) /\ core.mem[17] = j.a /\ "D" \notin core.P /\ core.A = 0
           /\ core.X = 8
  <2>1. Doing("LSR", "zp", 17)
      BY MultiplyListed, Reached, <1>6 DEF At
  <2>2. PICK v : v = j.a \div 2
      OBVIOUS
  <2>3. PICK q : q = SetFlag(core.P, "C", Bit0(j.a))
      OBVIOUS
  <2>4. Goes(core.A, core.X, core.Y, core.SP, 2, SetZN(q, v), 5, Wrote(core.mem, 17, v))
      BY <1>6, <2>1, <2>2, <2>3, ModifyDoes, Roomy DEF Modifies, Shifts
  <2>5. /\ "D" \notin SetZN(q, v) /\ ("C" \in SetZN(q, v) <=> NextBit(j.a, 8) = 1)
         /\ Turn(j.a, j.b, 8, 0, v)
      BY <1>6, <2>2, <2>3, SetZNKeeps, FirstTurn DEF SetFlag, Bit0
  <2>6. /\ Unmoved /\ core'.mem[17] = v
         /\ core'.mem[NmiCount] = core.mem[NmiCount]
      BY <1>1, <1>6, <2>4, Roomy, Parts, Written DEF Goes, GoesTo, NmiCount
  <2>7. At(core', d, 2247, Clock(j.a, 8))
      BY <1>6, <2>4, ClockEnds DEF At, Goes, GoesTo
  <2>. QED BY <1>6, <2>4, <2>7, <2>5, <2>6 DEF Onward, MultiplyAt, Goes, GoesTo
<1>7. CASE /\ At(core, d, 2247, Clock(j.a, core.X)) /\ core.X \in 1 .. 8
           /\ Turn(j.a, j.b, core.X, core.A, core.mem[17])
           /\ ("C" \in core.P <=> NextBit(j.a, core.X) = 1)
           /\ "D" \notin core.P
  <2>1. Doing("BCC", "rel", 3)
      BY MultiplyListed, Reached, <1>7 DEF At
  <2>2. 2252 = Target(3) /\ 3 = Paid(2252)
      BY <1>7 DEF Target, Paid, At, PageOf
  <2>3. CASE "C" \notin core.P
    <3>1. GoesTo(core.A, core.X, core.Y, core.SP, 2252, core.P, 3, core.mem)
        BY <2>1, <2>2, <2>3, BranchDoes DEF Branching
    <3>2. Adds9(j.a, j.b, core.X, core.A, core.P, core.mem[17]) /\ NextBit(j.a, core.X) # 1
        BY <1>7, <2>3, Parts, AddsNone
    <3>3. At(core', d, 2252, Clock(j.a, core.X - 1) - 13)
        BY <1>7, <3>1, <3>2, ClockRuns DEF At, Goes, GoesTo
    <3>. QED BY <1>2, <1>7, <3>1, <3>2, <3>3 DEF Onward, MultiplyAt, Goes, GoesTo
  <2>4. CASE "C" \in core.P
    <3>1. Goes(core.A, core.X, core.Y, core.SP, 2, core.P, 2, core.mem)
        BY <2>1, <2>2, <2>4, BranchDoes DEF Branching
    <3>2. NextBit(j.a, core.X) = 1
        BY <1>7, <2>4
    <3>3. At(core', d, 2249, Clock(j.a, core.X) + 2)
        BY <1>7, <3>1, <3>2, ClockRuns DEF At, Goes, GoesTo
    <3>. QED BY <1>2, <1>7, <3>1, <3>2, <3>3 DEF Onward, MultiplyAt, Goes, GoesTo
  <2>. QED BY <2>3, <2>4
<1>8. CASE /\ At(core, d, 2249, Clock(j.a, core.X) + 2) /\ core.X \in 1 .. 8
           /\ Turn(j.a, j.b, core.X, core.A, core.mem[17]) /\ NextBit(j.a, core.X) = 1
           /\ "D" \notin core.P
  <2>1. Doing("CLC", "imp", 0)
      BY MultiplyListed, Reached, <1>8 DEF At
  <2>2. PICK p : p = core.P \ {"C"}
      OBVIOUS
  <2>3. Goes(core.A, core.X, core.Y, core.SP, 1, p, 2, core.mem)
      BY <2>1, <2>2, FlagDoes
  <2>4. "D" \notin p /\ "C" \notin p
      BY <1>8, <2>2
  <2>5. At(core', d, 2250, Clock(j.a, core.X) + 4)
      BY <1>8, <2>3, ClockRuns DEF At, Goes, GoesTo
  <2>. QED BY <1>2, <1>8, <2>3, <2>5, <2>4 DEF Onward, MultiplyAt, Goes, GoesTo
<1>9. CASE /\ At(core, d, 2250, Clock(j.a, core.X) + 4) /\ core.X \in 1 .. 8
           /\ Turn(j.a, j.b, core.X, core.A, core.mem[17]) /\ NextBit(j.a, core.X) = 1
           /\ "D" \notin core.P /\ "C" \notin core.P
  <2>1. Doing("ADC", "zp", 19)
      BY MultiplyListed, Reached, <1>9 DEF At
  <2>2. Reads8("zp", 19, j.b, 2, 3)
      BY <1>1, Roomy DEF Reads8
  <2>3. PICK r : r = Adc(core.A, j.b, core.P)
      OBVIOUS
  <2>4. Goes(r.a, core.X, core.Y, core.SP, 2, r.p, 3, core.mem)
      BY <2>1, <2>2, <2>3, SumDoes
  <2>5. Adds9(j.a, j.b, core.X, r.a, r.p, core.mem[17]) /\ "D" \notin r.p
      BY <1>9, <2>3, AddsOne, Parts
  <2>6. At(core', d, 2252, Clock(j.a, core.X - 1) - 13)
      BY <1>9, <2>4, ClockRuns DEF At, Goes, GoesTo
  <2>. QED BY <1>2, <1>9, <2>4, <2>6, <2>5 DEF Onward, MultiplyAt, Goes, GoesTo
<1>10. CASE /\ At(core, d, 2252, Clock(j.a, core.X - 1) - 13) /\ core.X \in 1 .. 8
            /\ Adds9(j.a, j.b, core.X, core.A, core.P, core.mem[17]) /\ "D" \notin core.P
  <2>1. Doing("ROR", "acc", 0)
      BY MultiplyListed, Reached, <1>10 DEF At
  <2>2. PICK v : v = (core.A \div 2) + 128 * Carry(core.P)
      OBVIOUS
  <2>3. PICK q : q = SetFlag(core.P, "C", Bit0(core.A))
      OBVIOUS
  <2>4. Goes(v, core.X, core.Y, core.SP, 1, SetZN(q, v), 2, core.mem)
      BY <2>1, <2>2, <2>3, RotateDoes
  <2>5. "D" \notin SetZN(q, v)
      BY <1>10, <2>3, SetZNKeeps DEF SetFlag
  <2>6. Halved(j.a, j.b, core.X, v, SetZN(q, v), core.mem[17])
      BY <1>10, <2>2, <2>3, RotatesSum, Parts
  <2>7. At(core', d, 2253, Clock(j.a, core.X - 1) - 11)
      BY <1>10, <2>4, ClockRuns DEF At, Goes, GoesTo
  <2>. QED BY <1>2, <1>10, <2>4, <2>7, <2>6, <2>5 DEF Onward, MultiplyAt, Goes, GoesTo
<1>11. CASE /\ At(core, d, 2253, Clock(j.a, core.X - 1) - 11) /\ core.X \in 1 .. 8
            /\ Halved(j.a, j.b, core.X, core.A, core.P, core.mem[17]) /\ "D" \notin core.P
  <2>1. Doing("ROR", "abs", 17)
      BY MultiplyListed, Reached, <1>11 DEF At
  <2>2. PICK low \in UInt8 : low = core.mem[17]
      BY Parts, Roomy DEF RAM
  <2>3. PICK v : v = (low \div 2) + 128 * Carry(core.P)
      OBVIOUS
  <2>4. PICK q : q = SetFlag(core.P, "C", Bit0(low))
      OBVIOUS
  <2>5. Goes(core.A, core.X, core.Y, core.SP, 3, SetZN(q, v), 6, Wrote(core.mem, 17, v))
      BY <1>11, <2>1, <2>2, <2>3, <2>4, ModifyDoes, Roomy DEF Modifies, Shifts
  <2>6. "D" \notin SetZN(q, v)
      BY <1>11, <2>4, SetZNKeeps DEF SetFlag
  <2>7. Turned(j.a, j.b, core.X, core.A, SetZN(q, v), v)
      BY <1>11, <2>2, <2>3, <2>4, RotatesLow, Parts
  <2>8. /\ Unmoved /\ core'.mem[17] = v
         /\ core'.mem[NmiCount] = core.mem[NmiCount]
      BY <1>1, <1>11, <2>5, Roomy, Parts, Written DEF Goes, GoesTo, NmiCount
  <2>9. At(core', d, 2256, Clock(j.a, core.X - 1) - 5)
      BY <1>11, <2>5, ClockRuns DEF At, Goes, GoesTo
  <2>. QED BY <1>11, <2>5, <2>9, <2>7, <2>8, <2>6 DEF Onward, MultiplyAt, Goes, GoesTo
<1>12. CASE /\ At(core, d, 2256, Clock(j.a, core.X - 1) - 5) /\ core.X \in 1 .. 8
            /\ Turned(j.a, j.b, core.X, core.A, core.P, core.mem[17]) /\ "D" \notin core.P
  <2>1. Doing("DEX", "imp", 0)
      BY MultiplyListed, Reached, <1>12 DEF At
  <2>2. PICK x \in 0 .. 7 : x = core.X - 1
      BY <1>12
  <2>3. Turn(j.a, j.b, x, core.A, core.mem[17]) /\ ("C" \in core.P <=> NextBit(j.a, x) = 1)
      BY <1>12, <2>2 DEF Turned
  <2>4. (core.X + 255) % 256 = x
      BY <1>12, <2>2
  <2>5. Goes(core.A, x, core.Y, core.SP, 1, SetZN(core.P, x), 2, core.mem)
      BY <2>1, <2>4, CountDoes
  <2>6. "Z" \in SetZN(core.P, x) <=> x = 0
      BY SetZNSets
  <2>7. ("C" \in SetZN(core.P, x) <=> NextBit(j.a, x) = 1) /\ "D" \notin SetZN(core.P, x)
      BY <1>12, <2>3, SetZNKeeps
  <2>8. At(core', d, 2257, Clock(j.a, x) - 3)
      BY <1>12, <2>5, <2>2, ClockRuns DEF At, Goes, GoesTo
  <2>. QED BY <1>2, <1>12, <2>5, <2>8, <2>7, <2>2, <2>3, <2>6 DEF Onward, MultiplyAt, Goes, GoesTo
<1>13. CASE /\ At(core, d, 2257, Clock(j.a, core.X) - 3) /\ core.X \in 0 .. 7
            /\ Turn(j.a, j.b, core.X, core.A, core.mem[17])
            /\ ("C" \in core.P <=> NextBit(j.a, core.X) = 1)
            /\ ("Z" \in core.P <=> core.X = 0)
            /\ "D" \notin core.P
  <2>1. Doing("BNE", "rel", 244)
      BY MultiplyListed, Reached, <1>13 DEF At
  <2>2. 2247 = Target(244) /\ 3 = Paid(2247)
      BY <1>13 DEF Target, Paid, At, PageOf
  <2>3. CASE "Z" \notin core.P
    <3>1. GoesTo(core.A, core.X, core.Y, core.SP, 2247, core.P, 3, core.mem)
        BY <2>1, <2>2, <2>3, BranchDoes DEF Branching
    <3>2. core.X \in 1 .. 8
        BY <1>13, <2>3
    <3>3. At(core', d, 2247, Clock(j.a, core.X))
        BY <1>13, <3>1, <3>2, ClockRuns DEF At, Goes, GoesTo
    <3>. QED BY <1>2, <1>13, <3>1, <3>2, <3>3 DEF Onward, MultiplyAt, Goes, GoesTo
  <2>4. CASE "Z" \in core.P
    <3>1. Goes(core.A, core.X, core.Y, core.SP, 2, core.P, 2, core.mem)
        BY <2>1, <2>2, <2>4, BranchDoes DEF Branching
    <3>2. core.X = 0 /\ Turn(j.a, j.b, 0, core.A, core.mem[17])
        BY <1>13, <2>4
    <3>3. At(core', d, 2259, AllCycles(j.a))
        BY <1>13, <3>1, <3>2, ClockEnds DEF At, Goes, GoesTo
    <3>. QED BY <1>2, <1>13, <3>1, <3>2, <3>3 DEF Onward, MultiplyAt, Goes, GoesTo
  <2>. QED BY <2>3, <2>4
<1>14. CASE At(core, d, 2259, AllCycles(j.a)) /\ Turn(j.a, j.b, 0, core.A, core.mem[17])
  <2>1. Doing("STA", "zp", 16)
      BY MultiplyListed, Reached, <1>14 DEF At
  <2>2. Goes(core.A, core.X, core.Y, core.SP, 2, core.P, 3, Wrote(core.mem, 16, core.A))
      BY <2>1, StoreZp, Roomy DEF Stores
  <2>3. 256 * core.A + core.mem[17] = j.a * j.b
      BY <1>14, LastTurn, Parts
  <2>4. /\ Unmoved /\ core'.mem[16] = core.A /\ core'.mem[17] = core.mem[17]
         /\ core'.mem[NmiCount] = core.mem[NmiCount]
      BY <1>1, <1>14, <2>2, Roomy, Parts, Written DEF Goes, GoesTo, NmiCount
  <2>5. At(core', d, 2261, AllCycles(j.a) + 3)
      BY <1>14, <2>2, ClockEnds DEF At, Goes, GoesTo
  <2>. QED BY <1>14, <2>2, <2>5, <2>3, <2>4 DEF Onward, MultiplyAt, Goes, GoesTo
<1>15. CASE At(core, d, 2261, AllCycles(j.a) + 3) /\ 256 * core.mem[16] + core.mem[17] = j.a * j.b
  <2>1. Doing("JMP", "abs", StopAt)
      BY MultiplyListed, Reached, <1>15 DEF At
  <2>2. GoesTo(core.A, core.X, core.Y, core.SP, StopAt, core.P, 3, core.mem)
      BY <2>1, JumpDoes
  <2>3. At(core', d, StopAt, AllCycles(j.a) + 6)
      BY <1>15, <2>2, ClockEnds DEF At, Goes, GoesTo
  <2>. QED BY <1>2, <1>15, <2>2, <2>3 DEF Onward, MultiplyAt, Goes, GoesTo
<1>16. ~At(core, d, StopAt, AllCycles(j.a) + 6)
    BY DEF At
<1>. QED BY <1>3, <1>4, <1>5, <1>6, <1>7, <1>8, <1>9, <1>10, <1>11, <1>12, <1>13, <1>14, <1>15,
            <1>16 DEF MultiplyAt

----------------------------------------------------------------------------
(* The delay: six cycles a turn.                                           *)
DelayAt(j, s, d) ==
    /\ s.SP = 255
    /\ \/ At(s, d, 1532, 0) /\ s.mem[17] = j.a
       \/ At(s, d, 1534, 3 + 6 * (j.a - s.X)) /\ s.X \in 1 .. j.a
       \/ /\ At(s, d, 1535, 6 * (j.a - s.X) - 1) /\ s.X \in 0 .. j.a - 1
          /\ ("Z" \in s.P <=> s.X = 0)
       \/ At(s, d, 1537, 1 + 6 * j.a) /\ s.X = 0
       \/ At(s, d, 1538, 3 + 6 * j.a) /\ s.X = 0
       \/ At(s, d, StopAt, 6 + 6 * j.a) /\ s.X = 0

LEMMA DelayListed ==
    /\ Lists(1532, "LDX", "zp", 17)
    /\ Lists(1534, "DEX", "imp", 0)
    /\ Lists(1535, "BNE", "rel", 253)
    /\ Lists(1537, "NOP", "imp", 0)
    /\ Lists(1538, "JMP", "abs", StopAt)
<1>1. "delay" \in DOMAIN Texts
    BY DEF Texts
<1>2. Lists(1532, "LDX", "zp", 17)
    BY <1>1, TextsListed DEF Lists, Texts, A, B, R, Saved, Copied, Pointer,
       NmiCount, BrkCount, Vector, StopAt
<1>3. Lists(1534, "DEX", "imp", 0)
    BY <1>1, TextsListed DEF Lists, Texts, A, B, R, Saved, Copied, Pointer,
       NmiCount, BrkCount, Vector, StopAt
<1>4. Lists(1535, "BNE", "rel", 253)
    BY <1>1, TextsListed DEF Lists, Texts, A, B, R, Saved, Copied, Pointer,
       NmiCount, BrkCount, Vector, StopAt
<1>5. Lists(1537, "NOP", "imp", 0)
    BY <1>1, TextsListed DEF Lists, Texts, A, B, R, Saved, Copied, Pointer,
       NmiCount, BrkCount, Vector, StopAt
<1>6. Lists(1538, "JMP", "abs", StopAt)
    BY <1>1, TextsListed DEF Lists, Texts, A, B, R, Saved, Copied, Pointer,
       NmiCount, BrkCount, Vector, StopAt
<1>. QED BY <1>2, <1>3, <1>4, <1>5, <1>6

LEMMA DelayStep ==
    ASSUME core \in CoreState, ExecuteInstruction,
           NEW j, j.a \in 1 .. 255, NEW d \in Nat, DelayAt(j, core, d), core.PC # StopAt
    PROVE  DelayAt(j, core', d) /\ core'.mem[NmiCount] = core.mem[NmiCount]
<1>. DEFINE Onward == DelayAt(j, core', d) /\ core'.mem[NmiCount] = core.mem[NmiCount]
            Unmoved == /\ core'.SP = 255
<1>. SUFFICES Onward
    OBVIOUS
<1>. HIDE DEF Onward
<1>1. /\ core.SP = 255
    BY DEF DelayAt
<1>2. core'.mem = core.mem /\ core'.SP = core.SP => Unmoved
    BY <1>1
<1>3. CASE At(core, d, 1532, 0) /\ core.mem[17] = j.a
  <2>1. Doing("LDX", "zp", 17)
      BY DelayListed, Reached, <1>3 DEF At
  <2>2. Goes(core.A, j.a, core.Y, core.SP, 2, SetZN(core.P, j.a), 3, core.mem)
      BY <1>1, <1>3, <2>1, LoadZp, Roomy DEF Loads
  <2>3. At(core', d, 1534, 3 + 6 * (j.a - j.a))
      BY <1>3, <2>2 DEF At, Goes, GoesTo
  <2>. QED BY <1>2, <1>3, <2>2, <2>3 DEF Onward, DelayAt, Goes, GoesTo
<1>4. CASE At(core, d, 1534, 3 + 6 * (j.a - core.X)) /\ core.X \in 1 .. j.a
  <2>1. Doing("DEX", "imp", 0)
      BY DelayListed, Reached, <1>4 DEF At
  <2>2. PICK x \in 0 .. j.a - 1 : x = core.X - 1
      BY <1>4
  <2>3. (core.X + 255) % 256 = x
      BY <1>4, <2>2
  <2>4. Goes(core.A, x, core.Y, core.SP, 1, SetZN(core.P, x), 2, core.mem)
      BY <2>1, <2>3, CountDoes
  <2>5. PICK a \in Nat : a = j.a
      BY <1>4
  <2>6. PICK c \in Nat : c = core.X
      BY <1>4
  <2>7. "Z" \in SetZN(core.P, x) <=> x = 0
      BY SetZNSets
  <2>8. At(core', d, 1535, 6 * (j.a - x) - 1)
      BY <1>4, <2>4, <2>2, <2>5, <2>6 DEF At, Goes, GoesTo
  <2>. QED BY <1>2, <1>4, <2>4, <2>8, <2>7, <2>2 DEF Onward, DelayAt, Goes, GoesTo
<1>5. CASE /\ At(core, d, 1535, 6 * (j.a - core.X) - 1) /\ core.X \in 0 .. j.a - 1
           /\ ("Z" \in core.P <=> core.X = 0)
  <2>1. Doing("BNE", "rel", 253)
      BY DelayListed, Reached, <1>5 DEF At
  <2>2. 1534 = Target(253) /\ 4 = Paid(1534)
      BY <1>5 DEF Target, Paid, At, PageOf
  <2>3. CASE "Z" \notin core.P
    <3>1. GoesTo(core.A, core.X, core.Y, core.SP, 1534, core.P, 4, core.mem)
        BY <2>1, <2>2, <2>3, BranchDoes DEF Branching
    <3>2. core.X \in 1 .. j.a
        BY <1>5, <2>3
    <3>3. At(core', d, 1534, 3 + 6 * (j.a - core.X))
        BY <1>5, <3>1, <3>2 DEF At, Goes, GoesTo
    <3>. QED BY <1>2, <1>5, <3>1, <3>2, <3>3 DEF Onward, DelayAt, Goes, GoesTo
  <2>4. CASE "Z" \in core.P
    <3>1. Goes(core.A, core.X, core.Y, core.SP, 2, core.P, 2, core.mem)
        BY <2>1, <2>2, <2>4, BranchDoes DEF Branching
    <3>2. core.X = 0
        BY <1>5, <2>4
    <3>3. At(core', d, 1537, 1 + 6 * j.a)
        BY <1>5, <3>1, <3>2 DEF At, Goes, GoesTo
    <3>. QED BY <1>2, <1>5, <3>1, <3>2, <3>3 DEF Onward, DelayAt, Goes, GoesTo
  <2>. QED BY <2>3, <2>4
<1>6. CASE At(core, d, 1537, 1 + 6 * j.a) /\ core.X = 0
  <2>1. Doing("NOP", "imp", 0)
      BY DelayListed, Reached, <1>6 DEF At
  <2>2. Goes(core.A, core.X, core.Y, core.SP, 1, core.P, 2, core.mem)
      BY <2>1, StackDoes
  <2>3. At(core', d, 1538, 3 + 6 * j.a)
      BY <1>6, <2>2 DEF At, Goes, GoesTo
  <2>. QED BY <1>2, <1>6, <2>2, <2>3 DEF Onward, DelayAt, Goes, GoesTo
<1>7. CASE At(core, d, 1538, 3 + 6 * j.a) /\ core.X = 0
  <2>1. Doing("JMP", "abs", StopAt)
      BY DelayListed, Reached, <1>7 DEF At
  <2>2. GoesTo(core.A, core.X, core.Y, core.SP, StopAt, core.P, 3, core.mem)
      BY <2>1, JumpDoes
  <2>3. At(core', d, StopAt, 6 + 6 * j.a)
      BY <1>7, <2>2 DEF At, Goes, GoesTo
  <2>. QED BY <1>2, <1>7, <2>2, <2>3 DEF Onward, DelayAt, Goes, GoesTo
<1>8. ~At(core, d, StopAt, 6 + 6 * j.a)
    BY DEF At
<1>. QED BY <1>3, <1>4, <1>5, <1>6, <1>7, <1>8 DEF DelayAt

----------------------------------------------------------------------------
(* Doubling: l and h are the bytes of the doubled word; decrementing it    *)
(* borrows when the low byte is zero, which takes four cycles more.        *)
DoublesTo(j, l, h, top, more) ==
    /\ l = (2 * Lo(j.a)) % 256
    /\ h = (2 * Hi(j.a) + (IF Lo(j.a) >= 128 THEN 1 ELSE 0)) % 256
    /\ l = 0 => top = (h + 255) % 256 /\ more = 4
    /\ l # 0 => top = h /\ more = 0

DoubleAt(l, h, top, more, j, s, d) ==
    /\ s.SP = 255
    /\ \/ At(s, d, 2528, 0) /\ s.mem[16] = Hi(j.a) /\ s.mem[17] = Lo(j.a)
       \/ At(s, d, 2530, 2) /\ s.mem[16] = Hi(j.a) /\ s.mem[17] = Lo(j.a) /\ s.X = 1
       \/ /\ At(s, d, 2532, 8) /\ s.mem[16] = Hi(j.a) /\ s.mem[17] = l
          /\ ("C" \in s.P <=> Lo(j.a) >= 128)
       \/ /\ At(s, d, 2534, 13) /\ s.mem[16] = h /\ s.mem[17] = l
          /\ ("C" \in s.P <=> Hi(j.a) >= 128)
       \/ /\ At(s, d, 2536, 16) /\ s.mem[16] = h /\ s.mem[17] = l
          /\ ("C" \in s.P <=> Hi(j.a) >= 128)
          /\ ("Z" \in s.P <=> l = 0)
       \/ /\ At(s, d, 2538, 18) /\ s.mem[16] = h /\ s.mem[17] = l
          /\ ("C" \in s.P <=> Hi(j.a) >= 128)
          /\ more = 4 /\ top = (h + 255) % 256
       \/ /\ At(s, d, 2540, 19 + more) /\ s.mem[16] = top /\ s.mem[17] = l
          /\ ("C" \in s.P <=> Hi(j.a) >= 128)
       \/ /\ At(s, d, 2543, 25 + more) /\ s.mem[16] = top /\ s.mem[17] = (l + 255) % 256
          /\ ("C" \in s.P <=> Hi(j.a) >= 128)
       \/ /\ At(s, d, StopAt, 28 + more) /\ s.mem[16] = top /\ s.mem[17] = (l + 255) % 256
          /\ ("C" \in s.P <=> Hi(j.a) >= 128)

LEMMA DoubleListed ==
    /\ Lists(2528, "LDX", "imm", 1)
    /\ Lists(2530, "ASL", "zpx", 16)
    /\ Lists(2532, "ROL", "zp", 16)
    /\ Lists(2534, "LDA", "zp", 17)
    /\ Lists(2536, "BNE", "rel", 2)
    /\ Lists(2538, "DEC", "zp", 16)
    /\ Lists(2540, "DEC", "abs", 17)
    /\ Lists(2543, "JMP", "abs", StopAt)
<1>1. "double" \in DOMAIN Texts
    BY DEF Texts
<1>2. Lists(2528, "LDX", "imm", 1)
    BY <1>1, TextsListed DEF Lists, Texts, A, B, R, Saved, Copied, Pointer,
       NmiCount, BrkCount, Vector, StopAt
<1>3. Lists(2530, "ASL", "zpx", 16)
    BY <1>1, TextsListed DEF Lists, Texts, A, B, R, Saved, Copied, Pointer,
       NmiCount, BrkCount, Vector, StopAt
<1>4. Lists(2532, "ROL", "zp", 16)
    BY <1>1, TextsListed DEF Lists, Texts, A, B, R, Saved, Copied, Pointer,
       NmiCount, BrkCount, Vector, StopAt
<1>5. Lists(2534, "LDA", "zp", 17)
    BY <1>1, TextsListed DEF Lists, Texts, A, B, R, Saved, Copied, Pointer,
       NmiCount, BrkCount, Vector, StopAt
<1>6. Lists(2536, "BNE", "rel", 2)
    BY <1>1, TextsListed DEF Lists, Texts, A, B, R, Saved, Copied, Pointer,
       NmiCount, BrkCount, Vector, StopAt
<1>7. Lists(2538, "DEC", "zp", 16)
    BY <1>1, TextsListed DEF Lists, Texts, A, B, R, Saved, Copied, Pointer,
       NmiCount, BrkCount, Vector, StopAt
<1>8. Lists(2540, "DEC", "abs", 17)
    BY <1>1, TextsListed DEF Lists, Texts, A, B, R, Saved, Copied, Pointer,
       NmiCount, BrkCount, Vector, StopAt
<1>9. Lists(2543, "JMP", "abs", StopAt)
    BY <1>1, TextsListed DEF Lists, Texts, A, B, R, Saved, Copied, Pointer,
       NmiCount, BrkCount, Vector, StopAt
<1>. QED BY <1>2, <1>3, <1>4, <1>5, <1>6, <1>7, <1>8, <1>9

LEMMA DoubleStep ==
    ASSUME core \in CoreState, ExecuteInstruction,
           NEW j, j.a \in UInt16, NEW l, NEW h, NEW top, NEW more \in {0, 4}, DoublesTo(j, l, h, top,
           more), NEW d \in Nat, DoubleAt(l, h, top, more, j, core, d), core.PC # StopAt
    PROVE  DoubleAt(l, h, top, more, j, core', d) /\ core'.mem[NmiCount] = core.mem[NmiCount]
<1>. DEFINE Onward == DoubleAt(l, h, top, more, j, core', d) /\ core'.mem[NmiCount] = core.mem[NmiCount]
            Unmoved == /\ core'.SP = 255
<1>. SUFFICES Onward
    OBVIOUS
<1>. HIDE DEF Onward
<1>1. /\ core.SP = 255
    BY DEF DoubleAt
<1>2. core'.mem = core.mem /\ core'.SP = core.SP => Unmoved
    BY <1>1
<1>3. CASE At(core, d, 2528, 0) /\ core.mem[16] = Hi(j.a) /\ core.mem[17] = Lo(j.a)
  <2>1. Doing("LDX", "imm", 1)
      BY DoubleListed, Reached, <1>3 DEF At
  <2>2. Goes(core.A, 1, core.Y, core.SP, 2, SetZN(core.P, 1), 2, core.mem)
      BY <2>1, LoadImm DEF Loads
  <2>3. At(core', d, 2530, 2)
      BY <1>3, <2>2 DEF At, Goes, GoesTo
  <2>. QED BY <1>2, <1>3, <2>2, <2>3 DEF Onward, DoubleAt, Goes, GoesTo
<1>4. CASE At(core, d, 2530, 2) /\ core.mem[16] = Hi(j.a) /\ core.mem[17] = Lo(j.a) /\ core.X = 1
  <2>1. Doing("ASL", "zpx", 16)
      BY DoubleListed, Reached, <1>4 DEF At
  <2>2. (16 + core.X) % 256 = 17
      BY <1>4
  <2>3. PICK old : old = core.mem[17]
      OBVIOUS
  <2>4. l = (2 * old) % 256 /\ old = Lo(j.a)
      BY <1>4, <2>3 DEF DoublesTo
  <2>5. PICK q : q = SetFlag(core.P, "C", Bit7(old))
      OBVIOUS
  <2>6. Goes(core.A, core.X, core.Y, core.SP, 2, SetZN(q, l), 6, Wrote(core.mem, 17, l))
      BY <2>1, <2>2, <2>4, <2>3, <2>5, ModifyDoes, Roomy DEF Modifies, Shifts
  <2>7. "C" \in SetZN(q, l) <=> Lo(j.a) >= 128
      BY <2>4, <2>5, SetZNKeeps DEF SetFlag, Bit7
  <2>8. /\ Unmoved /\ core'.mem[16] = Hi(j.a) /\ core'.mem[17] = l
         /\ core'.mem[NmiCount] = core.mem[NmiCount]
      BY <1>1, <1>4, <2>6, Roomy, Parts, Written DEF Goes, GoesTo, NmiCount
  <2>9. At(core', d, 2532, 8)
      BY <1>4, <2>6 DEF At, Goes, GoesTo
  <2>. QED BY <1>4, <2>6, <2>9, <2>7, <2>8 DEF Onward, DoubleAt, Goes, GoesTo
<1>5. CASE /\ At(core, d, 2532, 8) /\ core.mem[16] = Hi(j.a) /\ core.mem[17] = l
           /\ ("C" \in core.P <=> Lo(j.a) >= 128)
  <2>1. Doing("ROL", "zp", 16)
      BY DoubleListed, Reached, <1>5 DEF At
  <2>2. h = (2 * Hi(j.a) + Carry(core.P)) % 256
      BY <1>5 DEF DoublesTo, Carry
  <2>3. PICK q : q = SetFlag(core.P, "C", Bit7(Hi(j.a)))
      OBVIOUS
  <2>4. Goes(core.A, core.X, core.Y, core.SP, 2, SetZN(q, h), 5, Wrote(core.mem, 16, h))
      BY <1>5, <2>1, <2>2, <2>3, ModifyDoes, Roomy DEF Modifies, Shifts
  <2>5. "C" \in SetZN(q, h) <=> Hi(j.a) >= 128
      BY <2>3, SetZNKeeps DEF SetFlag, Bit7
  <2>6. /\ Unmoved /\ core'.mem[16] = h /\ core'.mem[17] = l
         /\ core'.mem[NmiCount] = core.mem[NmiCount]
      BY <1>1, <1>5, <2>4, Roomy, Parts, Written DEF Goes, GoesTo, NmiCount
  <2>7. At(core', d, 2534, 13)
      BY <1>5, <2>4 DEF At, Goes, GoesTo
  <2>. QED BY <1>5, <2>4, <2>7, <2>5, <2>6 DEF Onward, DoubleAt, Goes, GoesTo
<1>6. CASE /\ At(core, d, 2534, 13) /\ core.mem[16] = h /\ core.mem[17] = l
           /\ ("C" \in core.P <=> Hi(j.a) >= 128)
  <2>1. Doing("LDA", "zp", 17)
      BY DoubleListed, Reached, <1>6 DEF At
  <2>2. Goes(l, core.X, core.Y, core.SP, 2, SetZN(core.P, l), 3, core.mem)
      BY <1>1, <1>6, <2>1, LoadZp, Roomy DEF Loads
  <2>3. ("C" \in SetZN(core.P, l) <=> Hi(j.a) >= 128) /\ ("Z" \in SetZN(core.P, l) <=> l = 0)
      BY <1>6, SetZNKeeps, SetZNSets
  <2>4. At(core', d, 2536, 16)
      BY <1>6, <2>2 DEF At, Goes, GoesTo
  <2>. QED BY <1>2, <1>6, <2>2, <2>4, <2>3 DEF Onward, DoubleAt, Goes, GoesTo
<1>7. CASE /\ At(core, d, 2536, 16) /\ core.mem[16] = h /\ core.mem[17] = l
           /\ ("C" \in core.P <=> Hi(j.a) >= 128)
           /\ ("Z" \in core.P <=> l = 0)
  <2>1. Doing("BNE", "rel", 2)
      BY DoubleListed, Reached, <1>7 DEF At
  <2>2. 2540 = Target(2) /\ 3 = Paid(2540)
      BY <1>7 DEF Target, Paid, At, PageOf
  <2>3. CASE "Z" \notin core.P
    <3>1. GoesTo(core.A, core.X, core.Y, core.SP, 2540, core.P, 3, core.mem)
        BY <2>1, <2>2, <2>3, BranchDoes DEF Branching
    <3>2. more = 0 /\ core.mem[16] = top
        BY <1>7, <2>3 DEF DoublesTo
    <3>3. At(core', d, 2540, 19 + more)
        BY <1>7, <3>1, <3>2 DEF At, Goes, GoesTo
    <3>. QED BY <1>2, <1>7, <3>1, <3>2, <3>3 DEF Onward, DoubleAt, Goes, GoesTo
  <2>4. CASE "Z" \in core.P
    <3>1. Goes(core.A, core.X, core.Y, core.SP, 2, core.P, 2, core.mem)
        BY <2>1, <2>2, <2>4, BranchDoes DEF Branching
    <3>2. more = 4 /\ top = (h + 255) % 256
        BY <1>7, <2>4 DEF DoublesTo
    <3>3. At(core', d, 2538, 18)
        BY <1>7, <3>1, <3>2 DEF At, Goes, GoesTo
    <3>. QED BY <1>2, <1>7, <3>1, <3>2, <3>3 DEF Onward, DoubleAt, Goes, GoesTo
  <2>. QED BY <2>3, <2>4
<1>8. CASE /\ At(core, d, 2538, 18) /\ core.mem[16] = h /\ core.mem[17] = l
           /\ ("C" \in core.P <=> Hi(j.a) >= 128)
           /\ more = 4 /\ top = (h + 255) % 256
  <2>1. Doing("DEC", "zp", 16)
      BY DoubleListed, Reached, <1>8 DEF At
  <2>2. Goes(core.A, core.X, core.Y, core.SP, 2, SetZN(core.P, top), 5, Wrote(core.mem, 16, top))
      BY <1>8, <2>1, ModifyDoes, Roomy DEF Modifies, Shifts
  <2>3. "C" \in SetZN(core.P, top) <=> Hi(j.a) >= 128
      BY <1>8, SetZNKeeps
  <2>4. /\ Unmoved /\ core'.mem[16] = top /\ core'.mem[17] = l
         /\ core'.mem[NmiCount] = core.mem[NmiCount]
      BY <1>1, <1>8, <2>2, Roomy, Parts, Written DEF Goes, GoesTo, NmiCount
  <2>5. At(core', d, 2540, 19 + more)
      BY <1>8, <2>2 DEF At, Goes, GoesTo
  <2>. QED BY <1>8, <2>2, <2>5, <2>3, <2>4 DEF Onward, DoubleAt, Goes, GoesTo
<1>9. CASE /\ At(core, d, 2540, 19 + more) /\ core.mem[16] = top /\ core.mem[17] = l
           /\ ("C" \in core.P <=> Hi(j.a) >= 128)
  <2>1. Doing("DEC", "abs", 17)
      BY DoubleListed, Reached, <1>9 DEF At
  <2>2. PICK v : v = (l + 255) % 256
      OBVIOUS
  <2>3. Goes(core.A, core.X, core.Y, core.SP, 3, SetZN(core.P, v), 6, Wrote(core.mem, 17, v))
      BY <1>9, <2>1, <2>2, ModifyDoes, Roomy DEF Modifies, Shifts
  <2>4. "C" \in SetZN(core.P, v) <=> Hi(j.a) >= 128
      BY <1>9, SetZNKeeps
  <2>5. /\ Unmoved /\ core'.mem[16] = top /\ core'.mem[17] = v
         /\ core'.mem[NmiCount] = core.mem[NmiCount]
      BY <1>1, <1>9, <2>3, Roomy, Parts, Written DEF Goes, GoesTo, NmiCount
  <2>6. At(core', d, 2543, 25 + more)
      BY <1>9, <2>3 DEF At, Goes, GoesTo
  <2>. QED BY <1>9, <2>3, <2>6, <2>4, <2>5, <2>2 DEF Onward, DoubleAt, Goes, GoesTo
<1>10. CASE /\ At(core, d, 2543, 25 + more) /\ core.mem[16] = top
            /\ core.mem[17] = (l + 255) % 256
            /\ ("C" \in core.P <=> Hi(j.a) >= 128)
  <2>1. Doing("JMP", "abs", StopAt)
      BY DoubleListed, Reached, <1>10 DEF At
  <2>2. GoesTo(core.A, core.X, core.Y, core.SP, StopAt, core.P, 3, core.mem)
      BY <2>1, JumpDoes
  <2>3. At(core', d, StopAt, 28 + more)
      BY <1>10, <2>2 DEF At, Goes, GoesTo
  <2>. QED BY <1>2, <1>10, <2>2, <2>3 DEF Onward, DoubleAt, Goes, GoesTo
<1>11. ~At(core, d, StopAt, 28 + more)
    BY DEF At
<1>. QED BY <1>3, <1>4, <1>5, <1>6, <1>7, <1>8, <1>9, <1>10, <1>11 DEF DoubleAt

----------------------------------------------------------------------------
(* Copying four bytes, the second pair from the next page when the first   *)
(* operand says so.                                                        *)
Sourced(m) == \A c \in Source : m[c] = c % 256
Copies(m, a, y) == \A k \in 0 .. 3 : k < y => m[Copied + k] = (a + k) % 256
CopiesNext(m, a, y) == Copies(m, a, y + 1)
Late(a, y) == IF a # 766 THEN 0 ELSE IF y = 4 THEN 2 ELSE IF y = 3 THEN 1 ELSE 0
CopyClock(a, y) == 13 + 17 * y + Late(a, y)
NextClock(a, y) == CopyClock(a, y + 1)

LEMMA SourceKept ==
    ASSUME NEW m \in RAM, Sourced(m), NEW at \in Cells, at < 700, NEW v
    PROVE  Sourced(Wrote(m, at, v))
<1>1. \A c \in Source : c \in Cells /\ c # at
    BY Roomy DEF Source
<1>. QED BY <1>1, Written DEF Sourced

LEMMA CopiesOn ==
    ASSUME NEW m \in RAM, NEW a, NEW y \in 0 .. 3, Copies(m, a, y), NEW v, v = (a + y) % 256,
           NEW at \in Cells, at = Copied + y
    PROVE  CopiesNext(Wrote(m, at, v), a, y)
<1>1. ASSUME NEW k \in 0 .. 3, k < y + 1 PROVE Wrote(m, at, v)[Copied + k] = (a + k) % 256
  <2>1. PICK c : c = Copied + k
      OBVIOUS
  <2>2. c \in Cells
      BY <2>1, Roomy DEF Copied
  <2>3. CASE k = y
      BY <2>1, <2>2, <2>3, Written
  <2>4. CASE k # y
    <3>1. k < y
        BY <1>1, <2>4
    <3>2. m[c] = (a + k) % 256
        BY <2>1, <3>1 DEF Copies
    <3>3. c # at
        BY <2>1, <2>4 DEF Copied
    <3>. QED BY <2>1, <2>2, <3>2, <3>3, Written
  <2>. QED BY <2>3, <2>4
<1>. QED BY <1>1 DEF CopiesNext, Copies

LEMMA Fetches ==
    ASSUME NEW a \in {764, 766}, NEW y \in 0 .. 3
    PROVE  /\ Word(Lo(a), Hi(a)) = a
           /\ a + y \in Source /\ (a + y) % 65536 = a + y
           /\ PageOf(a) # PageOf(a + y) => NextClock(a, y) = CopyClock(a, y) + 18
           /\ PageOf(a) = PageOf(a + y) => NextClock(a, y) = CopyClock(a, y) + 17
           /\ CopyClock(a, y) \in Nat /\ NextClock(a, y) \in Nat
<1>1. y = 0 \/ y = 1 \/ y = 2 \/ y = 3
    OBVIOUS
<1>2. CASE a = 764
    BY <1>1, <1>2 DEF Word, Lo, Hi, Source, PageOf, NextClock, CopyClock, Late
<1>3. CASE a = 766
    BY <1>1, <1>3 DEF Word, Lo, Hi, Source, PageOf, NextClock, CopyClock, Late
<1>. QED BY <1>2, <1>3

LEMMA ComparesEqual ==
    ASSUME NEW a \in 0 .. 9, NEW m \in 0 .. 9, NEW p, NEW q, q = Compare(a, m, p)
    PROVE  "Z" \in q <=> a = m
<1>1. (a - m) % 256 = 0 <=> a = m
    OBVIOUS
<1>. QED BY <1>1 DEF Compare, SetZN, SetFlag

CopyAt(j, s, d) ==
    /\ s.SP = 255
    /\ s.mem[255] = Lo(j.a)
    /\ s.mem[0] = Hi(j.a)
    /\ Sourced(s.mem)
    /\ \/ At(s, d, 2304, 0)
       \/ At(s, d, 2306, 2) /\ s.X = 5
       \/ At(s, d, 2308, 8) /\ s.A = Lo(j.a)
       \/ At(s, d, 2310, 11) /\ s.mem[36] = Lo(j.a)
       \/ /\ At(s, d, 2312, CopyClock(j.a, s.Y)) /\ s.Y \in 0 .. 3 /\ Copies(s.mem, j.a, s.Y)
          /\ s.mem[36] = Lo(j.a)
       \/ /\ At(s, d, 2314, NextClock(j.a, s.Y) - 12) /\ s.Y \in 0 .. 3
          /\ Copies(s.mem, j.a, s.Y) /\ s.mem[36] = Lo(j.a) /\ s.A = (j.a + s.Y) % 256
       \/ /\ At(s, d, 2317, NextClock(j.a, s.Y) - 7) /\ s.Y \in 0 .. 3
          /\ CopiesNext(s.mem, j.a, s.Y) /\ s.mem[36] = Lo(j.a)
       \/ /\ At(s, d, 2318, CopyClock(j.a, s.Y) - 5) /\ s.Y \in 1 .. 4
          /\ Copies(s.mem, j.a, s.Y) /\ s.mem[36] = Lo(j.a)
       \/ /\ At(s, d, 2320, CopyClock(j.a, s.Y) - 3) /\ s.Y \in 1 .. 4
          /\ Copies(s.mem, j.a, s.Y) /\ s.mem[36] = Lo(j.a)
          /\ ("Z" \in s.P <=> s.Y = 4)
       \/ At(s, d, 2322, CopyClock(j.a, 4) - 1) /\ Copies(s.mem, j.a, 4) /\ s.mem[36] = Lo(j.a)
       \/ At(s, d, StopAt, CopyClock(j.a, 4) + 2) /\ Copies(s.mem, j.a, 4) /\ s.mem[36] = Lo(j.a)

LEMMA CopyListed ==
    /\ Lists(2304, "LDX", "imm", 5)
    /\ Lists(2306, "LDA", "indx", 250)
    /\ Lists(2308, "STA", "zp", 36)
    /\ Lists(2310, "LDY", "imm", 0)
    /\ Lists(2312, "LDA", "indy", 255)
    /\ Lists(2314, "STA", "absy", 32)
    /\ Lists(2317, "INY", "imp", 0)
    /\ Lists(2318, "CPY", "imm", 4)
    /\ Lists(2320, "BNE", "rel", 246)
    /\ Lists(2322, "JMP", "abs", StopAt)
<1>1. "copy" \in DOMAIN Texts
    BY DEF Texts
<1>2. Lists(2304, "LDX", "imm", 5)
    BY <1>1, TextsListed DEF Lists, Texts, A, B, R, Saved, Copied, Pointer,
       NmiCount, BrkCount, Vector, StopAt
<1>3. Lists(2306, "LDA", "indx", 250)
    BY <1>1, TextsListed DEF Lists, Texts, A, B, R, Saved, Copied, Pointer,
       NmiCount, BrkCount, Vector, StopAt
<1>4. Lists(2308, "STA", "zp", 36)
    BY <1>1, TextsListed DEF Lists, Texts, A, B, R, Saved, Copied, Pointer,
       NmiCount, BrkCount, Vector, StopAt
<1>5. Lists(2310, "LDY", "imm", 0)
    BY <1>1, TextsListed DEF Lists, Texts, A, B, R, Saved, Copied, Pointer,
       NmiCount, BrkCount, Vector, StopAt
<1>6. Lists(2312, "LDA", "indy", 255)
    BY <1>1, TextsListed DEF Lists, Texts, A, B, R, Saved, Copied, Pointer,
       NmiCount, BrkCount, Vector, StopAt
<1>7. Lists(2314, "STA", "absy", 32)
    BY <1>1, TextsListed DEF Lists, Texts, A, B, R, Saved, Copied, Pointer,
       NmiCount, BrkCount, Vector, StopAt
<1>8. Lists(2317, "INY", "imp", 0)
    BY <1>1, TextsListed DEF Lists, Texts, A, B, R, Saved, Copied, Pointer,
       NmiCount, BrkCount, Vector, StopAt
<1>9. Lists(2318, "CPY", "imm", 4)
    BY <1>1, TextsListed DEF Lists, Texts, A, B, R, Saved, Copied, Pointer,
       NmiCount, BrkCount, Vector, StopAt
<1>10. Lists(2320, "BNE", "rel", 246)
    BY <1>1, TextsListed DEF Lists, Texts, A, B, R, Saved, Copied, Pointer,
       NmiCount, BrkCount, Vector, StopAt
<1>11. Lists(2322, "JMP", "abs", StopAt)
    BY <1>1, TextsListed DEF Lists, Texts, A, B, R, Saved, Copied, Pointer,
       NmiCount, BrkCount, Vector, StopAt
<1>. QED BY <1>2, <1>3, <1>4, <1>5, <1>6, <1>7, <1>8, <1>9, <1>10, <1>11

LEMMA CopyStep ==
    ASSUME core \in CoreState, ExecuteInstruction,
           NEW j, j.a \in {764, 766}, NEW d \in Nat, CopyAt(j, core, d), core.PC # StopAt
    PROVE  CopyAt(j, core', d) /\ core'.mem[NmiCount] = core.mem[NmiCount]
<1>. DEFINE Onward == CopyAt(j, core', d) /\ core'.mem[NmiCount] = core.mem[NmiCount]
            Unmoved == /\ core'.SP = 255
                     /\ core'.mem[255] = Lo(j.a)
                     /\ core'.mem[0] = Hi(j.a)
                     /\ Sourced(core'.mem)
<1>. SUFFICES Onward
    OBVIOUS
<1>. HIDE DEF Onward
<1>1. /\ core.SP = 255
      /\ core.mem[255] = Lo(j.a)
      /\ core.mem[0] = Hi(j.a)
      /\ Sourced(core.mem)
    BY DEF CopyAt
<1>2. core'.mem = core.mem /\ core'.SP = core.SP => Unmoved
    BY <1>1
<1>3. CASE At(core, d, 2304, 0)
  <2>1. Doing("LDX", "imm", 5)
      BY CopyListed, Reached, <1>3 DEF At
  <2>2. Goes(core.A, 5, core.Y, core.SP, 2, SetZN(core.P, 5), 2, core.mem)
      BY <2>1, LoadImm DEF Loads
  <2>3. At(core', d, 2306, 2)
      BY <1>3, <2>2 DEF At, Goes, GoesTo
  <2>. QED BY <1>2, <1>3, <2>2, <2>3 DEF Onward, CopyAt, Goes, GoesTo
<1>4. CASE At(core, d, 2306, 2) /\ core.X = 5
  <2>1. Doing("LDA", "indx", 250)
      BY CopyListed, Reached, <1>4 DEF At
  <2>2. (250 + core.X) % 256 = 255 /\ (255 + 1) % 256 = 0
      BY <1>4
  <2>3. /\ j.a \in Cells /\ j.a = Word(core.mem[255], core.mem[0])
         /\ core.mem[j.a] = Lo(j.a)
      BY <1>1, Fetches, Roomy DEF Sourced, Lo, Source
  <2>4. Goes(Lo(j.a), core.X, core.Y, core.SP, 2, SetZN(core.P, Lo(j.a)), 6, core.mem)
      BY <2>1, <2>2, <2>3, LoadIndexed, Roomy
  <2>5. At(core', d, 2308, 8)
      BY <1>4, <2>4 DEF At, Goes, GoesTo
  <2>. QED BY <1>2, <1>4, <2>4, <2>5 DEF Onward, CopyAt, Goes, GoesTo
<1>5. CASE At(core, d, 2308, 8) /\ core.A = Lo(j.a)
  <2>1. Doing("STA", "zp", 36)
      BY CopyListed, Reached, <1>5 DEF At
  <2>2. Goes(core.A, core.X, core.Y, core.SP, 2, core.P, 3, Wrote(core.mem, 36, core.A))
      BY <2>1, StoreZp, Roomy DEF Stores
  <2>3. /\ Unmoved /\ core'.mem[36] = core.A
         /\ core'.mem[NmiCount] = core.mem[NmiCount]
      BY <1>1, <1>5, <2>2, Roomy, Parts, Written, SourceKept DEF Goes, GoesTo, NmiCount
  <2>4. At(core', d, 2310, 11)
      BY <1>5, <2>2 DEF At, Goes, GoesTo
  <2>. QED BY <1>5, <2>2, <2>4, <2>3 DEF Onward, CopyAt, Goes, GoesTo
<1>6. CASE At(core, d, 2310, 11) /\ core.mem[36] = Lo(j.a)
  <2>1. Doing("LDY", "imm", 0)
      BY CopyListed, Reached, <1>6 DEF At
  <2>2. Goes(core.A, core.X, 0, core.SP, 2, SetZN(core.P, 0), 2, core.mem)
      BY <2>1, LoadImm DEF Loads
  <2>3. Copies(core.mem, j.a, 0) /\ CopyClock(j.a, 0) = 13
      BY DEF Copies, CopyClock, Late
  <2>4. At(core', d, 2312, CopyClock(j.a, 0))
      BY <1>6, <2>2, <2>3 DEF At, Goes, GoesTo
  <2>. QED BY <1>2, <1>6, <2>2, <2>4, <2>3 DEF Onward, CopyAt, Goes, GoesTo
<1>7. CASE /\ At(core, d, 2312, CopyClock(j.a, core.Y)) /\ core.Y \in 0 .. 3
           /\ Copies(core.mem, j.a, core.Y) /\ core.mem[36] = Lo(j.a)
  <2>1. Doing("LDA", "indy", 255)
      BY CopyListed, Reached, <1>7 DEF At
  <2>2. PICK v, at, base : /\ v = (j.a + core.Y) % 256 /\ at = j.a + core.Y
                            /\ base = j.a
      OBVIOUS
  <2>3. /\ (255 + 1) % 256 = 0 /\ base = Word(core.mem[255], core.mem[0])
         /\ at \in Cells /\ at = (base + core.Y) % 65536 /\ v = core.mem[at]
      BY <1>1, <1>7, <2>2, Fetches, Roomy DEF Sourced
  <2>4. PICK cost : cost = IF PageOf(base) # PageOf(at) THEN 6 ELSE 5
      OBVIOUS
  <2>5. Goes(v, core.X, core.Y, core.SP, 2, SetZN(core.P, v), cost, core.mem)
      BY <2>1, <2>3, <2>4, LoadThrough, Roomy
  <2>6. At(core', d, 2314, NextClock(j.a, core.Y) - 12)
      BY <1>7, <2>5, <2>2, <2>4, Fetches DEF At, Goes, GoesTo
  <2>. QED BY <1>2, <1>7, <2>5, <2>6, <2>2 DEF Onward, CopyAt, Goes, GoesTo
<1>8. CASE /\ At(core, d, 2314, NextClock(j.a, core.Y) - 12) /\ core.Y \in 0 .. 3
           /\ Copies(core.mem, j.a, core.Y) /\ core.mem[36] = Lo(j.a)
           /\ core.A = (j.a + core.Y) % 256
  <2>1. Doing("STA", "absy", 32)
      BY CopyListed, Reached, <1>8 DEF At
  <2>2. PICK at \in Cells : at = 32 + core.Y /\ at = (32 + core.Y) % 65536 /\ at < 36
      BY <1>8, Roomy
  <2>3. Goes(core.A, core.X, core.Y, core.SP, 3, core.P, 5, Wrote(core.mem, at, core.A))
      BY <2>1, <2>2, StoreIndexed
  <2>4. CopiesNext(Wrote(core.mem, at, core.A), j.a, core.Y)
      BY <1>8, <2>2, Parts, CopiesOn DEF Copied
  <2>5. /\ Unmoved /\ core'.mem[36] = Lo(j.a)
         /\ core'.mem[NmiCount] = core.mem[NmiCount]
      BY <1>1, <1>8, <2>3, Roomy, Parts, Written, <2>2, SourceKept DEF Goes, GoesTo, NmiCount
  <2>6. At(core', d, 2317, NextClock(j.a, core.Y) - 7)
      BY <1>8, <2>3, Fetches DEF At, Goes, GoesTo
  <2>. QED BY <1>8, <2>3, <2>6, <2>4, <2>5 DEF Onward, CopyAt, Goes, GoesTo
<1>9. CASE /\ At(core, d, 2317, NextClock(j.a, core.Y) - 7) /\ core.Y \in 0 .. 3
           /\ CopiesNext(core.mem, j.a, core.Y) /\ core.mem[36] = Lo(j.a)
  <2>1. Doing("INY", "imp", 0)
      BY CopyListed, Reached, <1>9 DEF At
  <2>2. PICK y \in 1 .. 4 : y = core.Y + 1
      BY <1>9
  <2>3. (core.Y + 1) % 256 = y
      BY <1>9, <2>2
  <2>4. Goes(core.A, core.X, y, core.SP, 1, SetZN(core.P, y), 2, core.mem)
      BY <2>1, <2>3, CountDoes
  <2>5. Copies(core.mem, j.a, y) /\ CopyClock(j.a, y) = NextClock(j.a, core.Y)
      BY <1>9, <2>2 DEF CopiesNext, NextClock
  <2>6. At(core', d, 2318, CopyClock(j.a, y) - 5)
      BY <1>9, <2>4, <2>2, <2>5, Fetches DEF At, Goes, GoesTo
  <2>. QED BY <1>2, <1>9, <2>4, <2>6, <2>5, <2>2 DEF Onward, CopyAt, Goes, GoesTo
<1>10. CASE /\ At(core, d, 2318, CopyClock(j.a, core.Y) - 5) /\ core.Y \in 1 .. 4
            /\ Copies(core.mem, j.a, core.Y) /\ core.mem[36] = Lo(j.a)
  <2>1. Doing("CPY", "imm", 4)
      BY CopyListed, Reached, <1>10 DEF At
  <2>2. PICK p : p = Compare(core.Y, 4, core.P)
      OBVIOUS
  <2>3. Goes(core.A, core.X, core.Y, core.SP, 2, p, 2, core.mem)
      BY <2>1, <2>2, CompareDoes DEF Reads8
  <2>4. CopyClock(j.a, core.Y) \in Nat
      BY <1>10 DEF CopyClock, Late
  <2>5. "Z" \in p <=> core.Y = 4
      BY <1>10, <2>2, ComparesEqual
  <2>6. At(core', d, 2320, CopyClock(j.a, core.Y) - 3)
      BY <1>10, <2>3, <2>4 DEF At, Goes, GoesTo
  <2>. QED BY <1>2, <1>10, <2>3, <2>6, <2>5 DEF Onward, CopyAt, Goes, GoesTo
<1>11. CASE /\ At(core, d, 2320, CopyClock(j.a, core.Y) - 3) /\ core.Y \in 1 .. 4
            /\ Copies(core.mem, j.a, core.Y) /\ core.mem[36] = Lo(j.a)
            /\ ("Z" \in core.P <=> core.Y = 4)
  <2>1. Doing("BNE", "rel", 246)
      BY CopyListed, Reached, <1>11 DEF At
  <2>2. 2312 = Target(246) /\ 3 = Paid(2312)
      BY <1>11 DEF Target, Paid, At, PageOf
  <2>3. CASE "Z" \notin core.P
    <3>1. GoesTo(core.A, core.X, core.Y, core.SP, 2312, core.P, 3, core.mem)
        BY <2>1, <2>2, <2>3, BranchDoes DEF Branching
    <3>2. core.Y \in 0 .. 3 /\ CopyClock(j.a, core.Y) \in Nat
        BY <1>11, <2>3 DEF CopyClock, Late
    <3>3. At(core', d, 2312, CopyClock(j.a, core.Y))
        BY <1>11, <3>1, <3>2 DEF At, Goes, GoesTo
    <3>. QED BY <1>2, <1>11, <3>1, <3>2, <3>3 DEF Onward, CopyAt, Goes, GoesTo
  <2>4. CASE "Z" \in core.P
    <3>1. Goes(core.A, core.X, core.Y, core.SP, 2, core.P, 2, core.mem)
        BY <2>1, <2>2, <2>4, BranchDoes DEF Branching
    <3>2. core.Y = 4 /\ CopyClock(j.a, core.Y) \in Nat
        BY <1>11, <2>4 DEF CopyClock, Late
    <3>3. At(core', d, 2322, CopyClock(j.a, 4) - 1)
        BY <1>11, <3>1, <3>2 DEF At, Goes, GoesTo
    <3>. QED BY <1>2, <1>11, <3>1, <3>2, <3>3 DEF Onward, CopyAt, Goes, GoesTo
  <2>. QED BY <2>3, <2>4
<1>12. CASE /\ At(core, d, 2322, CopyClock(j.a, 4) - 1) /\ Copies(core.mem, j.a, 4)
            /\ core.mem[36] = Lo(j.a)
  <2>1. Doing("JMP", "abs", StopAt)
      BY CopyListed, Reached, <1>12 DEF At
  <2>2. CopyClock(j.a, 4) \in Nat
      BY DEF CopyClock, Late
  <2>3. GoesTo(core.A, core.X, core.Y, core.SP, StopAt, core.P, 3, core.mem)
      BY <2>1, JumpDoes
  <2>4. At(core', d, StopAt, CopyClock(j.a, 4) + 2)
      BY <1>12, <2>3, <2>2 DEF At, Goes, GoesTo
  <2>. QED BY <1>2, <1>12, <2>3, <2>4 DEF Onward, CopyAt, Goes, GoesTo
<1>13. ~At(core, d, StopAt, CopyClock(j.a, 4) + 2)
    BY DEF At
<1>. QED BY <1>3, <1>4, <1>5, <1>6, <1>7, <1>8, <1>9, <1>10, <1>11, <1>12, <1>13 DEF CopyAt

----------------------------------------------------------------------------
(* Merging bits under a mask and testing the result.                       *)
LEMMA StackRoomy ==
    /\ 511 \in Cells /\ 510 \in Cells /\ 509 \in Cells /\ 508 \in Cells /\ 507 \in Cells
    /\ 506 \in Cells /\ 505 \in Cells /\ 504 \in Cells /\ 503 \in Cells
    /\ 256 \in Cells /\ 257 \in Cells
BY Roomy DEF Stack

OnlyZN(p) == p \subseteq {"Z", "N"}
Tested(r, m) ==
    {f \in {"Z"} : And(r, m) = 0} \cup {f \in {"V"} : HasBit(m, 64)} \cup {f \in {"N"} : Bit7(m)}
BitSets(p, r, m) ==
    SetFlag(SetFlag(SetFlag(p, "Z", And(r, m) = 0), "V", HasBit(m, 64)), "N", Bit7(m))

LEMMA OnlyZNKept ==
    ASSUME NEW p, OnlyZN(p), NEW v
    PROVE  OnlyZN(SetZN(p, v))
BY DEF OnlyZN, SetZN, SetFlag

LEMMA TestedExactly ==
    ASSUME NEW p, OnlyZN(p), NEW r, NEW m
    PROVE  BitSets(p, r, m) = Tested(r, m)
BY DEF OnlyZN, BitSets, Tested, SetFlag

(* What the merge computes on its way. *)
MergesTo(j, r1, r2, r3, r4, f) ==
    /\ r1 = And(Lo(j.a), Lo(j.b))
    /\ r2 = Xor(Lo(j.b), 255)
    /\ r3 = And(r2, Hi(j.b))
    /\ r4 = Or(r3, r1)
    /\ f = FlagByte8(Tested(r4, Lo(j.b)), TRUE)

LEMMA VectorRead ==
    ASSUME core \in CoreState, core.mem[1279] = 64, core.mem[1024] = 6
    PROVE  ReadBug16(1279) = 1600
<1>1. DOMAIN core.mem = Cells
    BY Parts DEF RAM
<1>2. PageOf(1279) = 4 /\ (1279 + 1) % 256 = 0
    BY DEF PageOf
<1>. QED BY <1>1, <1>2, Roomy DEF ReadBug16, Peek, Word

MergeAt(r1, r2, r3, r4, f, j, s, d) ==
    /\ s.mem[17] = Lo(j.a)
    /\ s.mem[18] = Hi(j.b)
    /\ s.mem[19] = Lo(j.b)
    /\ s.mem[1279] = 64
    /\ s.mem[1024] = 6
    /\ \/ At(s, d, 2432, 0) /\ s.SP = 255 /\ OnlyZN(s.P)
       \/ At(s, d, 2434, 3) /\ s.SP = 255 /\ OnlyZN(s.P) /\ s.A = Lo(j.a)
       \/ At(s, d, 2436, 6) /\ s.SP = 255 /\ OnlyZN(s.P) /\ s.A = r1
       \/ At(s, d, 2438, 9) /\ s.SP = 255 /\ OnlyZN(s.P) /\ s.mem[20] = r1
       \/ At(s, d, 2440, 12) /\ s.SP = 255 /\ OnlyZN(s.P) /\ s.mem[20] = r1 /\ s.A = Lo(j.b)
       \/ At(s, d, 2442, 14) /\ s.SP = 255 /\ OnlyZN(s.P) /\ s.mem[20] = r1 /\ s.A = r2
       \/ At(s, d, 2444, 17) /\ s.SP = 255 /\ OnlyZN(s.P) /\ s.mem[20] = r1 /\ s.A = r3
       \/ At(s, d, 2446, 20) /\ s.SP = 255 /\ OnlyZN(s.P) /\ s.A = r4
       \/ At(s, d, 2448, 23) /\ s.SP = 255 /\ OnlyZN(s.P) /\ s.A = r4 /\ s.mem[20] = r4
       \/ At(s, d, 2450, 25) /\ s.SP = 255 /\ OnlyZN(s.P) /\ s.A = r4 /\ s.mem[20] = r4 /\ s.Y = 7
       \/ /\ At(s, d, 2453, 29) /\ s.SP = 255 /\ s.mem[20] = r4 /\ s.Y = 7
          /\ s.P = Tested(r4, Lo(j.b))
       \/ /\ At(s, d, 1600, 34) /\ s.SP = 255 /\ s.mem[20] = r4 /\ s.Y = 7
          /\ s.P = Tested(r4, Lo(j.b))
       \/ /\ At(s, d, 1602, 37) /\ s.SP = 255 /\ s.mem[20] = r4 /\ s.mem[21] = 7
          /\ s.P = Tested(r4, Lo(j.b))
       \/ At(s, d, 1603, 40) /\ s.SP = 254 /\ s.mem[20] = r4 /\ s.mem[21] = 7 /\ s.mem[511] = f
       \/ At(s, d, 1604, 44) /\ s.SP = 255 /\ s.mem[20] = r4 /\ s.mem[21] = 7 /\ s.A = f
       \/ At(s, d, 1606, 47) /\ s.SP = 255 /\ s.mem[20] = r4 /\ s.mem[21] = 7 /\ s.mem[16] = f
       \/ At(s, d, StopAt, 50) /\ s.SP = 255 /\ s.mem[20] = r4 /\ s.mem[21] = 7 /\ s.mem[16] = f

LEMMA MergeListed ==
    /\ Lists(2432, "LDA", "zp", 17)
    /\ Lists(2434, "AND", "zp", 19)
    /\ Lists(2436, "STA", "zp", 20)
    /\ Lists(2438, "LDA", "zp", 19)
    /\ Lists(2440, "EOR", "imm", 255)
    /\ Lists(2442, "AND", "zp", 18)
    /\ Lists(2444, "ORA", "zp", 20)
    /\ Lists(2446, "STA", "zp", 20)
    /\ Lists(2448, "LDY", "imm", 7)
    /\ Lists(2450, "BIT", "abs", 19)
    /\ Lists(2453, "JMP", "ind", 1279)
    /\ Lists(1600, "STY", "zp", 21)
    /\ Lists(1602, "PHP", "imp", 0)
    /\ Lists(1603, "PLA", "imp", 0)
    /\ Lists(1604, "STA", "zp", 16)
    /\ Lists(1606, "JMP", "abs", StopAt)
<1>1. "merge" \in DOMAIN Texts
    BY DEF Texts
<1>2. "merged" \in DOMAIN Texts
    BY DEF Texts
<1>3. Lists(2432, "LDA", "zp", 17)
    BY <1>1, TextsListed DEF Lists, Texts, A, B, R, Saved, Copied, Pointer,
       NmiCount, BrkCount, Vector, StopAt
<1>4. Lists(2434, "AND", "zp", 19)
    BY <1>1, TextsListed DEF Lists, Texts, A, B, R, Saved, Copied, Pointer,
       NmiCount, BrkCount, Vector, StopAt
<1>5. Lists(2436, "STA", "zp", 20)
    BY <1>1, TextsListed DEF Lists, Texts, A, B, R, Saved, Copied, Pointer,
       NmiCount, BrkCount, Vector, StopAt
<1>6. Lists(2438, "LDA", "zp", 19)
    BY <1>1, TextsListed DEF Lists, Texts, A, B, R, Saved, Copied, Pointer,
       NmiCount, BrkCount, Vector, StopAt
<1>7. Lists(2440, "EOR", "imm", 255)
    BY <1>1, TextsListed DEF Lists, Texts, A, B, R, Saved, Copied, Pointer,
       NmiCount, BrkCount, Vector, StopAt
<1>8. Lists(2442, "AND", "zp", 18)
    BY <1>1, TextsListed DEF Lists, Texts, A, B, R, Saved, Copied, Pointer,
       NmiCount, BrkCount, Vector, StopAt
<1>9. Lists(2444, "ORA", "zp", 20)
    BY <1>1, TextsListed DEF Lists, Texts, A, B, R, Saved, Copied, Pointer,
       NmiCount, BrkCount, Vector, StopAt
<1>10. Lists(2446, "STA", "zp", 20)
    BY <1>1, TextsListed DEF Lists, Texts, A, B, R, Saved, Copied, Pointer,
       NmiCount, BrkCount, Vector, StopAt
<1>11. Lists(2448, "LDY", "imm", 7)
    BY <1>1, TextsListed DEF Lists, Texts, A, B, R, Saved, Copied, Pointer,
       NmiCount, BrkCount, Vector, StopAt
<1>12. Lists(2450, "BIT", "abs", 19)
    BY <1>1, TextsListed DEF Lists, Texts, A, B, R, Saved, Copied, Pointer,
       NmiCount, BrkCount, Vector, StopAt
<1>13. Lists(2453, "JMP", "ind", 1279)
    BY <1>1, TextsListed DEF Lists, Texts, A, B, R, Saved, Copied, Pointer,
       NmiCount, BrkCount, Vector, StopAt
<1>14. Lists(1600, "STY", "zp", 21)
    BY <1>2, TextsListed DEF Lists, Texts, A, B, R, Saved, Copied, Pointer,
       NmiCount, BrkCount, Vector, StopAt
<1>15. Lists(1602, "PHP", "imp", 0)
    BY <1>2, TextsListed DEF Lists, Texts, A, B, R, Saved, Copied, Pointer,
       NmiCount, BrkCount, Vector, StopAt
<1>16. Lists(1603, "PLA", "imp", 0)
    BY <1>2, TextsListed DEF Lists, Texts, A, B, R, Saved, Copied, Pointer,
       NmiCount, BrkCount, Vector, StopAt
<1>17. Lists(1604, "STA", "zp", 16)
    BY <1>2, TextsListed DEF Lists, Texts, A, B, R, Saved, Copied, Pointer,
       NmiCount, BrkCount, Vector, StopAt
<1>18. Lists(1606, "JMP", "abs", StopAt)
    BY <1>2, TextsListed DEF Lists, Texts, A, B, R, Saved, Copied, Pointer,
       NmiCount, BrkCount, Vector, StopAt
<1>. QED BY <1>3, <1>4, <1>5, <1>6, <1>7, <1>8, <1>9, <1>10, <1>11, <1>12, <1>13, <1>14, <1>15,
            <1>16, <1>17, <1>18

LEMMA MergeStep ==
    ASSUME core \in CoreState, ExecuteInstruction,
           NEW j, NEW r1, NEW r2, NEW r3, NEW r4, NEW f, MergesTo(j, r1, r2, r3, r4, f), NEW d \in Nat,
           MergeAt(r1, r2, r3, r4, f, j, core, d), core.PC # StopAt
    PROVE  MergeAt(r1, r2, r3, r4, f, j, core', d) /\ core'.mem[NmiCount] = core.mem[NmiCount]
<1>. DEFINE Onward == MergeAt(r1, r2, r3, r4, f, j, core', d) /\ core'.mem[NmiCount] = core.mem[NmiCount]
            Unmoved == /\ core'.mem[17] = Lo(j.a)
                     /\ core'.mem[18] = Hi(j.b)
                     /\ core'.mem[19] = Lo(j.b)
                     /\ core'.mem[1279] = 64
                     /\ core'.mem[1024] = 6
<1>. SUFFICES Onward
    OBVIOUS
<1>. HIDE DEF Onward
<1>1. /\ core.mem[17] = Lo(j.a)
      /\ core.mem[18] = Hi(j.b)
      /\ core.mem[19] = Lo(j.b)
      /\ core.mem[1279] = 64
      /\ core.mem[1024] = 6
    BY DEF MergeAt
<1>2. core'.mem = core.mem => Unmoved
    BY <1>1
<1>3. CASE At(core, d, 2432, 0) /\ core.SP = 255 /\ OnlyZN(core.P)
  <2>1. Doing("LDA", "zp", 17)
      BY MergeListed, Reached, <1>3 DEF At
  <2>2. Goes(Lo(j.a), core.X, core.Y, core.SP, 2, SetZN(core.P, Lo(j.a)), 3, core.mem)
      BY <1>1, <1>3, <2>1, LoadZp, Roomy DEF Loads
  <2>3. OnlyZN(SetZN(core.P, Lo(j.a)))
      BY <1>3, OnlyZNKept
  <2>4. At(core', d, 2434, 3)
      BY <1>3, <2>2 DEF At, Goes, GoesTo
  <2>. QED BY <1>2, <1>3, <2>2, <2>4, <2>3 DEF Onward, MergeAt, Goes, GoesTo
<1>4. CASE At(core, d, 2434, 3) /\ core.SP = 255 /\ OnlyZN(core.P) /\ core.A = Lo(j.a)
  <2>1. Doing("AND", "zp", 19)
      BY MergeListed, Reached, <1>4 DEF At
  <2>2. r1 = And(core.A, Lo(j.b))
      BY <1>4 DEF MergesTo
  <2>3. Goes(r1, core.X, core.Y, core.SP, 2, SetZN(core.P, r1), 3, core.mem)
      BY <1>1, <1>4, <2>1, <2>2, LogicDoes, Roomy DEF Reads8
  <2>4. OnlyZN(SetZN(core.P, r1))
      BY <1>4, OnlyZNKept
  <2>5. At(core', d, 2436, 6)
      BY <1>4, <2>3 DEF At, Goes, GoesTo
  <2>. QED BY <1>2, <1>4, <2>3, <2>5, <2>4 DEF Onward, MergeAt, Goes, GoesTo
<1>5. CASE At(core, d, 2436, 6) /\ core.SP = 255 /\ OnlyZN(core.P) /\ core.A = r1
  <2>1. Doing("STA", "zp", 20)
      BY MergeListed, Reached, <1>5 DEF At
  <2>2. Goes(core.A, core.X, core.Y, core.SP, 2, core.P, 3, Wrote(core.mem, 20, core.A))
      BY <2>1, StoreZp, Roomy DEF Stores
  <2>3. /\ Unmoved /\ core'.mem[20] = core.A
         /\ core'.mem[NmiCount] = core.mem[NmiCount]
      BY <1>1, <1>5, <2>2, Roomy, Parts, Written DEF Goes, GoesTo, NmiCount
  <2>4. At(core', d, 2438, 9)
      BY <1>5, <2>2 DEF At, Goes, GoesTo
  <2>. QED BY <1>5, <2>2, <2>4, <2>3 DEF Onward, MergeAt, Goes, GoesTo
<1>6. CASE At(core, d, 2438, 9) /\ core.SP = 255 /\ OnlyZN(core.P) /\ core.mem[20] = r1
  <2>1. Doing("LDA", "zp", 19)
      BY MergeListed, Reached, <1>6 DEF At
  <2>2. Goes(Lo(j.b), core.X, core.Y, core.SP, 2, SetZN(core.P, Lo(j.b)), 3, core.mem)
      BY <1>1, <1>6, <2>1, LoadZp, Roomy DEF Loads
  <2>3. OnlyZN(SetZN(core.P, Lo(j.b)))
      BY <1>6, OnlyZNKept
  <2>4. At(core', d, 2440, 12)
      BY <1>6, <2>2 DEF At, Goes, GoesTo
  <2>. QED BY <1>2, <1>6, <2>2, <2>4, <2>3 DEF Onward, MergeAt, Goes, GoesTo
<1>7. CASE /\ At(core, d, 2440, 12) /\ core.SP = 255 /\ OnlyZN(core.P) /\ core.mem[20] = r1
           /\ core.A = Lo(j.b)
  <2>1. Doing("EOR", "imm", 255)
      BY MergeListed, Reached, <1>7 DEF At
  <2>2. r2 = Xor(core.A, 255)
      BY <1>7 DEF MergesTo
  <2>3. Goes(r2, core.X, core.Y, core.SP, 2, SetZN(core.P, r2), 2, core.mem)
      BY <1>1, <1>7, <2>1, <2>2, LogicDoes, Roomy DEF Reads8
  <2>4. OnlyZN(SetZN(core.P, r2))
      BY <1>7, OnlyZNKept
  <2>5. At(core', d, 2442, 14)
      BY <1>7, <2>3 DEF At, Goes, GoesTo
  <2>. QED BY <1>2, <1>7, <2>3, <2>5, <2>4 DEF Onward, MergeAt, Goes, GoesTo
<1>8. CASE /\ At(core, d, 2442, 14) /\ core.SP = 255 /\ OnlyZN(core.P) /\ core.mem[20] = r1
           /\ core.A = r2
  <2>1. Doing("AND", "zp", 18)
      BY MergeListed, Reached, <1>8 DEF At
  <2>2. r3 = And(core.A, Hi(j.b))
      BY <1>8 DEF MergesTo
  <2>3. Goes(r3, core.X, core.Y, core.SP, 2, SetZN(core.P, r3), 3, core.mem)
      BY <1>1, <1>8, <2>1, <2>2, LogicDoes, Roomy DEF Reads8
  <2>4. OnlyZN(SetZN(core.P, r3))
      BY <1>8, OnlyZNKept
  <2>5. At(core', d, 2444, 17)
      BY <1>8, <2>3 DEF At, Goes, GoesTo
  <2>. QED BY <1>2, <1>8, <2>3, <2>5, <2>4 DEF Onward, MergeAt, Goes, GoesTo
<1>9. CASE /\ At(core, d, 2444, 17) /\ core.SP = 255 /\ OnlyZN(core.P) /\ core.mem[20] = r1
           /\ core.A = r3
  <2>1. Doing("ORA", "zp", 20)
      BY MergeListed, Reached, <1>9 DEF At
  <2>2. r4 = Or(core.A, r1)
      BY <1>9 DEF MergesTo
  <2>3. Goes(r4, core.X, core.Y, core.SP, 2, SetZN(core.P, r4), 3, core.mem)
      BY <1>1, <1>9, <2>1, <2>2, LogicDoes, Roomy DEF Reads8
  <2>4. OnlyZN(SetZN(core.P, r4))
      BY <1>9, OnlyZNKept
  <2>5. At(core', d, 2446, 20)
      BY <1>9, <2>3 DEF At, Goes, GoesTo
  <2>. QED BY <1>2, <1>9, <2>3, <2>5, <2>4 DEF Onward, MergeAt, Goes, GoesTo
<1>10. CASE At(core, d, 2446, 20) /\ core.SP = 255 /\ OnlyZN(core.P) /\ core.A = r4
  <2>1. Doing("STA", "zp", 20)
      BY MergeListed, Reached, <1>10 DEF At
  <2>2. Goes(core.A, core.X, core.Y, core.SP, 2, core.P, 3, Wrote(core.mem, 20, core.A))
      BY <2>1, StoreZp, Roomy DEF Stores
  <2>3. /\ Unmoved /\ core'.mem[20] = core.A
         /\ core'.mem[NmiCount] = core.mem[NmiCount]
      BY <1>1, <1>10, <2>2, Roomy, Parts, Written DEF Goes, GoesTo, NmiCount
  <2>4. At(core', d, 2448, 23)
      BY <1>10, <2>2 DEF At, Goes, GoesTo
  <2>. QED BY <1>10, <2>2, <2>4, <2>3 DEF Onward, MergeAt, Goes, GoesTo
<1>11. CASE /\ At(core, d, 2448, 23) /\ core.SP = 255 /\ OnlyZN(core.P) /\ core.A = r4
            /\ core.mem[20] = r4
  <2>1. Doing("LDY", "imm", 7)
      BY MergeListed, Reached, <1>11 DEF At
  <2>2. Goes(core.A, core.X, 7, core.SP, 2, SetZN(core.P, 7), 2, core.mem)
      BY <2>1, LoadImm DEF Loads
  <2>3. OnlyZN(SetZN(core.P, 7))
      BY <1>11, OnlyZNKept
  <2>4. At(core', d, 2450, 25)
      BY <1>11, <2>2 DEF At, Goes, GoesTo
  <2>. QED BY <1>2, <1>11, <2>2, <2>4, <2>3 DEF Onward, MergeAt, Goes, GoesTo
<1>12. CASE /\ At(core, d, 2450, 25) /\ core.SP = 255 /\ OnlyZN(core.P) /\ core.A = r4
            /\ core.mem[20] = r4 /\ core.Y = 7
  <2>1. Doing("BIT", "abs", 19)
      BY MergeListed, Reached, <1>12 DEF At
  <2>2. PICK v : v = Lo(j.b)
      OBVIOUS
  <2>3. PICK p : p = BitSets(core.P, core.A, v)
      OBVIOUS
  <2>4. Goes(core.A, core.X, core.Y, core.SP, 3, p, 4, core.mem)
      BY <1>1, <1>12, <2>1, <2>3, <2>2, BitDoes, Roomy DEF Reads8, BitSets
  <2>5. p = Tested(r4, Lo(j.b))
      BY <1>12, <2>3, <2>2, TestedExactly
  <2>6. At(core', d, 2453, 29)
      BY <1>12, <2>4 DEF At, Goes, GoesTo
  <2>. QED BY <1>2, <1>12, <2>4, <2>6, <2>5 DEF Onward, MergeAt, Goes, GoesTo
<1>13. CASE /\ At(core, d, 2453, 29) /\ core.SP = 255 /\ core.mem[20] = r4 /\ core.Y = 7
            /\ core.P = Tested(r4, Lo(j.b))
  <2>1. Doing("JMP", "ind", 1279)
      BY MergeListed, Reached, <1>13 DEF At
  <2>2. ReadBug16(1279) = 1600
      BY <1>1, VectorRead
  <2>3. GoesTo(core.A, core.X, core.Y, core.SP, 1600, core.P, 5, core.mem)
      BY <2>1, <2>2, JumpDoes
  <2>4. At(core', d, 1600, 34)
      BY <1>13, <2>3 DEF At, Goes, GoesTo
  <2>. QED BY <1>2, <1>13, <2>3, <2>4 DEF Onward, MergeAt, Goes, GoesTo
<1>14. CASE /\ At(core, d, 1600, 34) /\ core.SP = 255 /\ core.mem[20] = r4 /\ core.Y = 7
            /\ core.P = Tested(r4, Lo(j.b))
  <2>1. Doing("STY", "zp", 21)
      BY MergeListed, Reached, <1>14 DEF At
  <2>2. Goes(core.A, core.X, core.Y, core.SP, 2, core.P, 3, Wrote(core.mem, 21, core.Y))
      BY <2>1, StoreZp, Roomy DEF Stores
  <2>3. /\ Unmoved /\ core'.mem[21] = core.Y /\ core'.mem[20] = r4
         /\ core'.mem[NmiCount] = core.mem[NmiCount]
      BY <1>1, <1>14, <2>2, Roomy, Parts, Written DEF Goes, GoesTo, NmiCount
  <2>4. At(core', d, 1602, 37)
      BY <1>14, <2>2 DEF At, Goes, GoesTo
  <2>. QED BY <1>14, <2>2, <2>4, <2>3 DEF Onward, MergeAt, Goes, GoesTo
<1>15. CASE /\ At(core, d, 1602, 37) /\ core.SP = 255 /\ core.mem[20] = r4 /\ core.mem[21] = 7
            /\ core.P = Tested(r4, Lo(j.b))
  <2>1. Doing("PHP", "imp", 0)
      BY MergeListed, Reached, <1>15 DEF At
  <2>2. PICK at : at = 511
      OBVIOUS
  <2>3. PICK sp : sp = 254
      OBVIOUS
  <2>4. PushAt(core.SP, at, sp)
      BY <1>15, <2>2, <2>3, StackRoomy DEF PushAt, Lower
  <2>5. PICK v : v = FlagByte8(core.P, TRUE)
      BY Zenon
  <2>6. v = f
      BY <1>15, <2>5 DEF MergesTo
  <2>7. Goes(core.A, core.X, core.Y, sp, 1, core.P, 3, Wrote(core.mem, at, v))
      BY <2>1, <2>4, <2>5, StackDoes
  <2>8. /\ Unmoved /\ core'.mem[511] = f /\ core'.mem[20] = r4 /\ core'.mem[21] = 7
         /\ core'.mem[NmiCount] = core.mem[NmiCount]
      BY <1>1, <1>15, <2>7, <2>2, <2>6, Roomy, StackRoomy, Parts, Written DEF Goes, GoesTo, NmiCount
  <2>9. At(core', d, 1603, 40)
      BY <1>15, <2>7 DEF At, Goes, GoesTo
  <2>. QED BY <1>15, <2>7, <2>9, <2>8, <2>3 DEF Onward, MergeAt, Goes, GoesTo
<1>16. CASE /\ At(core, d, 1603, 40) /\ core.SP = 254 /\ core.mem[20] = r4 /\ core.mem[21] = 7
            /\ core.mem[511] = f
  <2>1. Doing("PLA", "imp", 0)
      BY MergeListed, Reached, <1>16 DEF At
  <2>2. PICK at : at = 511
      OBVIOUS
  <2>3. PICK sp : sp = 255
      OBVIOUS
  <2>4. PullAt(core.SP, at, sp)
      BY <1>16, <2>2, <2>3, StackRoomy DEF PullAt, Higher
  <2>5. PICK v : v = core.mem[at]
      BY Zenon
  <2>6. v = f
      BY <1>16, <2>5, <2>2
  <2>7. Goes(v, core.X, core.Y, sp, 1, SetZN(core.P, v), 4, core.mem)
      BY <2>1, <2>4, <2>5, StackDoes
  <2>8. At(core', d, 1604, 44)
      BY <1>16, <2>7 DEF At, Goes, GoesTo
  <2>. QED BY <1>2, <1>16, <2>7, <2>8, <2>6, <2>3 DEF Onward, MergeAt, Goes, GoesTo
<1>17. CASE /\ At(core, d, 1604, 44) /\ core.SP = 255 /\ core.mem[20] = r4 /\ core.mem[21] = 7
            /\ core.A = f
  <2>1. Doing("STA", "zp", 16)
      BY MergeListed, Reached, <1>17 DEF At
  <2>2. Goes(core.A, core.X, core.Y, core.SP, 2, core.P, 3, Wrote(core.mem, 16, core.A))
      BY <2>1, StoreZp, Roomy DEF Stores
  <2>3. /\ Unmoved /\ core'.mem[16] = core.A /\ core'.mem[20] = r4 /\ core'.mem[21] = 7
         /\ core'.mem[NmiCount] = core.mem[NmiCount]
      BY <1>1, <1>17, <2>2, Roomy, Parts, Written DEF Goes, GoesTo, NmiCount
  <2>4. At(core', d, 1606, 47)
      BY <1>17, <2>2 DEF At, Goes, GoesTo
  <2>. QED BY <1>17, <2>2, <2>4, <2>3 DEF Onward, MergeAt, Goes, GoesTo
<1>18. CASE /\ At(core, d, 1606, 47) /\ core.SP = 255 /\ core.mem[20] = r4 /\ core.mem[21] = 7
            /\ core.mem[16] = f
  <2>1. Doing("JMP", "abs", StopAt)
      BY MergeListed, Reached, <1>18 DEF At
  <2>2. GoesTo(core.A, core.X, core.Y, core.SP, StopAt, core.P, 3, core.mem)
      BY <2>1, JumpDoes
  <2>3. At(core', d, StopAt, 50)
      BY <1>18, <2>2 DEF At, Goes, GoesTo
  <2>. QED BY <1>2, <1>18, <2>2, <2>3 DEF Onward, MergeAt, Goes, GoesTo
<1>19. ~At(core, d, StopAt, 50)
    BY DEF At
<1>. QED BY <1>3, <1>4, <1>5, <1>6, <1>7, <1>8, <1>9, <1>10, <1>11, <1>12, <1>13, <1>14, <1>15,
            <1>16, <1>17, <1>18, <1>19 DEF MergeAt

----------------------------------------------------------------------------
(* Calling a subroutine with the stack pointer about to go round.          *)
SameElse(p, q) == \A f : f \notin {"Z", "N"} => (f \in p <=> f \in q)

LEMMA SameElseKept ==
    ASSUME NEW p, NEW q, SameElse(p, q), NEW v
    PROVE  SameElse(p, SetZN(q, v)) /\ SetZN(q, v) = SetZN(p, v)
<1>1. SameElse(p, SetZN(q, v))
    BY SetZNKeeps DEF SameElse
<1>2. \A f : f \in SetZN(q, v) <=> f \in SetZN(p, v)
    BY DEF SameElse, SetZN, SetFlag
<1>. QED BY <1>1, <1>2

(* The flags t at the call and the byte they are pushed as. *)
CallsWith(j, t, f) == t = SetZN(j.p, j.a) /\ f = FlagByte8(t, TRUE) /\ t = FlagsOf(f)

CallAt(t, f, j, s, d) ==
    /\ s.mem[17] = j.a
    /\ \/ At(s, d, 2368, 0) /\ s.SP = 255 /\ SameElse(j.p, s.P)
       \/ At(s, d, 2370, 3) /\ s.SP = 255 /\ SameElse(j.p, s.P)
       \/ At(s, d, 2371, 5) /\ s.SP = 255 /\ SameElse(j.p, s.P) /\ s.X = 255
       \/ At(s, d, 2373, 8) /\ s.SP = 255 /\ SameElse(j.p, s.P) /\ s.mem[22] = 255
       \/ At(s, d, 2375, 10) /\ s.SP = 255 /\ SameElse(j.p, s.P) /\ s.mem[22] = 255 /\ s.X = 1
       \/ At(s, d, 2376, 12) /\ s.SP = 1 /\ SameElse(j.p, s.P) /\ s.mem[22] = 255
       \/ At(s, d, 2378, 15) /\ s.SP = 1 /\ s.P = t /\ s.mem[22] = 255 /\ s.A = j.a
       \/ /\ At(s, d, 2416, 21) /\ s.SP = 255 /\ s.P = t /\ s.A = j.a /\ s.mem[22] = 255
          /\ s.mem[257] = 9 /\ s.mem[256] = 76
       \/ /\ At(s, d, 2417, 24) /\ s.SP = 254 /\ s.A = j.a /\ s.mem[511] = f /\ s.mem[22] = 255
          /\ s.mem[257] = 9 /\ s.mem[256] = 76
       \/ /\ At(s, d, 2418, 27) /\ s.SP = 253 /\ s.mem[511] = f /\ s.mem[510] = j.a
          /\ s.mem[22] = 255 /\ s.mem[257] = 9 /\ s.mem[256] = 76
       \/ /\ At(s, d, 2420, 29) /\ s.SP = 253 /\ s.mem[511] = f /\ s.mem[510] = j.a
          /\ s.mem[22] = 255 /\ s.mem[257] = 9 /\ s.mem[256] = 76
       \/ /\ At(s, d, 2421, 31) /\ s.SP = 253 /\ s.mem[511] = f /\ s.mem[510] = j.a
          /\ s.mem[22] = 255 /\ s.mem[257] = 9 /\ s.mem[256] = 76
       \/ /\ At(s, d, 2422, 33) /\ s.SP = 253 /\ s.mem[511] = f /\ s.mem[510] = j.a
          /\ s.mem[22] = 255 /\ s.mem[257] = 9 /\ s.mem[256] = 76
       \/ /\ At(s, d, 2423, 35) /\ s.SP = 253 /\ s.mem[511] = f /\ s.mem[510] = j.a
          /\ s.mem[22] = 255 /\ s.mem[257] = 9 /\ s.mem[256] = 76
       \/ /\ At(s, d, 2424, 37) /\ s.SP = 253 /\ s.mem[511] = f /\ s.mem[510] = j.a
          /\ s.mem[22] = 255 /\ s.mem[257] = 9 /\ s.mem[256] = 76
       \/ /\ At(s, d, 2425, 41) /\ s.SP = 254 /\ s.mem[511] = f /\ s.A = j.a /\ s.mem[22] = 255
          /\ s.mem[257] = 9 /\ s.mem[256] = 76
       \/ /\ At(s, d, 2426, 45) /\ s.SP = 255 /\ s.P = t /\ s.A = j.a /\ s.mem[22] = 255
          /\ s.mem[257] = 9 /\ s.mem[256] = 76
       \/ At(s, d, 2381, 51) /\ s.SP = 1 /\ s.P = t /\ s.A = j.a /\ s.mem[22] = 255
       \/ At(s, d, 2383, 54) /\ s.SP = 1 /\ s.P = t /\ s.mem[20] = j.a /\ s.mem[22] = 255
       \/ At(s, d, 2384, 57) /\ s.SP = 0 /\ s.mem[257] = f /\ s.mem[20] = j.a /\ s.mem[22] = 255
       \/ At(s, d, 2385, 61) /\ s.SP = 1 /\ s.A = f /\ s.mem[20] = j.a /\ s.mem[22] = 255
       \/ At(s, d, 2387, 64) /\ s.SP = 1 /\ s.mem[20] = j.a /\ s.mem[21] = f /\ s.mem[22] = 255
       \/ At(s, d, 2389, 67) /\ s.SP = 1 /\ s.mem[20] = j.a /\ s.mem[21] = f /\ s.X = 255
       \/ At(s, d, 2390, 69) /\ s.SP = 255 /\ s.mem[20] = j.a /\ s.mem[21] = f
       \/ At(s, d, StopAt, 72) /\ s.SP = 255 /\ s.mem[20] = j.a /\ s.mem[21] = f

LEMMA CallListed ==
    /\ Lists(2368, "LDA", "zp", 17)
    /\ Lists(2370, "TSX", "imp", 0)
    /\ Lists(2371, "STX", "zp", 22)
    /\ Lists(2373, "LDX", "imm", 1)
    /\ Lists(2375, "TXS", "imp", 0)
    /\ Lists(2376, "LDA", "zp", 17)
    /\ Lists(2378, "JSR", "abs", 2416)
    /\ Lists(2381, "STA", "zp", 20)
    /\ Lists(2383, "PHP", "imp", 0)
    /\ Lists(2384, "PLA", "imp", 0)
    /\ Lists(2385, "STA", "zp", 21)
    /\ Lists(2387, "LDX", "zp", 22)
    /\ Lists(2389, "TXS", "imp", 0)
    /\ Lists(2390, "JMP", "abs", StopAt)
    /\ Lists(2416, "PHP", "imp", 0)
    /\ Lists(2417, "PHA", "imp", 0)
    /\ Lists(2418, "LDA", "imm", 85)
    /\ Lists(2420, "SEC", "imp", 0)
    /\ Lists(2421, "SED", "imp", 0)
    /\ Lists(2422, "SEI", "imp", 0)
    /\ Lists(2423, "CLV", "imp", 0)
    /\ Lists(2424, "PLA", "imp", 0)
    /\ Lists(2425, "PLP", "imp", 0)
    /\ Lists(2426, "RTS", "imp", 0)
<1>1. "call" \in DOMAIN Texts
    BY DEF Texts
<1>2. "subroutine" \in DOMAIN Texts
    BY DEF Texts
<1>3. Lists(2368, "LDA", "zp", 17)
    BY <1>1, TextsListed DEF Lists, Texts, A, B, R, Saved, Copied, Pointer,
       NmiCount, BrkCount, Vector, StopAt
<1>4. Lists(2370, "TSX", "imp", 0)
    BY <1>1, TextsListed DEF Lists, Texts, A, B, R, Saved, Copied, Pointer,
       NmiCount, BrkCount, Vector, StopAt
<1>5. Lists(2371, "STX", "zp", 22)
    BY <1>1, TextsListed DEF Lists, Texts, A, B, R, Saved, Copied, Pointer,
       NmiCount, BrkCount, Vector, StopAt
<1>6. Lists(2373, "LDX", "imm", 1)
    BY <1>1, TextsListed DEF Lists, Texts, A, B, R, Saved, Copied, Pointer,
       NmiCount, BrkCount, Vector, StopAt
<1>7. Lists(2375, "TXS", "imp", 0)
    BY <1>1, TextsListed DEF Lists, Texts, A, B, R, Saved, Copied, Pointer,
       NmiCount, BrkCount, Vector, StopAt
<1>8. Lists(2376, "LDA", "zp", 17)
    BY <1>1, TextsListed DEF Lists, Texts, A, B, R, Saved, Copied, Pointer,
       NmiCount, BrkCount, Vector, StopAt
<1>9. Lists(2378, "JSR", "abs", 2416)
    BY <1>1, TextsListed DEF Lists, Texts, A, B, R, Saved, Copied, Pointer,
       NmiCount, BrkCount, Vector, StopAt
<1>10. Lists(2381, "STA", "zp", 20)
    BY <1>1, TextsListed DEF Lists, Texts, A, B, R, Saved, Copied, Pointer,
       NmiCount, BrkCount, Vector, StopAt
<1>11. Lists(2383, "PHP", "imp", 0)
    BY <1>1, TextsListed DEF Lists, Texts, A, B, R, Saved, Copied, Pointer,
       NmiCount, BrkCount, Vector, StopAt
<1>12. Lists(2384, "PLA", "imp", 0)
    BY <1>1, TextsListed DEF Lists, Texts, A, B, R, Saved, Copied, Pointer,
       NmiCount, BrkCount, Vector, StopAt
<1>13. Lists(2385, "STA", "zp", 21)
    BY <1>1, TextsListed DEF Lists, Texts, A, B, R, Saved, Copied, Pointer,
       NmiCount, BrkCount, Vector, StopAt
<1>14. Lists(2387, "LDX", "zp", 22)
    BY <1>1, TextsListed DEF Lists, Texts, A, B, R, Saved, Copied, Pointer,
       NmiCount, BrkCount, Vector, StopAt
<1>15. Lists(2389, "TXS", "imp", 0)
    BY <1>1, TextsListed DEF Lists, Texts, A, B, R, Saved, Copied, Pointer,
       NmiCount, BrkCount, Vector, StopAt
<1>16. Lists(2390, "JMP", "abs", StopAt)
    BY <1>1, TextsListed DEF Lists, Texts, A, B, R, Saved, Copied, Pointer,
       NmiCount, BrkCount, Vector, StopAt
<1>17. Lists(2416, "PHP", "imp", 0)
    BY <1>2, TextsListed DEF Lists, Texts, A, B, R, Saved, Copied, Pointer,
       NmiCount, BrkCount, Vector, StopAt
<1>18. Lists(2417, "PHA", "imp", 0)
    BY <1>2, TextsListed DEF Lists, Texts, A, B, R, Saved, Copied, Pointer,
       NmiCount, BrkCount, Vector, StopAt
<1>19. Lists(2418, "LDA", "imm", 85)
    BY <1>2, TextsListed DEF Lists, Texts, A, B, R, Saved, Copied, Pointer,
       NmiCount, BrkCount, Vector, StopAt
<1>20. Lists(2420, "SEC", "imp", 0)
    BY <1>2, TextsListed DEF Lists, Texts, A, B, R, Saved, Copied, Pointer,
       NmiCount, BrkCount, Vector, StopAt
<1>21. Lists(2421, "SED", "imp", 0)
    BY <1>2, TextsListed DEF Lists, Texts, A, B, R, Saved, Copied, Pointer,
       NmiCount, BrkCount, Vector, StopAt
<1>22. Lists(2422, "SEI", "imp", 0)
    BY <1>2, TextsListed DEF Lists, Texts, A, B, R, Saved, Copied, Pointer,
       NmiCount, BrkCount, Vector, StopAt
<1>23. Lists(2423, "CLV", "imp", 0)
    BY <1>2, TextsListed DEF Lists, Texts, A, B, R, Saved, Copied, Pointer,
       NmiCount, BrkCount, Vector, StopAt
<1>24. Lists(2424, "PLA", "imp", 0)
    BY <1>2, TextsListed DEF Lists, Texts, A, B, R, Saved, Copied, Pointer,
       NmiCount, BrkCount, Vector, StopAt
<1>25. Lists(2425, "PLP", "imp", 0)
    BY <1>2, TextsListed DEF Lists, Texts, A, B, R, Saved, Copied, Pointer,
       NmiCount, BrkCount, Vector, StopAt
<1>26. Lists(2426, "RTS", "imp", 0)
    BY <1>2, TextsListed DEF Lists, Texts, A, B, R, Saved, Copied, Pointer,
       NmiCount, BrkCount, Vector, StopAt
<1>. QED BY <1>3, <1>4, <1>5, <1>6, <1>7, <1>8, <1>9, <1>10, <1>11, <1>12, <1>13, <1>14, <1>15,
            <1>16, <1>17, <1>18, <1>19, <1>20, <1>21, <1>22, <1>23, <1>24, <1>25, <1>26

LEMMA CallStep ==
    ASSUME core \in CoreState, ExecuteInstruction,
           NEW j, j.a \in UInt8, NEW t, NEW f, CallsWith(j, t, f), NEW d \in Nat, CallAt(t, f, j, core, d),
           core.PC # StopAt
    PROVE  CallAt(t, f, j, core', d) /\ core'.mem[NmiCount] = core.mem[NmiCount]
<1>. DEFINE Onward == CallAt(t, f, j, core', d) /\ core'.mem[NmiCount] = core.mem[NmiCount]
            Unmoved == /\ core'.mem[17] = j.a
<1>. SUFFICES Onward
    OBVIOUS
<1>. HIDE DEF Onward
<1>1. /\ core.mem[17] = j.a
    BY DEF CallAt
<1>2. core'.mem = core.mem => Unmoved
    BY <1>1
<1>3. CASE At(core, d, 2368, 0) /\ core.SP = 255 /\ SameElse(j.p, core.P)
  <2>1. Doing("LDA", "zp", 17)
      BY CallListed, Reached, <1>3 DEF At
  <2>2. Goes(j.a, core.X, core.Y, core.SP, 2, SetZN(core.P, j.a), 3, core.mem)
      BY <1>1, <1>3, <2>1, LoadZp, Roomy DEF Loads
  <2>3. SameElse(j.p, SetZN(core.P, j.a))
      BY <1>3, SameElseKept
  <2>4. At(core', d, 2370, 3)
      BY <1>3, <2>2 DEF At, Goes, GoesTo
  <2>. QED BY <1>2, <1>3, <2>2, <2>4, <2>3 DEF Onward, CallAt, Goes, GoesTo
<1>4. CASE At(core, d, 2370, 3) /\ core.SP = 255 /\ SameElse(j.p, core.P)
  <2>1. Doing("TSX", "imp", 0)
      BY CallListed, Reached, <1>4 DEF At
  <2>2. Goes(core.A, core.SP, core.Y, core.SP, 1, SetZN(core.P, core.SP), 2, core.mem)
      BY <2>1, MoveDoes
  <2>3. SameElse(j.p, SetZN(core.P, core.SP))
      BY <1>4, SameElseKept
  <2>4. At(core', d, 2371, 5)
      BY <1>4, <2>2 DEF At, Goes, GoesTo
  <2>. QED BY <1>2, <1>4, <2>2, <2>4, <2>3 DEF Onward, CallAt, Goes, GoesTo
<1>5. CASE At(core, d, 2371, 5) /\ core.SP = 255 /\ SameElse(j.p, core.P) /\ core.X = 255
  <2>1. Doing("STX", "zp", 22)
      BY CallListed, Reached, <1>5 DEF At
  <2>2. Goes(core.A, core.X, core.Y, core.SP, 2, core.P, 3, Wrote(core.mem, 22, core.X))
      BY <2>1, StoreZp, Roomy DEF Stores
  <2>3. /\ Unmoved /\ core'.mem[22] = core.X
         /\ core'.mem[NmiCount] = core.mem[NmiCount]
      BY <1>1, <1>5, <2>2, Roomy, Parts, Written DEF Goes, GoesTo, NmiCount
  <2>4. At(core', d, 2373, 8)
      BY <1>5, <2>2 DEF At, Goes, GoesTo
  <2>. QED BY <1>5, <2>2, <2>4, <2>3 DEF Onward, CallAt, Goes, GoesTo
<1>6. CASE At(core, d, 2373, 8) /\ core.SP = 255 /\ SameElse(j.p, core.P) /\ core.mem[22] = 255
  <2>1. Doing("LDX", "imm", 1)
      BY CallListed, Reached, <1>6 DEF At
  <2>2. Goes(core.A, 1, core.Y, core.SP, 2, SetZN(core.P, 1), 2, core.mem)
      BY <2>1, LoadImm DEF Loads
  <2>3. SameElse(j.p, SetZN(core.P, 1))
      BY <1>6, SameElseKept
  <2>4. At(core', d, 2375, 10)
      BY <1>6, <2>2 DEF At, Goes, GoesTo
  <2>. QED BY <1>2, <1>6, <2>2, <2>4, <2>3 DEF Onward, CallAt, Goes, GoesTo
<1>7. CASE /\ At(core, d, 2375, 10) /\ core.SP = 255 /\ SameElse(j.p, core.P)
           /\ core.mem[22] = 255 /\ core.X = 1
  <2>1. Doing("TXS", "imp", 0)
      BY CallListed, Reached, <1>7 DEF At
  <2>2. Goes(core.A, core.X, core.Y, core.X, 1, core.P, 2, core.mem)
      BY <2>1, StackDoes
  <2>3. At(core', d, 2376, 12)
      BY <1>7, <2>2 DEF At, Goes, GoesTo
  <2>. QED BY <1>2, <1>7, <2>2, <2>3 DEF Onward, CallAt, Goes, GoesTo
<1>8. CASE At(core, d, 2376, 12) /\ core.SP = 1 /\ SameElse(j.p, core.P) /\ core.mem[22] = 255
  <2>1. Doing("LDA", "zp", 17)
      BY CallListed, Reached, <1>8 DEF At
  <2>2. PICK v : v = j.a
      OBVIOUS
  <2>3. SetZN(core.P, v) = SetZN(j.p, v)
      BY <1>8, SameElseKept
  <2>4. Goes(j.a, core.X, core.Y, core.SP, 2, SetZN(core.P, j.a), 3, core.mem)
      BY <1>1, <1>8, <2>1, LoadZp, Roomy DEF Loads
  <2>5. SetZN(core.P, j.a) = t
      BY <2>2, <2>3 DEF CallsWith
  <2>6. At(core', d, 2378, 15)
      BY <1>8, <2>4 DEF At, Goes, GoesTo
  <2>. QED BY <1>2, <1>8, <2>4, <2>6, <2>5 DEF Onward, CallAt, Goes, GoesTo
<1>9. CASE /\ At(core, d, 2378, 15) /\ core.SP = 1 /\ core.P = t /\ core.mem[22] = 255
           /\ core.A = j.a
  <2>1. Doing("JSR", "abs", 2416)
      BY CallListed, Reached, <1>9 DEF At
  <2>2. PICK to : to = Address
      BY Zenon
  <2>3. to = 2416
      BY <2>1, <2>2, OperandAt
  <2>4. PICK hi \in UInt8 : hi = 9
      BY Ranges
  <2>5. PICK lo \in UInt8 : lo = 76
      BY Ranges
  <2>6. PICK w : w = (core.PC + 3 + 65535) % 65536
      OBVIOUS
  <2>7. hi = w \div 256 /\ lo = w % 256
      BY <1>9, <2>6, <2>4, <2>5 DEF At
  <2>8. PICK sp1 : sp1 = Lower(core.SP)
      OBVIOUS
  <2>9. PICK sp2 : sp2 = Lower(sp1)
      OBVIOUS
  <2>10. sp1 = 0 /\ sp2 = 255
      BY <1>9, <2>8, <2>9 DEF Lower
  <2>11. PICK at1 \in Cells : at1 = 256 + core.SP /\ at1 = 257
      BY <1>9, StackRoomy
  <2>12. PICK at2 \in Cells : at2 = 256 + sp1 /\ at2 = 256
      BY <2>10, StackRoomy
  <2>13. Takes("JSR", "abs", 3, 6)
      BY OwnTakes
  <2>14. PICK m1 \in RAM : m1 = Wrote(core.mem, at1, hi)
      BY Parts, WroteTyped
  <2>15. GoesTo(core.A, core.X, core.Y, sp2, to, core.P, 6,
             Wrote(Wrote(core.mem, at1, hi), at2, lo))
      BY <2>1, <2>2, <2>4, <2>5, <2>6, <2>8, <2>9, <2>11, <2>12, <2>7, <2>13, CallGoes
  <2>16. /\ Unmoved /\ core'.mem[257] = 9 /\ core'.mem[256] = 76 /\ core'.mem[22] = 255
         /\ core'.mem[NmiCount] = core.mem[NmiCount]
      BY <1>1, <1>9, <2>15, Roomy, Parts, Written, <2>11, <2>12, <2>4, <2>5, <2>14 DEF Goes, GoesTo, NmiCount
  <2>17. At(core', d, 2416, 21)
      BY <1>9, <2>15, <2>3 DEF At, Goes, GoesTo
  <2>. QED BY <1>9, <2>15, <2>17, <2>16, <2>10 DEF Onward, CallAt, Goes, GoesTo
<1>10. CASE /\ At(core, d, 2416, 21) /\ core.SP = 255 /\ core.P = t /\ core.A = j.a
            /\ core.mem[22] = 255 /\ core.mem[257] = 9 /\ core.mem[256] = 76
  <2>1. Doing("PHP", "imp", 0)
      BY CallListed, Reached, <1>10 DEF At
  <2>2. PICK at : at = 511
      OBVIOUS
  <2>3. PICK sp : sp = 254
      OBVIOUS
  <2>4. PushAt(core.SP, at, sp)
      BY <1>10, <2>2, <2>3, StackRoomy DEF PushAt, Lower
  <2>5. PICK v : v = FlagByte8(core.P, TRUE)
      BY Zenon
  <2>6. v = f
      BY <1>10, <2>5 DEF CallsWith
  <2>7. Goes(core.A, core.X, core.Y, sp, 1, core.P, 3, Wrote(core.mem, at, v))
      BY <2>1, <2>4, <2>5, StackDoes
  <2>8. /\ Unmoved /\ core'.mem[511] = f /\ core'.mem[22] = 255 /\ core'.mem[257] = 9 /\ core'.mem[256] = 76
         /\ core'.mem[NmiCount] = core.mem[NmiCount]
      BY <1>1, <1>10, <2>7, <2>2, <2>6, Roomy, StackRoomy, Parts, Written DEF Goes, GoesTo, NmiCount
  <2>9. At(core', d, 2417, 24)
      BY <1>10, <2>7 DEF At, Goes, GoesTo
  <2>. QED BY <1>10, <2>7, <2>9, <2>8, <2>3 DEF Onward, CallAt, Goes, GoesTo
<1>11. CASE /\ At(core, d, 2417, 24) /\ core.SP = 254 /\ core.A = j.a /\ core.mem[511] = f
            /\ core.mem[22] = 255 /\ core.mem[257] = 9 /\ core.mem[256] = 76
  <2>1. Doing("PHA", "imp", 0)
      BY CallListed, Reached, <1>11 DEF At
  <2>2. PICK at : at = 510
      OBVIOUS
  <2>3. PICK sp : sp = 253
      OBVIOUS
  <2>4. PushAt(core.SP, at, sp)
      BY <1>11, <2>2, <2>3, StackRoomy DEF PushAt, Lower
  <2>5. PICK v : v = core.A
      BY Zenon
  <2>6. v = j.a
      BY <1>11, <2>5
  <2>7. Goes(core.A, core.X, core.Y, sp, 1, core.P, 3, Wrote(core.mem, at, v))
      BY <2>1, <2>4, <2>5, StackDoes
  <2>8. /\ Unmoved /\ core'.mem[510] = j.a /\ core'.mem[22] = 255 /\ core'.mem[257] = 9 /\ core'.mem[256] = 76 /\ core'.mem[511] = f
         /\ core'.mem[NmiCount] = core.mem[NmiCount]
      BY <1>1, <1>11, <2>7, <2>2, <2>6, Roomy, StackRoomy, Parts, Written DEF Goes, GoesTo, NmiCount
  <2>9. At(core', d, 2418, 27)
      BY <1>11, <2>7 DEF At, Goes, GoesTo
  <2>. QED BY <1>11, <2>7, <2>9, <2>8, <2>3 DEF Onward, CallAt, Goes, GoesTo
<1>12. CASE /\ At(core, d, 2418, 27) /\ core.SP = 253 /\ core.mem[511] = f
            /\ core.mem[510] = j.a /\ core.mem[22] = 255 /\ core.mem[257] = 9
            /\ core.mem[256] = 76
  <2>1. Doing("LDA", "imm", 85)
      BY CallListed, Reached, <1>12 DEF At
  <2>2. Goes(85, core.X, core.Y, core.SP, 2, SetZN(core.P, 85), 2, core.mem)
      BY <2>1, LoadImm DEF Loads
  <2>3. At(core', d, 2420, 29)
      BY <1>12, <2>2 DEF At, Goes, GoesTo
  <2>. QED BY <1>2, <1>12, <2>2, <2>3 DEF Onward, CallAt, Goes, GoesTo
<1>13. CASE /\ At(core, d, 2420, 29) /\ core.SP = 253 /\ core.mem[511] = f
            /\ core.mem[510] = j.a /\ core.mem[22] = 255 /\ core.mem[257] = 9
            /\ core.mem[256] = 76
  <2>1. Doing("SEC", "imp", 0)
      BY CallListed, Reached, <1>13 DEF At
  <2>2. PICK p : p = core.P \cup {"C"}
      OBVIOUS
  <2>3. Goes(core.A, core.X, core.Y, core.SP, 1, p, 2, core.mem)
      BY <2>1, <2>2, FlagDoes
  <2>4. At(core', d, 2421, 31)
      BY <1>13, <2>3 DEF At, Goes, GoesTo
  <2>. QED BY <1>2, <1>13, <2>3, <2>4 DEF Onward, CallAt, Goes, GoesTo
<1>14. CASE /\ At(core, d, 2421, 31) /\ core.SP = 253 /\ core.mem[511] = f
            /\ core.mem[510] = j.a /\ core.mem[22] = 255 /\ core.mem[257] = 9
            /\ core.mem[256] = 76
  <2>1. Doing("SED", "imp", 0)
      BY CallListed, Reached, <1>14 DEF At
  <2>2. PICK p : p = core.P \cup {"D"}
      OBVIOUS
  <2>3. Goes(core.A, core.X, core.Y, core.SP, 1, p, 2, core.mem)
      BY <2>1, <2>2, FlagDoes
  <2>4. At(core', d, 2422, 33)
      BY <1>14, <2>3 DEF At, Goes, GoesTo
  <2>. QED BY <1>2, <1>14, <2>3, <2>4 DEF Onward, CallAt, Goes, GoesTo
<1>15. CASE /\ At(core, d, 2422, 33) /\ core.SP = 253 /\ core.mem[511] = f
            /\ core.mem[510] = j.a /\ core.mem[22] = 255 /\ core.mem[257] = 9
            /\ core.mem[256] = 76
  <2>1. Doing("SEI", "imp", 0)
      BY CallListed, Reached, <1>15 DEF At
  <2>2. PICK p : p = core.P \cup {"I"}
      OBVIOUS
  <2>3. Goes(core.A, core.X, core.Y, core.SP, 1, p, 2, core.mem)
      BY <2>1, <2>2, FlagDoes
  <2>4. At(core', d, 2423, 35)
      BY <1>15, <2>3 DEF At, Goes, GoesTo
  <2>. QED BY <1>2, <1>15, <2>3, <2>4 DEF Onward, CallAt, Goes, GoesTo
<1>16. CASE /\ At(core, d, 2423, 35) /\ core.SP = 253 /\ core.mem[511] = f
            /\ core.mem[510] = j.a /\ core.mem[22] = 255 /\ core.mem[257] = 9
            /\ core.mem[256] = 76
  <2>1. Doing("CLV", "imp", 0)
      BY CallListed, Reached, <1>16 DEF At
  <2>2. PICK p : p = core.P \ {"V"}
      OBVIOUS
  <2>3. Goes(core.A, core.X, core.Y, core.SP, 1, p, 2, core.mem)
      BY <2>1, <2>2, FlagDoes
  <2>4. At(core', d, 2424, 37)
      BY <1>16, <2>3 DEF At, Goes, GoesTo
  <2>. QED BY <1>2, <1>16, <2>3, <2>4 DEF Onward, CallAt, Goes, GoesTo
<1>17. CASE /\ At(core, d, 2424, 37) /\ core.SP = 253 /\ core.mem[511] = f
            /\ core.mem[510] = j.a /\ core.mem[22] = 255 /\ core.mem[257] = 9
            /\ core.mem[256] = 76
  <2>1. Doing("PLA", "imp", 0)
      BY CallListed, Reached, <1>17 DEF At
  <2>2. PICK at : at = 510
      OBVIOUS
  <2>3. PICK sp : sp = 254
      OBVIOUS
  <2>4. PullAt(core.SP, at, sp)
      BY <1>17, <2>2, <2>3, StackRoomy DEF PullAt, Higher
  <2>5. PICK v : v = core.mem[at]
      BY Zenon
  <2>6. v = j.a
      BY <1>17, <2>5, <2>2
  <2>7. Goes(v, core.X, core.Y, sp, 1, SetZN(core.P, v), 4, core.mem)
      BY <2>1, <2>4, <2>5, StackDoes
  <2>8. At(core', d, 2425, 41)
      BY <1>17, <2>7 DEF At, Goes, GoesTo
  <2>. QED BY <1>2, <1>17, <2>7, <2>8, <2>6, <2>3 DEF Onward, CallAt, Goes, GoesTo
<1>18. CASE /\ At(core, d, 2425, 41) /\ core.SP = 254 /\ core.mem[511] = f /\ core.A = j.a
            /\ core.mem[22] = 255 /\ core.mem[257] = 9 /\ core.mem[256] = 76
  <2>1. Doing("PLP", "imp", 0)
      BY CallListed, Reached, <1>18 DEF At
  <2>2. PICK at : at = 511
      OBVIOUS
  <2>3. PICK sp : sp = 255
      OBVIOUS
  <2>4. PullAt(core.SP, at, sp)
      BY <1>18, <2>2, <2>3, StackRoomy DEF PullAt, Higher
  <2>5. PICK v : v = core.mem[at]
      BY Zenon
  <2>6. v = f
      BY <1>18, <2>5, <2>2
  <2>7. Goes(core.A, core.X, core.Y, sp, 1, FlagsOf(v), 4, core.mem)
      BY <2>1, <2>4, <2>5, StackDoes
  <2>8. FlagsOf(v) = t
      BY <2>6 DEF CallsWith
  <2>9. At(core', d, 2426, 45)
      BY <1>18, <2>7 DEF At, Goes, GoesTo
  <2>. QED BY <1>2, <1>18, <2>7, <2>9, <2>6, <2>3, <2>8 DEF Onward, CallAt, Goes, GoesTo
<1>19. CASE /\ At(core, d, 2426, 45) /\ core.SP = 255 /\ core.P = t /\ core.A = j.a
            /\ core.mem[22] = 255 /\ core.mem[257] = 9 /\ core.mem[256] = 76
  <2>1. Doing("RTS", "imp", 0)
      BY CallListed, Reached, <1>19 DEF At
  <2>2. PICK sp1 : sp1 = Higher(core.SP)
      OBVIOUS
  <2>3. PICK sp2 : sp2 = Higher(sp1)
      OBVIOUS
  <2>4. sp1 = 0 /\ sp2 = 1
      BY <1>19, <2>2, <2>3 DEF Higher
  <2>5. PICK at1 \in Cells : at1 = 256 + sp1 /\ at1 = 256
      BY <2>4, StackRoomy
  <2>6. PICK at2 \in Cells : at2 = 256 + sp2 /\ at2 = 257
      BY <2>4, StackRoomy
  <2>7. PICK to : to = 2381
      OBVIOUS
  <2>8. to = (Word(core.mem[at1], core.mem[at2]) + 1) % 65536
      BY <1>19, <2>5, <2>6, <2>7 DEF Word
  <2>9. Takes("RTS", "imp", 1, 6)
      BY OwnTakes
  <2>10. GoesTo(core.A, core.X, core.Y, sp2, to, core.P, 6, core.mem)
      BY <2>1, <2>2, <2>3, <2>5, <2>6, <2>8, <2>9, ReturnGoes
  <2>11. At(core', d, 2381, 51)
      BY <1>19, <2>10, <2>7 DEF At, Goes, GoesTo
  <2>. QED BY <1>2, <1>19, <2>10, <2>11, <2>4 DEF Onward, CallAt, Goes, GoesTo
<1>20. CASE /\ At(core, d, 2381, 51) /\ core.SP = 1 /\ core.P = t /\ core.A = j.a
            /\ core.mem[22] = 255
  <2>1. Doing("STA", "zp", 20)
      BY CallListed, Reached, <1>20 DEF At
  <2>2. Goes(core.A, core.X, core.Y, core.SP, 2, core.P, 3, Wrote(core.mem, 20, core.A))
      BY <2>1, StoreZp, Roomy DEF Stores
  <2>3. /\ Unmoved /\ core'.mem[20] = core.A /\ core'.mem[22] = 255
         /\ core'.mem[NmiCount] = core.mem[NmiCount]
      BY <1>1, <1>20, <2>2, Roomy, Parts, Written DEF Goes, GoesTo, NmiCount
  <2>4. At(core', d, 2383, 54)
      BY <1>20, <2>2 DEF At, Goes, GoesTo
  <2>. QED BY <1>20, <2>2, <2>4, <2>3 DEF Onward, CallAt, Goes, GoesTo
<1>21. CASE /\ At(core, d, 2383, 54) /\ core.SP = 1 /\ core.P = t /\ core.mem[20] = j.a
            /\ core.mem[22] = 255
  <2>1. Doing("PHP", "imp", 0)
      BY CallListed, Reached, <1>21 DEF At
  <2>2. PICK at : at = 257
      OBVIOUS
  <2>3. PICK sp : sp = 0
      OBVIOUS
  <2>4. PushAt(core.SP, at, sp)
      BY <1>21, <2>2, <2>3, StackRoomy DEF PushAt, Lower
  <2>5. PICK v : v = FlagByte8(core.P, TRUE)
      BY Zenon
  <2>6. v = f
      BY <1>21, <2>5 DEF CallsWith
  <2>7. Goes(core.A, core.X, core.Y, sp, 1, core.P, 3, Wrote(core.mem, at, v))
      BY <2>1, <2>4, <2>5, StackDoes
  <2>8. /\ Unmoved /\ core'.mem[257] = f /\ core'.mem[20] = j.a /\ core'.mem[22] = 255
         /\ core'.mem[NmiCount] = core.mem[NmiCount]
      BY <1>1, <1>21, <2>7, <2>2, <2>6, Roomy, StackRoomy, Parts, Written DEF Goes, GoesTo, NmiCount
  <2>9. At(core', d, 2384, 57)
      BY <1>21, <2>7 DEF At, Goes, GoesTo
  <2>. QED BY <1>21, <2>7, <2>9, <2>8, <2>3 DEF Onward, CallAt, Goes, GoesTo
<1>22. CASE /\ At(core, d, 2384, 57) /\ core.SP = 0 /\ core.mem[257] = f /\ core.mem[20] = j.a
            /\ core.mem[22] = 255
  <2>1. Doing("PLA", "imp", 0)
      BY CallListed, Reached, <1>22 DEF At
  <2>2. PICK at : at = 257
      OBVIOUS
  <2>3. PICK sp : sp = 1
      OBVIOUS
  <2>4. PullAt(core.SP, at, sp)
      BY <1>22, <2>2, <2>3, StackRoomy DEF PullAt, Higher
  <2>5. PICK v : v = core.mem[at]
      BY Zenon
  <2>6. v = f
      BY <1>22, <2>5, <2>2
  <2>7. Goes(v, core.X, core.Y, sp, 1, SetZN(core.P, v), 4, core.mem)
      BY <2>1, <2>4, <2>5, StackDoes
  <2>8. At(core', d, 2385, 61)
      BY <1>22, <2>7 DEF At, Goes, GoesTo
  <2>. QED BY <1>2, <1>22, <2>7, <2>8, <2>6, <2>3 DEF Onward, CallAt, Goes, GoesTo
<1>23. CASE /\ At(core, d, 2385, 61) /\ core.SP = 1 /\ core.A = f /\ core.mem[20] = j.a
            /\ core.mem[22] = 255
  <2>1. Doing("STA", "zp", 21)
      BY CallListed, Reached, <1>23 DEF At
  <2>2. Goes(core.A, core.X, core.Y, core.SP, 2, core.P, 3, Wrote(core.mem, 21, core.A))
      BY <2>1, StoreZp, Roomy DEF Stores
  <2>3. /\ Unmoved /\ core'.mem[21] = core.A /\ core'.mem[20] = j.a /\ core'.mem[22] = 255
         /\ core'.mem[NmiCount] = core.mem[NmiCount]
      BY <1>1, <1>23, <2>2, Roomy, Parts, Written DEF Goes, GoesTo, NmiCount
  <2>4. At(core', d, 2387, 64)
      BY <1>23, <2>2 DEF At, Goes, GoesTo
  <2>. QED BY <1>23, <2>2, <2>4, <2>3 DEF Onward, CallAt, Goes, GoesTo
<1>24. CASE /\ At(core, d, 2387, 64) /\ core.SP = 1 /\ core.mem[20] = j.a /\ core.mem[21] = f
            /\ core.mem[22] = 255
  <2>1. Doing("LDX", "zp", 22)
      BY CallListed, Reached, <1>24 DEF At
  <2>2. Goes(core.A, 255, core.Y, core.SP, 2, SetZN(core.P, 255), 3, core.mem)
      BY <1>1, <1>24, <2>1, LoadZp, Roomy DEF Loads
  <2>3. At(core', d, 2389, 67)
      BY <1>24, <2>2 DEF At, Goes, GoesTo
  <2>. QED BY <1>2, <1>24, <2>2, <2>3 DEF Onward, CallAt, Goes, GoesTo
<1>25. CASE /\ At(core, d, 2389, 67) /\ core.SP = 1 /\ core.mem[20] = j.a /\ core.mem[21] = f
            /\ core.X = 255
  <2>1. Doing("TXS", "imp", 0)
      BY CallListed, Reached, <1>25 DEF At
  <2>2. Goes(core.A, core.X, core.Y, core.X, 1, core.P, 2, core.mem)
      BY <2>1, StackDoes
  <2>3. At(core', d, 2390, 69)
      BY <1>25, <2>2 DEF At, Goes, GoesTo
  <2>. QED BY <1>2, <1>25, <2>2, <2>3 DEF Onward, CallAt, Goes, GoesTo
<1>26. CASE At(core, d, 2390, 69) /\ core.SP = 255 /\ core.mem[20] = j.a /\ core.mem[21] = f
  <2>1. Doing("JMP", "abs", StopAt)
      BY CallListed, Reached, <1>26 DEF At
  <2>2. GoesTo(core.A, core.X, core.Y, core.SP, StopAt, core.P, 3, core.mem)
      BY <2>1, JumpDoes
  <2>3. At(core', d, StopAt, 72)
      BY <1>26, <2>2 DEF At, Goes, GoesTo
  <2>. QED BY <1>2, <1>26, <2>2, <2>3 DEF Onward, CallAt, Goes, GoesTo
<1>27. ~At(core, d, StopAt, 72)
    BY DEF At
<1>. QED BY <1>3, <1>4, <1>5, <1>6, <1>7, <1>8, <1>9, <1>10, <1>11, <1>12, <1>13, <1>14, <1>15,
            <1>16, <1>17, <1>18, <1>19, <1>20, <1>21, <1>22, <1>23, <1>24, <1>25, <1>26, <1>27
            DEF CallAt

----------------------------------------------------------------------------
(* BRK, its handler and what follows the byte it skips.  p is the status   *)
(* at BRK and f the byte it is pushed as.                                  *)
Trapped(j, p, f) ==
    /\ p = j.p \cup {"C"}
    /\ "I" \notin p /\ f \in UInt8 /\ f = FlagByte8(p, TRUE) /\ p = FlagsOf(f)

TrapAt(p, f, j, s, d) ==
    /\ s.X = 0
    /\ \/ At(s, d, 2496, 0) /\ s.SP = 255 /\ s.P = j.p /\ s.mem[49] = 0
       \/ At(s, d, 2497, 2) /\ s.SP = 255 /\ s.P = p /\ s.mem[49] = 0
       \/ At(s, d, 2498, 4) /\ s.SP = 255 /\ s.P = p /\ s.mem[49] = 0
       \/ /\ At(s, d, 2624, 11) /\ s.SP = 252 /\ s.mem[511] = 9 /\ s.mem[510] = 196
          /\ s.mem[509] = f /\ s.mem[49] = 0
       \/ /\ At(s, d, 2626, 16) /\ s.SP = 252 /\ s.mem[511] = 9 /\ s.mem[510] = 196
          /\ s.mem[509] = f /\ s.mem[49] = 1
       \/ At(s, d, 2500, 22) /\ s.SP = 255 /\ s.P = p /\ s.mem[49] = 1
       \/ At(s, d, 2504, 25) /\ s.SP = 255 /\ s.P = p /\ s.mem[49] = 1
       \/ At(s, d, 2506, 28) /\ s.SP = 255 /\ s.P = p /\ s.mem[49] = 1 /\ s.mem[20] = 0
       \/ At(s, d, StopAt, 31) /\ s.SP = 255 /\ s.mem[20] = 0 /\ s.mem[49] = 1 /\ s.P = p

LEMMA TrapListed ==
    /\ Lists(2496, "SEC", "imp", 0)
    /\ Lists(2497, "CLI", "imp", 0)
    /\ Lists(2498, "BRK", "imp", 0)
    /\ Lists(2500, "BCS", "rel", 2)
    /\ Lists(2504, "STX", "zp", 20)
    /\ Lists(2506, "JMP", "abs", StopAt)
    /\ Lists(2624, "INC", "zp", 49)
    /\ Lists(2626, "RTI", "imp", 0)
<1>1. "trap" \in DOMAIN Texts
    BY DEF Texts
<1>2. "onBRK" \in DOMAIN Texts
    BY DEF Texts
<1>3. Lists(2496, "SEC", "imp", 0)
    BY <1>1, TextsListed DEF Lists, Texts, A, B, R, Saved, Copied, Pointer,
       NmiCount, BrkCount, Vector, StopAt
<1>4. Lists(2497, "CLI", "imp", 0)
    BY <1>1, TextsListed DEF Lists, Texts, A, B, R, Saved, Copied, Pointer,
       NmiCount, BrkCount, Vector, StopAt
<1>5. Lists(2498, "BRK", "imp", 0)
    BY <1>1, TextsListed DEF Lists, Texts, A, B, R, Saved, Copied, Pointer,
       NmiCount, BrkCount, Vector, StopAt
<1>6. Lists(2500, "BCS", "rel", 2)
    BY <1>1, TextsListed DEF Lists, Texts, A, B, R, Saved, Copied, Pointer,
       NmiCount, BrkCount, Vector, StopAt
<1>7. Lists(2504, "STX", "zp", 20)
    BY <1>1, TextsListed DEF Lists, Texts, A, B, R, Saved, Copied, Pointer,
       NmiCount, BrkCount, Vector, StopAt
<1>8. Lists(2506, "JMP", "abs", StopAt)
    BY <1>1, TextsListed DEF Lists, Texts, A, B, R, Saved, Copied, Pointer,
       NmiCount, BrkCount, Vector, StopAt
<1>9. Lists(2624, "INC", "zp", 49)
    BY <1>2, TextsListed DEF Lists, Texts, A, B, R, Saved, Copied, Pointer,
       NmiCount, BrkCount, Vector, StopAt
<1>10. Lists(2626, "RTI", "imp", 0)
    BY <1>2, TextsListed DEF Lists, Texts, A, B, R, Saved, Copied, Pointer,
       NmiCount, BrkCount, Vector, StopAt
<1>. QED BY <1>3, <1>4, <1>5, <1>6, <1>7, <1>8, <1>9, <1>10

LEMMA TrapStep ==
    ASSUME core \in CoreState, ExecuteInstruction,
           NEW j, NEW p, NEW f, Trapped(j, p, f), NEW d \in Nat, TrapAt(p, f, j, core, d), core.PC # StopAt
    PROVE  TrapAt(p, f, j, core', d) /\ core'.mem[NmiCount] = core.mem[NmiCount]
<1>. DEFINE Onward == TrapAt(p, f, j, core', d) /\ core'.mem[NmiCount] = core.mem[NmiCount]
            Unmoved == /\ core'.X = 0
<1>. SUFFICES Onward
    OBVIOUS
<1>. HIDE DEF Onward
<1>1. "I" \notin p /\ "C" \in p
    BY DEF Trapped
<1>2. f \in UInt8 /\ f = FlagByte8(p, TRUE)
    BY DEF Trapped
<1>3. p = FlagsOf(f)
    BY DEF Trapped
<1>4. 49 \in Cells
    BY Roomy DEF BrkCount
<1>5. IrqEntry = 2624
    BY ProgramsAssumption DEF IrqAt
<1>6. /\ core.X = 0
    BY DEF TrapAt
<1>7. core'.X = core.X => Unmoved
    BY <1>6
<1>8. CASE At(core, d, 2496, 0) /\ core.SP = 255 /\ core.P = j.p /\ core.mem[49] = 0
  <2>1. Doing("SEC", "imp", 0)
      BY TrapListed, Reached, <1>8 DEF At
  <2>2. p = core.P \cup {"C"}
      BY <1>8 DEF Trapped
  <2>3. Goes(core.A, core.X, core.Y, core.SP, 1, p, 2, core.mem)
      BY <1>8, <2>1, <2>2, FlagDoes
  <2>4. At(core', d, 2497, 2)
      BY <1>8, <2>3 DEF At, Goes, GoesTo
  <2>. QED BY <1>7, <1>8, <2>3, <2>4 DEF Onward, TrapAt, Goes, GoesTo
<1>9. CASE At(core, d, 2497, 2) /\ core.SP = 255 /\ core.P = p /\ core.mem[49] = 0
  <2>1. Doing("CLI", "imp", 0)
      BY TrapListed, Reached, <1>9 DEF At
  <2>2. PICK q : q = core.P \ {"I"}
      OBVIOUS
  <2>3. Goes(core.A, core.X, core.Y, core.SP, 1, q, 2, core.mem)
      BY <2>1, <2>2, FlagDoes
  <2>4. "I" \notin core.P
      BY <1>1, <1>9
  <2>5. q = core.P
      BY <2>4, <2>2
  <2>6. At(core', d, 2498, 4)
      BY <1>9, <2>3 DEF At, Goes, GoesTo
  <2>. QED BY <1>7, <1>9, <2>3, <2>6, <2>5 DEF Onward, TrapAt, Goes, GoesTo
<1>10. CASE At(core, d, 2498, 4) /\ core.SP = 255 /\ core.P = p /\ core.mem[49] = 0
  <2>1. Doing("BRK", "imp", 0)
      BY TrapListed, Reached, <1>10 DEF At
  <2>2. Takes("BRK", "imp", 1, 7)
      BY OwnTakes
  <2>3. PICK at1, sp1 : at1 = 511 /\ sp1 = 254
      OBVIOUS
  <2>4. PICK at2, sp2 : at2 = 510 /\ sp2 = 253
      OBVIOUS
  <2>5. PICK at3, sp3 : at3 = 509 /\ sp3 = 252
      OBVIOUS
  <2>6. PushAt(core.SP, at1, sp1)
      BY <1>10, <2>3, StackRoomy DEF PushAt, Lower
  <2>7. PushAt(sp1, at2, sp2)
      BY <2>3, <2>4, StackRoomy DEF PushAt, Lower
  <2>8. PushAt(sp2, at3, sp3)
      BY <2>4, <2>5, StackRoomy DEF PushAt, Lower
  <2>9. PICK at : at = 2500
      OBVIOUS
  <2>10. Behind(1, at)
      BY <1>10, <2>9 DEF Behind, At
  <2>11. PICK hi, lo : hi = 9 /\ lo = 196
      OBVIOUS
  <2>12. Halves(at, hi, lo)
      BY <2>9, <2>11, Ranges DEF Halves
  <2>13. PICK w : w = FlagByte8(core.P, TRUE)
      BY Zenon
  <2>14. f = w
      BY <1>10, <1>2, <2>13
  <2>15. Status(core.P, TRUE, f)
      BY <1>2, <2>13, <2>14 DEF Status
  <2>16. PICK q : q = core.P \cup {"I"}
      OBVIOUS
  <2>17. PICK m1 \in RAM : m1 = Wrote(core.mem, at1, hi)
      BY <2>3, <2>12, StackRoomy, Parts, WroteTyped DEF Halves
  <2>18. PICK m2 \in RAM : m2 = Wrote(m1, at2, lo)
      BY <2>4, <2>12, <2>17, StackRoomy, WroteTyped DEF Halves
  <2>19. GoesTo(core.A, core.X, core.Y, sp3, IrqEntry, q, 7,
             Frame3(core.mem, at1, at2, at3, hi, lo, f))
      BY <2>1, <2>2, <2>6, <2>7, <2>8, <2>10, <2>12, <2>15, <2>16, BreakGoes
  <2>20. /\ Unmoved /\ core'.mem[511] = 9 /\ core'.mem[510] = 196 /\ core'.mem[509] = f /\ core'.mem[49] = 0
         /\ core'.mem[NmiCount] = core.mem[NmiCount]
      BY <1>6, <1>10, <2>19, Roomy, Parts, Written, <2>3, <2>4, <2>5, <2>11, <2>17, <2>18, StackRoomy, <1>4 DEF Goes, GoesTo, NmiCount, Frame3
  <2>21. At(core', d, 2624, 11)
      BY <1>10, <2>19, <2>5, <1>5 DEF At, Goes, GoesTo
  <2>. QED BY <1>10, <2>19, <2>21, <2>20, <2>5 DEF Onward, TrapAt, Goes, GoesTo
<1>11. CASE /\ At(core, d, 2624, 11) /\ core.SP = 252 /\ core.mem[511] = 9
            /\ core.mem[510] = 196 /\ core.mem[509] = f /\ core.mem[49] = 0
  <2>1. Doing("INC", "zp", 49)
      BY TrapListed, Reached, <1>11 DEF At
  <2>2. PICK old : old = core.mem[49]
      OBVIOUS
  <2>3. PICK v : v = (old + 1) % 256 /\ v = 1
      BY <1>11, <2>2
  <2>4. PICK q : q = core.P
      OBVIOUS
  <2>5. Goes(core.A, core.X, core.Y, core.SP, 2, SetZN(core.P, v), 5, Wrote(core.mem, 49, v))
      BY <2>1, <2>2, <2>3, <2>4, ModifyDoes, Roomy DEF Modifies, BrkCount
  <2>6. /\ Unmoved /\ core'.mem[511] = 9 /\ core'.mem[510] = 196 /\ core'.mem[509] = f /\ core'.mem[49] = 1
         /\ core'.mem[NmiCount] = core.mem[NmiCount]
      BY <1>6, <1>11, <2>5, Roomy, Parts, Written, <2>3, StackRoomy, <1>4 DEF Goes, GoesTo, NmiCount, Frame3
  <2>7. At(core', d, 2626, 16)
      BY <1>11, <2>5 DEF At, Goes, GoesTo
  <2>. QED BY <1>11, <2>5, <2>7, <2>6 DEF Onward, TrapAt, Goes, GoesTo
<1>12. CASE /\ At(core, d, 2626, 16) /\ core.SP = 252 /\ core.mem[511] = 9
            /\ core.mem[510] = 196 /\ core.mem[509] = f /\ core.mem[49] = 1
  <2>1. Doing("RTI", "imp", 0)
      BY TrapListed, Reached, <1>12 DEF At
  <2>2. Takes("RTI", "imp", 1, 6)
      BY OwnTakes
  <2>3. PICK at1, sp1 : at1 = 509 /\ sp1 = 253
      OBVIOUS
  <2>4. PICK at2, sp2 : at2 = 510 /\ sp2 = 254
      OBVIOUS
  <2>5. PICK at3, sp3 : at3 = 511 /\ sp3 = 255
      OBVIOUS
  <2>6. PullAt(core.SP, at1, sp1)
      BY <1>12, <2>3, StackRoomy DEF PullAt, Higher
  <2>7. PullAt(sp1, at2, sp2)
      BY <2>3, <2>4, StackRoomy DEF PullAt, Higher
  <2>8. PullAt(sp2, at3, sp3)
      BY <2>4, <2>5, StackRoomy DEF PullAt, Higher
  <2>9. PICK t : t = FlagsOf(core.mem[at1])
      BY Zenon
  <2>10. PICK to : to = 2500
      OBVIOUS
  <2>11. Pointed(core.mem, at2, at3, 0, to)
      BY <1>12, <2>4, <2>5, <2>10 DEF Pointed, Word
  <2>12. GoesTo(core.A, core.X, core.Y, sp3, to, t, 6, core.mem)
      BY <2>1, <2>2, <2>6, <2>7, <2>8, <2>9, <2>11, InterruptReturnGoes
  <2>13. t = p
      BY <1>3, <1>12, <2>9, <2>3
  <2>14. At(core', d, 2500, 22)
      BY <1>12, <2>12, <2>10 DEF At, Goes, GoesTo
  <2>. QED BY <1>7, <1>12, <2>12, <2>14, <2>13, <2>5 DEF Onward, TrapAt, Goes, GoesTo
<1>13. CASE At(core, d, 2500, 22) /\ core.SP = 255 /\ core.P = p /\ core.mem[49] = 1
  <2>1. Doing("BCS", "rel", 2)
      BY TrapListed, Reached, <1>13 DEF At
  <2>2. 2504 = Target(2) /\ 3 = Paid(2504)
      BY <1>13 DEF Target, Paid, At, PageOf
  <2>3. CASE "C" \in core.P
    <3>1. GoesTo(core.A, core.X, core.Y, core.SP, 2504, core.P, 3, core.mem)
        BY <2>1, <2>2, <2>3, BranchDoes DEF Branching
    <3>2. At(core', d, 2504, 25)
        BY <1>13, <3>1 DEF At, Goes, GoesTo
    <3>. QED BY <1>7, <1>13, <3>1, <3>2 DEF Onward, TrapAt, Goes, GoesTo
  <2>4. CASE "C" \notin core.P
    <3>1. Goes(core.A, core.X, core.Y, core.SP, 2, core.P, 2, core.mem)
        BY <2>1, <2>2, <2>4, BranchDoes DEF Branching
    <3>2. FALSE
        BY <1>13, <2>4, <1>1
    <3>3. At(core', d, 2502, 24)
        BY <1>13, <3>1, <3>2 DEF At, Goes, GoesTo
    <3>. QED BY <1>7, <1>13, <3>1, <3>2, <3>3 DEF Onward, TrapAt, Goes, GoesTo
  <2>. QED BY <2>3, <2>4
<1>14. CASE At(core, d, 2504, 25) /\ core.SP = 255 /\ core.P = p /\ core.mem[49] = 1
  <2>1. Doing("STX", "zp", 20)
      BY TrapListed, Reached, <1>14 DEF At
  <2>2. Goes(core.A, core.X, core.Y, core.SP, 2, core.P, 3, Wrote(core.mem, 20, core.X))
      BY <2>1, StoreZp, Roomy DEF Stores
  <2>3. /\ Unmoved /\ core'.mem[20] = core.X /\ core'.mem[49] = 1
         /\ core'.mem[NmiCount] = core.mem[NmiCount]
      BY <1>6, <1>14, <2>2, Roomy, Parts, Written, <1>4 DEF Goes, GoesTo, NmiCount
  <2>4. At(core', d, 2506, 28)
      BY <1>14, <2>2 DEF At, Goes, GoesTo
  <2>. QED BY <1>14, <2>2, <2>4, <2>3 DEF Onward, TrapAt, Goes, GoesTo
<1>15. CASE /\ At(core, d, 2506, 28) /\ core.SP = 255 /\ core.P = p /\ core.mem[49] = 1
            /\ core.mem[20] = 0
  <2>1. Doing("JMP", "abs", StopAt)
      BY TrapListed, Reached, <1>15 DEF At
  <2>2. GoesTo(core.A, core.X, core.Y, core.SP, StopAt, core.P, 3, core.mem)
      BY <2>1, JumpDoes
  <2>3. At(core', d, StopAt, 31)
      BY <1>15, <2>2 DEF At, Goes, GoesTo
  <2>. QED BY <1>7, <1>15, <2>2, <2>3 DEF Onward, TrapAt, Goes, GoesTo
<1>16. ~At(core, d, StopAt, 31)
    BY DEF At
<1>. QED BY <1>8, <1>9, <1>10, <1>11, <1>12, <1>13, <1>14, <1>15, <1>16 DEF TrapAt

----------------------------------------------------------------------------
(* The NMI handler.  was is what it interrupts; at[n] is the cell of the   *)
(* nth byte it puts on the stack, sp[n] the stack pointer and m[n] memory  *)
(* then; in m[7] it has counted.                                           *)
Hidden(sp) == {NmiCount} \cup {256 + ((sp + 256 - k) % 256) : k \in 0 .. 5}

Pushes3(at, sp) ==
    PushAt(sp[3], at[4], sp[4]) /\ PushAt(sp[4], at[5], sp[5]) /\ PushAt(sp[5], at[6], sp[6])
Pulls6(at, sp) ==
    /\ PullAt(sp[6], at[6], sp[5]) /\ PullAt(sp[5], at[5], sp[4]) /\ PullAt(sp[4], at[4], sp[3])
    /\ PullAt(sp[3], at[3], sp[2]) /\ PullAt(sp[2], at[2], sp[1]) /\ PullAt(sp[1], at[1], sp[0])
Saves(was, at, m) ==
    /\ m[4] = Wrote(m[3], at[4], was.A) /\ m[5] = Wrote(m[4], at[5], was.X)
    /\ m[6] = Wrote(m[5], at[6], was.Y) /\ m[6][NmiCount] = 9 /\ m[7] = Wrote(m[6], NmiCount, 16)
Restores(was, at, m) ==
    /\ m[7][at[6]] = was.Y /\ m[7][at[5]] = was.X /\ m[7][at[4]] = was.A
    /\ FlagsOf(m[7][at[3]]) = was.P /\ Pointed(m[7], at[2], at[1], 0, was.PC)
Spares(was, m) ==
    m[7][NmiCount] = 16 /\ \A c \in Cells \ Hidden(was.SP) : m[7][c] = was.mem[c]

Handling(was, at, sp, m) ==
    /\ Pushes3(at, sp) /\ Pulls6(at, sp) /\ sp[0] = was.SP
    /\ Saves(was, at, m) /\ Restores(was, at, m) /\ Spares(was, m)

(* What was interrupted after d cycles goes on in s, 58 later. *)
Resumed(was, s, d) ==
    /\ s.PC = was.PC /\ s.A = was.A /\ s.X = was.X /\ s.Y = was.Y /\ s.SP = was.SP /\ s.P = was.P
    /\ s.cycles = d + 58
    /\ s.mem[NmiCount] = 16
    /\ \A c \in Cells \ Hidden(was.SP) : s.mem[c] = was.mem[c]

LEMMA CountsInBCD ==
    ASSUME NEW p, "D" \in p, "C" \notin p
    PROVE  Adc(9, 1, p).a = 16
<1>1. Carry(p) = 0
    BY DEF Carry
<1>2. Low(9) = 9 /\ Low(1) = 1 /\ High(9) = 0 /\ High(1) = 0
    BY DEF Low, High
<1>. QED BY <1>1, <1>2 DEF Adc, AddDecimal, AddDigits

HandlerAt(at, sp, m, was, s, d) ==
    \/ At(s, d, 2560, 7) /\ s.SP = sp[3] /\ s.mem = m[3] /\ s.A = was.A /\ s.X = was.X /\ s.Y = was.Y
    \/ At(s, d, 2561, 10) /\ s.SP = sp[4] /\ s.mem = m[4] /\ s.X = was.X /\ s.Y = was.Y
    \/ At(s, d, 2562, 12) /\ s.SP = sp[4] /\ s.mem = m[4] /\ s.A = was.X /\ s.Y = was.Y
    \/ At(s, d, 2563, 15) /\ s.SP = sp[5] /\ s.mem = m[5] /\ s.Y = was.Y
    \/ At(s, d, 2564, 17) /\ s.SP = sp[5] /\ s.mem = m[5] /\ s.A = was.Y
    \/ At(s, d, 2565, 20) /\ s.SP = sp[6] /\ s.mem = m[6]
    \/ At(s, d, 2566, 22) /\ s.SP = sp[6] /\ s.mem = m[6] /\ "D" \in s.P
    \/ At(s, d, 2567, 24) /\ s.SP = sp[6] /\ s.mem = m[6] /\ "D" \in s.P /\ "C" \notin s.P
    \/ /\ At(s, d, 2569, 27) /\ s.SP = sp[6] /\ s.mem = m[6] /\ "D" \in s.P /\ "C" \notin s.P
       /\ s.A = 9
    \/ At(s, d, 2571, 29) /\ s.SP = sp[6] /\ s.mem = m[6] /\ s.A = 16
    \/ At(s, d, 2573, 32) /\ s.SP = sp[6] /\ s.mem = m[7]
    \/ At(s, d, 2575, 34) /\ s.SP = sp[6] /\ s.mem = m[7]
    \/ At(s, d, 2577, 36) /\ s.SP = sp[6] /\ s.mem = m[7]
    \/ At(s, d, 2578, 40) /\ s.SP = sp[5] /\ s.mem = m[7] /\ s.A = was.Y
    \/ At(s, d, 2579, 42) /\ s.SP = sp[5] /\ s.mem = m[7] /\ s.Y = was.Y
    \/ At(s, d, 2580, 46) /\ s.SP = sp[4] /\ s.mem = m[7] /\ s.Y = was.Y /\ s.A = was.X
    \/ At(s, d, 2581, 48) /\ s.SP = sp[4] /\ s.mem = m[7] /\ s.X = was.X /\ s.Y = was.Y
    \/ At(s, d, 2582, 52) /\ s.SP = sp[3] /\ s.mem = m[7] /\ s.X = was.X /\ s.Y = was.Y /\ s.A = was.A

LEMMA HandlerListed ==
    /\ Lists(2560, "PHA", "imp", 0)
    /\ Lists(2561, "TXA", "imp", 0)
    /\ Lists(2562, "PHA", "imp", 0)
    /\ Lists(2563, "TYA", "imp", 0)
    /\ Lists(2564, "PHA", "imp", 0)
    /\ Lists(2565, "SED", "imp", 0)
    /\ Lists(2566, "CLC", "imp", 0)
    /\ Lists(2567, "LDA", "zp", 48)
    /\ Lists(2569, "ADC", "imm", 1)
    /\ Lists(2571, "STA", "zp", 48)
    /\ Lists(2573, "LDX", "imm", 170)
    /\ Lists(2575, "LDY", "imm", 170)
    /\ Lists(2577, "PLA", "imp", 0)
    /\ Lists(2578, "TAY", "imp", 0)
    /\ Lists(2579, "PLA", "imp", 0)
    /\ Lists(2580, "TAX", "imp", 0)
    /\ Lists(2581, "PLA", "imp", 0)
    /\ Lists(2582, "RTI", "imp", 0)
<1>1. "onNMI" \in DOMAIN Texts
    BY DEF Texts
<1>2. Lists(2560, "PHA", "imp", 0)
    BY <1>1, TextsListed DEF Lists, Texts, A, B, R, Saved, Copied, Pointer,
       NmiCount, BrkCount, Vector, StopAt
<1>3. Lists(2561, "TXA", "imp", 0)
    BY <1>1, TextsListed DEF Lists, Texts, A, B, R, Saved, Copied, Pointer,
       NmiCount, BrkCount, Vector, StopAt
<1>4. Lists(2562, "PHA", "imp", 0)
    BY <1>1, TextsListed DEF Lists, Texts, A, B, R, Saved, Copied, Pointer,
       NmiCount, BrkCount, Vector, StopAt
<1>5. Lists(2563, "TYA", "imp", 0)
    BY <1>1, TextsListed DEF Lists, Texts, A, B, R, Saved, Copied, Pointer,
       NmiCount, BrkCount, Vector, StopAt
<1>6. Lists(2564, "PHA", "imp", 0)
    BY <1>1, TextsListed DEF Lists, Texts, A, B, R, Saved, Copied, Pointer,
       NmiCount, BrkCount, Vector, StopAt
<1>7. Lists(2565, "SED", "imp", 0)
    BY <1>1, TextsListed DEF Lists, Texts, A, B, R, Saved, Copied, Pointer,
       NmiCount, BrkCount, Vector, StopAt
<1>8. Lists(2566, "CLC", "imp", 0)
    BY <1>1, TextsListed DEF Lists, Texts, A, B, R, Saved, Copied, Pointer,
       NmiCount, BrkCount, Vector, StopAt
<1>9. Lists(2567, "LDA", "zp", 48)
    BY <1>1, TextsListed DEF Lists, Texts, A, B, R, Saved, Copied, Pointer,
       NmiCount, BrkCount, Vector, StopAt
<1>10. Lists(2569, "ADC", "imm", 1)
    BY <1>1, TextsListed DEF Lists, Texts, A, B, R, Saved, Copied, Pointer,
       NmiCount, BrkCount, Vector, StopAt
<1>11. Lists(2571, "STA", "zp", 48)
    BY <1>1, TextsListed DEF Lists, Texts, A, B, R, Saved, Copied, Pointer,
       NmiCount, BrkCount, Vector, StopAt
<1>12. Lists(2573, "LDX", "imm", 170)
    BY <1>1, TextsListed DEF Lists, Texts, A, B, R, Saved, Copied, Pointer,
       NmiCount, BrkCount, Vector, StopAt
<1>13. Lists(2575, "LDY", "imm", 170)
    BY <1>1, TextsListed DEF Lists, Texts, A, B, R, Saved, Copied, Pointer,
       NmiCount, BrkCount, Vector, StopAt
<1>14. Lists(2577, "PLA", "imp", 0)
    BY <1>1, TextsListed DEF Lists, Texts, A, B, R, Saved, Copied, Pointer,
       NmiCount, BrkCount, Vector, StopAt
<1>15. Lists(2578, "TAY", "imp", 0)
    BY <1>1, TextsListed DEF Lists, Texts, A, B, R, Saved, Copied, Pointer,
       NmiCount, BrkCount, Vector, StopAt
<1>16. Lists(2579, "PLA", "imp", 0)
    BY <1>1, TextsListed DEF Lists, Texts, A, B, R, Saved, Copied, Pointer,
       NmiCount, BrkCount, Vector, StopAt
<1>17. Lists(2580, "TAX", "imp", 0)
    BY <1>1, TextsListed DEF Lists, Texts, A, B, R, Saved, Copied, Pointer,
       NmiCount, BrkCount, Vector, StopAt
<1>18. Lists(2581, "PLA", "imp", 0)
    BY <1>1, TextsListed DEF Lists, Texts, A, B, R, Saved, Copied, Pointer,
       NmiCount, BrkCount, Vector, StopAt
<1>19. Lists(2582, "RTI", "imp", 0)
    BY <1>1, TextsListed DEF Lists, Texts, A, B, R, Saved, Copied, Pointer,
       NmiCount, BrkCount, Vector, StopAt
<1>. QED BY <1>2, <1>3, <1>4, <1>5, <1>6, <1>7, <1>8, <1>9, <1>10, <1>11, <1>12, <1>13, <1>14,
            <1>15, <1>16, <1>17, <1>18, <1>19

LEMMA HandlerStep ==
    ASSUME core \in CoreState, ExecuteInstruction,
           NEW was, NEW at, NEW sp, NEW m, Handling(was, at, sp, m), NEW d \in Nat, HandlerAt(at, sp, m, was,
           core, d)
    PROVE  HandlerAt(at, sp, m, was, core', d) \/ Resumed(was, core', d)
<1>. DEFINE Onward == HandlerAt(at, sp, m, was, core', d) \/ Resumed(was, core', d)
<1>. SUFFICES Onward
    OBVIOUS
<1>. HIDE DEF Onward
<1>1. Pushes3(at, sp)
    BY DEF Handling
<1>2. Pulls6(at, sp) /\ sp[0] = was.SP
    BY DEF Handling
<1>3. Saves(was, at, m)
    BY DEF Handling
<1>4. Restores(was, at, m)
    BY DEF Handling
<1>5. Spares(was, m)
    BY DEF Handling
<1>6. 48 \in Cells
    BY Roomy DEF NmiCount
<1>7. CASE /\ At(core, d, 2560, 7) /\ core.SP = sp[3] /\ core.mem = m[3] /\ core.A = was.A
           /\ core.X = was.X /\ core.Y = was.Y
  <2>1. Doing("PHA", "imp", 0)
      BY HandlerListed, Reached, <1>7 DEF At
  <2>2. PICK a : a = at[4]
      OBVIOUS
  <2>3. PICK q : q = sp[4]
      OBVIOUS
  <2>4. PICK w : w = Wrote(core.mem, a, core.A)
      BY Zenon
  <2>5. PushAt(core.SP, a, q)
      BY <1>1, <1>7, <2>2, <2>3 DEF Pushes3
  <2>6. Goes(core.A, core.X, core.Y, q, 1, core.P, 3, w)
      BY <2>1, <2>5, <2>4, StackDoes
  <2>7. w = m[4]
      BY <1>3, <1>7, <2>2, <2>4 DEF Saves
  <2>8. At(core', d, 2561, 10)
      BY <1>7, <2>6 DEF At, Goes, GoesTo
  <2>. QED BY <1>7, <2>6, <2>8, <2>7, <2>3 DEF Onward, HandlerAt, Goes, GoesTo
<1>8. CASE /\ At(core, d, 2561, 10) /\ core.SP = sp[4] /\ core.mem = m[4] /\ core.X = was.X
           /\ core.Y = was.Y
  <2>1. Doing("TXA", "imp", 0)
      BY HandlerListed, Reached, <1>8 DEF At
  <2>2. Goes(core.X, core.X, core.Y, core.SP, 1, SetZN(core.P, core.X), 2, core.mem)
      BY <2>1, MoveDoes
  <2>3. At(core', d, 2562, 12)
      BY <1>8, <2>2 DEF At, Goes, GoesTo
  <2>. QED BY <1>8, <2>2, <2>3 DEF Onward, HandlerAt, Goes, GoesTo
<1>9. CASE /\ At(core, d, 2562, 12) /\ core.SP = sp[4] /\ core.mem = m[4] /\ core.A = was.X
           /\ core.Y = was.Y
  <2>1. Doing("PHA", "imp", 0)
      BY HandlerListed, Reached, <1>9 DEF At
  <2>2. PICK a : a = at[5]
      OBVIOUS
  <2>3. PICK q : q = sp[5]
      OBVIOUS
  <2>4. PICK w : w = Wrote(core.mem, a, core.A)
      BY Zenon
  <2>5. PushAt(core.SP, a, q)
      BY <1>1, <1>9, <2>2, <2>3 DEF Pushes3
  <2>6. Goes(core.A, core.X, core.Y, q, 1, core.P, 3, w)
      BY <2>1, <2>5, <2>4, StackDoes
  <2>7. w = m[5]
      BY <1>3, <1>9, <2>2, <2>4 DEF Saves
  <2>8. At(core', d, 2563, 15)
      BY <1>9, <2>6 DEF At, Goes, GoesTo
  <2>. QED BY <1>9, <2>6, <2>8, <2>7, <2>3 DEF Onward, HandlerAt, Goes, GoesTo
<1>10. CASE At(core, d, 2563, 15) /\ core.SP = sp[5] /\ core.mem = m[5] /\ core.Y = was.Y
  <2>1. Doing("TYA", "imp", 0)
      BY HandlerListed, Reached, <1>10 DEF At
  <2>2. Goes(core.Y, core.X, core.Y, core.SP, 1, SetZN(core.P, core.Y), 2, core.mem)
      BY <2>1, MoveDoes
  <2>3. At(core', d, 2564, 17)
      BY <1>10, <2>2 DEF At, Goes, GoesTo
  <2>. QED BY <1>10, <2>2, <2>3 DEF Onward, HandlerAt, Goes, GoesTo
<1>11. CASE At(core, d, 2564, 17) /\ core.SP = sp[5] /\ core.mem = m[5] /\ core.A = was.Y
  <2>1. Doing("PHA", "imp", 0)
      BY HandlerListed, Reached, <1>11 DEF At
  <2>2. PICK a : a = at[6]
      OBVIOUS
  <2>3. PICK q : q = sp[6]
      OBVIOUS
  <2>4. PICK w : w = Wrote(core.mem, a, core.A)
      BY Zenon
  <2>5. PushAt(core.SP, a, q)
      BY <1>1, <1>11, <2>2, <2>3 DEF Pushes3
  <2>6. Goes(core.A, core.X, core.Y, q, 1, core.P, 3, w)
      BY <2>1, <2>5, <2>4, StackDoes
  <2>7. w = m[6]
      BY <1>3, <1>11, <2>2, <2>4 DEF Saves
  <2>8. At(core', d, 2565, 20)
      BY <1>11, <2>6 DEF At, Goes, GoesTo
  <2>. QED BY <1>11, <2>6, <2>8, <2>7, <2>3 DEF Onward, HandlerAt, Goes, GoesTo
<1>12. CASE At(core, d, 2565, 20) /\ core.SP = sp[6] /\ core.mem = m[6]
  <2>1. Doing("SED", "imp", 0)
      BY HandlerListed, Reached, <1>12 DEF At
  <2>2. PICK p : p = core.P \cup {"D"}
      OBVIOUS
  <2>3. Goes(core.A, core.X, core.Y, core.SP, 1, p, 2, core.mem)
      BY <2>1, <2>2, FlagDoes
  <2>4. "D" \in p
      BY <1>12, <2>2
  <2>5. At(core', d, 2566, 22)
      BY <1>12, <2>3 DEF At, Goes, GoesTo
  <2>. QED BY <1>12, <2>3, <2>5, <2>4 DEF Onward, HandlerAt, Goes, GoesTo
<1>13. CASE At(core, d, 2566, 22) /\ core.SP = sp[6] /\ core.mem = m[6] /\ "D" \in core.P
  <2>1. Doing("CLC", "imp", 0)
      BY HandlerListed, Reached, <1>13 DEF At
  <2>2. PICK p : p = core.P \ {"C"}
      OBVIOUS
  <2>3. Goes(core.A, core.X, core.Y, core.SP, 1, p, 2, core.mem)
      BY <2>1, <2>2, FlagDoes
  <2>4. "D" \in p /\ "C" \notin p
      BY <1>13, <2>2
  <2>5. At(core', d, 2567, 24)
      BY <1>13, <2>3 DEF At, Goes, GoesTo
  <2>. QED BY <1>13, <2>3, <2>5, <2>4 DEF Onward, HandlerAt, Goes, GoesTo
<1>14. CASE /\ At(core, d, 2567, 24) /\ core.SP = sp[6] /\ core.mem = m[6] /\ "D" \in core.P
            /\ "C" \notin core.P
  <2>1. Doing("LDA", "zp", 48)
      BY HandlerListed, Reached, <1>14 DEF At
  <2>2. PICK v : v = core.mem[48]
      BY Zenon
  <2>3. Goes(v, core.X, core.Y, core.SP, 2, SetZN(core.P, v), 3, core.mem)
      BY <2>1, <2>2, LoadZp, <1>6 DEF Loads
  <2>4. v = 9 /\ "D" \in SetZN(core.P, v) /\ "C" \notin SetZN(core.P, v)
      BY <1>3, <1>14, <2>2, SetZNKeeps DEF Saves, NmiCount
  <2>5. At(core', d, 2569, 27)
      BY <1>14, <2>3 DEF At, Goes, GoesTo
  <2>. QED BY <1>14, <2>3, <2>5, <2>4 DEF Onward, HandlerAt, Goes, GoesTo
<1>15. CASE /\ At(core, d, 2569, 27) /\ core.SP = sp[6] /\ core.mem = m[6] /\ "D" \in core.P
            /\ "C" \notin core.P /\ core.A = 9
  <2>1. Doing("ADC", "imm", 1)
      BY HandlerListed, Reached, <1>15 DEF At
  <2>2. PICK r : r = Adc(core.A, 1, core.P)
      BY Zenon
  <2>3. Goes(r.a, core.X, core.Y, core.SP, 2, r.p, 2, core.mem)
      BY <2>1, <2>2, SumDoes DEF Reads8
  <2>4. r.a = 16
      BY <1>15, <2>2, CountsInBCD
  <2>5. At(core', d, 2571, 29)
      BY <1>15, <2>3 DEF At, Goes, GoesTo
  <2>. QED BY <1>15, <2>3, <2>5, <2>4 DEF Onward, HandlerAt, Goes, GoesTo
<1>16. CASE At(core, d, 2571, 29) /\ core.SP = sp[6] /\ core.mem = m[6] /\ core.A = 16
  <2>1. Doing("STA", "zp", 48)
      BY HandlerListed, Reached, <1>16 DEF At
  <2>2. PICK w : w = Wrote(core.mem, 48, core.A)
      BY Zenon
  <2>3. Goes(core.A, core.X, core.Y, core.SP, 2, core.P, 3, w)
      BY <2>1, <2>2, StoreZp, <1>6 DEF Stores
  <2>4. w = m[7]
      BY <1>3, <1>16, <2>2 DEF Saves, NmiCount
  <2>5. At(core', d, 2573, 32)
      BY <1>16, <2>3 DEF At, Goes, GoesTo
  <2>. QED BY <1>16, <2>3, <2>5, <2>4 DEF Onward, HandlerAt, Goes, GoesTo
<1>17. CASE At(core, d, 2573, 32) /\ core.SP = sp[6] /\ core.mem = m[7]
  <2>1. Doing("LDX", "imm", 170)
      BY HandlerListed, Reached, <1>17 DEF At
  <2>2. Goes(core.A, 170, core.Y, core.SP, 2, SetZN(core.P, 170), 2, core.mem)
      BY <2>1, LoadImm DEF Loads
  <2>3. At(core', d, 2575, 34)
      BY <1>17, <2>2 DEF At, Goes, GoesTo
  <2>. QED BY <1>17, <2>2, <2>3 DEF Onward, HandlerAt, Goes, GoesTo
<1>18. CASE At(core, d, 2575, 34) /\ core.SP = sp[6] /\ core.mem = m[7]
  <2>1. Doing("LDY", "imm", 170)
      BY HandlerListed, Reached, <1>18 DEF At
  <2>2. Goes(core.A, core.X, 170, core.SP, 2, SetZN(core.P, 170), 2, core.mem)
      BY <2>1, LoadImm DEF Loads
  <2>3. At(core', d, 2577, 36)
      BY <1>18, <2>2 DEF At, Goes, GoesTo
  <2>. QED BY <1>18, <2>2, <2>3 DEF Onward, HandlerAt, Goes, GoesTo
<1>19. CASE At(core, d, 2577, 36) /\ core.SP = sp[6] /\ core.mem = m[7]
  <2>1. Doing("PLA", "imp", 0)
      BY HandlerListed, Reached, <1>19 DEF At
  <2>2. PICK a : a = at[6]
      OBVIOUS
  <2>3. PICK q : q = sp[5]
      OBVIOUS
  <2>4. PICK v : v = core.mem[a]
      BY Zenon
  <2>5. PullAt(core.SP, a, q)
      BY <1>2, <1>19, <2>2, <2>3 DEF Pulls6
  <2>6. Goes(v, core.X, core.Y, q, 1, SetZN(core.P, v), 4, core.mem)
      BY <2>1, <2>5, <2>4, StackDoes
  <2>7. v = was.Y
      BY <1>4, <1>19, <2>2, <2>4 DEF Restores
  <2>8. At(core', d, 2578, 40)
      BY <1>19, <2>6 DEF At, Goes, GoesTo
  <2>. QED BY <1>19, <2>6, <2>8, <2>7, <2>3 DEF Onward, HandlerAt, Goes, GoesTo
<1>20. CASE At(core, d, 2578, 40) /\ core.SP = sp[5] /\ core.mem = m[7] /\ core.A = was.Y
  <2>1. Doing("TAY", "imp", 0)
      BY HandlerListed, Reached, <1>20 DEF At
  <2>2. Goes(core.A, core.X, core.A, core.SP, 1, SetZN(core.P, core.A), 2, core.mem)
      BY <2>1, MoveDoes
  <2>3. At(core', d, 2579, 42)
      BY <1>20, <2>2 DEF At, Goes, GoesTo
  <2>. QED BY <1>20, <2>2, <2>3 DEF Onward, HandlerAt, Goes, GoesTo
<1>21. CASE At(core, d, 2579, 42) /\ core.SP = sp[5] /\ core.mem = m[7] /\ core.Y = was.Y
  <2>1. Doing("PLA", "imp", 0)
      BY HandlerListed, Reached, <1>21 DEF At
  <2>2. PICK a : a = at[5]
      OBVIOUS
  <2>3. PICK q : q = sp[4]
      OBVIOUS
  <2>4. PICK v : v = core.mem[a]
      BY Zenon
  <2>5. PullAt(core.SP, a, q)
      BY <1>2, <1>21, <2>2, <2>3 DEF Pulls6
  <2>6. Goes(v, core.X, core.Y, q, 1, SetZN(core.P, v), 4, core.mem)
      BY <2>1, <2>5, <2>4, StackDoes
  <2>7. v = was.X
      BY <1>4, <1>21, <2>2, <2>4 DEF Restores
  <2>8. At(core', d, 2580, 46)
      BY <1>21, <2>6 DEF At, Goes, GoesTo
  <2>. QED BY <1>21, <2>6, <2>8, <2>7, <2>3 DEF Onward, HandlerAt, Goes, GoesTo
<1>22. CASE /\ At(core, d, 2580, 46) /\ core.SP = sp[4] /\ core.mem = m[7] /\ core.Y = was.Y
            /\ core.A = was.X
  <2>1. Doing("TAX", "imp", 0)
      BY HandlerListed, Reached, <1>22 DEF At
  <2>2. Goes(core.A, core.A, core.Y, core.SP, 1, SetZN(core.P, core.A), 2, core.mem)
      BY <2>1, MoveDoes
  <2>3. At(core', d, 2581, 48)
      BY <1>22, <2>2 DEF At, Goes, GoesTo
  <2>. QED BY <1>22, <2>2, <2>3 DEF Onward, HandlerAt, Goes, GoesTo
<1>23. CASE /\ At(core, d, 2581, 48) /\ core.SP = sp[4] /\ core.mem = m[7] /\ core.X = was.X
            /\ core.Y = was.Y
  <2>1. Doing("PLA", "imp", 0)
      BY HandlerListed, Reached, <1>23 DEF At
  <2>2. PICK a : a = at[4]
      OBVIOUS
  <2>3. PICK q : q = sp[3]
      OBVIOUS
  <2>4. PICK v : v = core.mem[a]
      BY Zenon
  <2>5. PullAt(core.SP, a, q)
      BY <1>2, <1>23, <2>2, <2>3 DEF Pulls6
  <2>6. Goes(v, core.X, core.Y, q, 1, SetZN(core.P, v), 4, core.mem)
      BY <2>1, <2>5, <2>4, StackDoes
  <2>7. v = was.A
      BY <1>4, <1>23, <2>2, <2>4 DEF Restores
  <2>8. At(core', d, 2582, 52)
      BY <1>23, <2>6 DEF At, Goes, GoesTo
  <2>. QED BY <1>23, <2>6, <2>8, <2>7, <2>3 DEF Onward, HandlerAt, Goes, GoesTo
<1>24. CASE /\ At(core, d, 2582, 52) /\ core.SP = sp[3] /\ core.mem = m[7] /\ core.X = was.X
            /\ core.Y = was.Y /\ core.A = was.A
  <2>1. Doing("RTI", "imp", 0)
      BY HandlerListed, Reached, <1>24 DEF At
  <2>2. PICK a3 : a3 = at[3]
      OBVIOUS
  <2>3. PICK a2 : a2 = at[2]
      OBVIOUS
  <2>4. PICK a1 : a1 = at[1]
      OBVIOUS
  <2>5. PICK q2 : q2 = sp[2]
      OBVIOUS
  <2>6. PICK q1 : q1 = sp[1]
      OBVIOUS
  <2>7. PICK q0 : q0 = sp[0]
      OBVIOUS
  <2>8. Takes("RTI", "imp", 1, 6)
      BY OwnTakes
  <2>9. PullAt(core.SP, a3, q2)
      BY <1>2, <1>24, <2>2, <2>5 DEF Pulls6
  <2>10. PullAt(q2, a2, q1)
      BY <1>2, <2>3, <2>5, <2>6 DEF Pulls6
  <2>11. PullAt(q1, a1, q0)
      BY <1>2, <2>4, <2>6, <2>7 DEF Pulls6
  <2>12. PICK t : t = FlagsOf(core.mem[a3])
      BY Zenon
  <2>13. t = was.P
      BY <1>4, <1>24, <2>12, <2>2 DEF Restores
  <2>14. PICK to : to = was.PC
      OBVIOUS
  <2>15. Pointed(core.mem, a2, a1, 0, to)
      BY <1>4, <1>24, <2>3, <2>4, <2>14 DEF Restores
  <2>16. GoesTo(core.A, core.X, core.Y, q0, to, t, 6, core.mem)
      BY <2>1, <2>8, <2>9, <2>10, <2>11, <2>12, <2>15, InterruptReturnGoes
  <2>. QED BY <1>24, <1>2, <1>5, <2>7, <2>13, <2>14, <2>16 DEF Onward, Resumed, Spares, GoesTo, At
<1>. QED BY <1>7, <1>8, <1>9, <1>10, <1>11, <1>12, <1>13, <1>14, <1>15, <1>16, <1>17, <1>18,
            <1>19, <1>20, <1>21, <1>22, <1>23, <1>24 DEF HandlerAt

----------------------------------------------------------------------------
(* Stack pointers the programs are interrupted at, and the handler's       *)
(* cells from each.                                                        *)
Depths == {0, 1, 252, 253, 254, 255}
Sunk(s) == [k \in 0 .. 6 |-> (s + 256 - k) % 256]
Sinks(s) == [k \in 1 .. 6 |-> 256 + ((s + 257 - k) % 256)]
Pushes6(at, sp) ==
    /\ PushAt(sp[0], at[1], sp[1]) /\ PushAt(sp[1], at[2], sp[2]) /\ PushAt(sp[2], at[3], sp[3])
    /\ Pushes3(at, sp)
Apart(s, at) ==
    /\ \A i \in 1 .. 6 : at[i] \in Cells /\ at[i] # NmiCount /\ at[i] \in Hidden(s)
    /\ \A i, k \in 1 .. 6 : i # k => at[i] # at[k]

LEMMA Sinking ==
    ASSUME NEW s \in Depths, NEW at, NEW sp, at = Sinks(s), sp = Sunk(s)
    PROVE  Pushes6(at, sp) /\ Pulls6(at, sp) /\ sp[0] = s /\ Apart(s, at)
<1>1. \A k \in 1 .. 6 : at[k] \in Stack
  <2>1. s \in Nat /\ at = [k \in 1 .. 6 |-> 256 + ((s + 257 - k) % 256)]
      BY DEF Depths, Sinks
  <2>2. s = 0 \/ s = 1 \/ s = 252 \/ s = 253 \/ s = 254 \/ s = 255
      BY DEF Depths
  <2>. QED BY <2>1, <2>2 DEF Stack
<1>2. \A k \in 1 .. 6 : at[k] \in Cells
    BY <1>1, Roomy
<1>3. s \in 0 .. 255
    BY DEF Depths
<1>4. \A k \in 1 .. 6 : at[k] = 256 + sp[k - 1]
    BY <1>3 DEF Sinks, Sunk
<1>5. \A k \in 1 .. 6 : sp[k] = Lower(sp[k - 1]) /\ sp[k - 1] = Higher(sp[k])
    BY <1>3 DEF Sunk, Lower, Higher
<1>6. \A k \in 1 .. 6 : PushAt(sp[k - 1], at[k], sp[k]) /\ PullAt(sp[k], at[k], sp[k - 1])
    BY <1>2, <1>4, <1>5 DEF PushAt, PullAt
<1>7. Pushes6(at, sp) /\ Pulls6(at, sp)
    BY <1>6 DEF Pushes6, Pushes3, Pulls6
<1>8. sp[0] = s
    BY <1>3 DEF Sunk
<1>9. Apart(s, at)
  <2>1. \A i, k \in 1 .. 6 : i # k => at[i] # at[k]
      BY <1>3 DEF Sinks
  <2>2. \A i \in 1 .. 6 : at[i] # NmiCount
      BY <1>3 DEF Sinks, NmiCount
  <2>3. ASSUME NEW i \in 1 .. 6 PROVE at[i] \in Hidden(s)
    <3>1. PICK k \in 0 .. 5 : k = i - 1
        OBVIOUS
    <3>2. at[i] = 256 + ((s + 256 - k) % 256)
        BY <1>3, <3>1 DEF Sinks
    <3>. QED BY <3>2 DEF Hidden
  <2>. QED BY <1>2, <2>1, <2>2, <2>3 DEF Apart
<1>. QED BY <1>7, <1>8, <1>9

Differ(a, b, c) == a # b /\ a # c /\ b # c
Uncounted(a, b, c) == a # NmiCount /\ b # NmiCount /\ c # NmiCount

LEMMA FrameWritten ==
    ASSUME NEW m \in RAM, NEW a1 \in Cells, NEW a2 \in Cells, NEW a3 \in Cells,
           Differ(a1, a2, a3), NEW hi \in UInt8, NEW lo \in UInt8, NEW f \in UInt8,
           NEW w, w = Frame3(m, a1, a2, a3, hi, lo, f)
    PROVE  /\ w \in RAM /\ w[a1] = hi /\ w[a2] = lo /\ w[a3] = f
           /\ \A c \in Cells : c # a1 /\ c # a2 /\ c # a3 => w[c] = m[c]
<1>1. PICK m1 \in RAM : m1 = Wrote(m, a1, hi)
    BY WroteTyped
<1>2. PICK m2 \in RAM : m2 = Wrote(m1, a2, lo)
    BY WroteTyped
<1>3. w = Wrote(m2, a3, f) /\ w \in RAM
    BY <1>1, <1>2, WroteTyped DEF Frame3
<1>. QED BY <1>1, <1>2, <1>3, Written DEF Differ

LEMMA RegistersWritten ==
    ASSUME NEW m3 \in RAM, NEW a4 \in Cells, NEW a5 \in Cells, NEW a6 \in Cells,
           Differ(a4, a5, a6), Uncounted(a4, a5, a6),
           NEW a \in UInt8, NEW x \in UInt8, NEW y \in UInt8,
           NEW m4, m4 = Wrote(m3, a4, a), NEW m5, m5 = Wrote(m4, a5, x),
           NEW m6, m6 = Wrote(m5, a6, y), NEW m7, m7 = Wrote(m6, NmiCount, 16)
    PROVE  /\ m7[a4] = a /\ m7[a5] = x /\ m7[a6] = y /\ m7[NmiCount] = 16
           /\ m6[NmiCount] = m3[NmiCount]
           /\ \A c \in Cells : c # a4 /\ c # a5 /\ c # a6 /\ c # NmiCount => m7[c] = m3[c]
<1>1. m4 \in RAM /\ m5 \in RAM /\ m6 \in RAM
    BY WroteTyped
<1>2. NmiCount \in Cells
    BY Roomy
<1>. QED BY <1>1, <1>2, Written DEF Differ, Uncounted

LEMMA HandlerEntered ==
    ASSUME core \in CoreState, ServeNMI, core.SP \in Depths, core.mem[NmiCount] = 9,
           NEW was, was = core
    PROVE  \E at, sp, m : /\ Handling(was, at, sp, m)
                          /\ HandlerAt(at, sp, m, was, core', was.cycles)
<1>1. PICK at, sp : at = Sinks(core.SP) /\ sp = Sunk(core.SP)
    OBVIOUS
<1>2. Pushes6(at, sp) /\ Pulls6(at, sp) /\ sp[0] = core.SP /\ Apart(core.SP, at)
    BY <1>1, Sinking
<1>3. PICK a1 \in Cells, a2 \in Cells, a3 \in Cells, a4 \in Cells, a5 \in Cells, a6 \in Cells :
          /\ a1 = at[1] /\ a2 = at[2] /\ a3 = at[3] /\ a4 = at[4] /\ a5 = at[5] /\ a6 = at[6]
    BY <1>2 DEF Apart
<1>4. /\ a1 # a2 /\ a1 # a3 /\ a1 # a4 /\ a1 # a5 /\ a1 # a6 /\ a2 # a3 /\ a2 # a4 /\ a2 # a5
      /\ a2 # a6 /\ a3 # a4 /\ a3 # a5 /\ a3 # a6 /\ a4 # a5 /\ a4 # a6 /\ a5 # a6
    BY <1>2, <1>3 DEF Apart
<1>5. /\ a1 # NmiCount /\ a2 # NmiCount /\ a3 # NmiCount /\ a4 # NmiCount
      /\ a5 # NmiCount /\ a6 # NmiCount
    BY <1>2, <1>3 DEF Apart
<1>6. PICK s1, s2, s3 : s1 = sp[1] /\ s2 = sp[2] /\ s3 = sp[3]
    OBVIOUS
<1>7. PushAt(core.SP, a1, s1) /\ PushAt(s1, a2, s2) /\ PushAt(s2, a3, s3)
    BY <1>2, <1>3, <1>6 DEF Pushes6
<1>8. PICK hi \in UInt8 : hi = core.PC \div 256
    BY Parts, Ranges
<1>9. PICK lo \in UInt8 : lo = core.PC % 256
    BY Parts, Ranges
<1>10. Halves(core.PC, hi, lo) /\ Word(lo, hi) = core.PC
    BY <1>8, <1>9, Parts, Ranges DEF Halves, Word
<1>11. PICK f : f = FlagByte8(core.P, FALSE)
    BY Zenon
<1>12. f \in UInt8 /\ FlagsOf(f) = core.P
    BY <1>11, StatusByteExact, Parts
<1>13. Status(core.P, FALSE, f)
    BY <1>11, <1>12 DEF Status
<1>14. PICK q : q = core.P \cup {"I"}
    OBVIOUS
<1>15. PICK m3 : m3 = Frame3(core.mem, a1, a2, a3, hi, lo, f)
    BY Zenon
<1>16. GoesTo(core.A, core.X, core.Y, s3, NmiEntry, q, 7, m3)
    BY <1>7, <1>10, <1>13, <1>14, <1>15, ServeGoes
<1>17. /\ m3 \in RAM /\ m3[a1] = hi /\ m3[a2] = lo /\ m3[a3] = f
       /\ \A c \in Cells : c # a1 /\ c # a2 /\ c # a3 => m3[c] = core.mem[c]
  <2>1. PICK cm \in RAM : cm = core.mem
      BY Parts
  <2>2. Differ(a1, a2, a3)
      BY <1>4 DEF Differ
  <2>. QED BY <1>12, <1>15, <2>1, <2>2, FrameWritten
<1>18. PICK m4 : m4 = Wrote(m3, a4, core.A)
    BY Zenon
<1>19. PICK m5 : m5 = Wrote(m4, a5, core.X)
    BY Zenon
<1>20. PICK m6 : m6 = Wrote(m5, a6, core.Y)
    BY Zenon
<1>21. PICK m7 : m7 = Wrote(m6, NmiCount, 16)
    BY Zenon
<1>22. /\ m7[a4] = core.A /\ m7[a5] = core.X /\ m7[a6] = core.Y /\ m7[NmiCount] = 16
       /\ m6[NmiCount] = m3[NmiCount]
       /\ \A c \in Cells : c # a4 /\ c # a5 /\ c # a6 /\ c # NmiCount => m7[c] = m3[c]
  <2>1. PICK a, x, y : a = core.A /\ x = core.X /\ y = core.Y
      OBVIOUS
  <2>2. a \in UInt8 /\ x \in UInt8 /\ y \in UInt8
      BY <2>1, Parts
  <2>3. m4 = Wrote(m3, a4, a) /\ m5 = Wrote(m4, a5, x) /\ m6 = Wrote(m5, a6, y)
      BY <1>18, <1>19, <1>20, <2>1
  <2>4. Differ(a4, a5, a6) /\ Uncounted(a4, a5, a6)
      BY <1>4, <1>5 DEF Differ, Uncounted
  <2>5. m3 \in RAM
      BY <1>17
  <2>6. /\ m7[a4] = a /\ m7[a5] = x /\ m7[a6] = y /\ m7[NmiCount] = 16
        /\ m6[NmiCount] = m3[NmiCount]
        /\ \A c \in Cells : c # a4 /\ c # a5 /\ c # a6 /\ c # NmiCount => m7[c] = m3[c]
      BY <1>21, <2>2, <2>3, <2>4, <2>5, RegistersWritten
  <2>. QED BY <2>1, <2>6
<1>23. PICK m : m = <<m3, m3, m3, m4, m5, m6, m7>>
    OBVIOUS
<1>24. m[3] = m3 /\ m[4] = m4 /\ m[5] = m5 /\ m[6] = m6 /\ m[7] = m7
    BY <1>23
<1>25. Saves(was, at, m)
  <2>1. m6[NmiCount] = 9
      BY <1>5, <1>17, <1>22, Roomy
  <2>. QED BY <1>3, <1>18, <1>19, <1>20, <1>21, <1>24, <2>1 DEF Saves
<1>26. m7[a1] = hi /\ m7[a2] = lo /\ m7[a3] = f
    BY <1>4, <1>5, <1>17, <1>22
<1>27. Restores(was, at, m)
  <2>1. Pointed(m7, a2, a1, 0, was.PC)
    <3>1. Word(m7[a2], m7[a1]) = core.PC
        BY <1>10, <1>26
    <3>2. (core.PC + 0) % 65536 = core.PC
        BY Parts, Ranges
    <3>. QED BY <3>1, <3>2 DEF Pointed
  <2>. QED BY <1>3, <1>12, <1>22, <1>24, <1>26, <2>1 DEF Restores
<1>28. Spares(was, m)
  <2>1. NmiCount \in Hidden(core.SP)
      BY DEF Hidden
  <2>2. ASSUME NEW c \in Cells, c \notin Hidden(core.SP) PROVE m7[c] = core.mem[c]
    <3>1. c # NmiCount /\ c # a1 /\ c # a2 /\ c # a3 /\ c # a4 /\ c # a5 /\ c # a6
        BY <1>2, <1>3, <2>1, <2>2 DEF Apart
    <3>. QED BY <1>17, <1>22, <3>1
  <2>. QED BY <1>22, <1>24, <2>2 DEF Spares
<1>29. Handling(was, at, sp, m)
    BY <1>2, <1>25, <1>27, <1>28 DEF Handling, Pushes6
<1>30. HandlerAt(at, sp, m, was, core', was.cycles)
  <2>1. NmiEntry = 2560
      BY ProgramsAssumption DEF NmiAt
  <2>2. At(core', was.cycles, 2560, 7)
      BY <1>16, <2>1 DEF At, GoesTo
  <2>. QED BY <1>6, <1>16, <1>24, <2>2 DEF HandlerAt, GoesTo
<1>. QED BY <1>29, <1>30

----------------------------------------------------------------------------
(* The cells of the programs, the stack apart. *)
Own == {0, 16, 17, 18, 19, 20, 21, 22, 32, 33, 34, 35, 36, 49, 255, 1024, 1279} \cup Source
Alike(was, s) == \A c \in Own : s.mem[c] = was.mem[c]

LEMMA Resuming ==
    ASSUME NEW was, was.SP \in 0 .. 255, NEW s, NEW d, Resumed(was, s, d)
    PROVE  /\ Alike(was, s)
           /\ s.mem[0] = was.mem[0] /\ s.mem[16] = was.mem[16] /\ s.mem[17] = was.mem[17]
           /\ s.mem[18] = was.mem[18] /\ s.mem[19] = was.mem[19] /\ s.mem[20] = was.mem[20]
           /\ s.mem[21] = was.mem[21] /\ s.mem[22] = was.mem[22] /\ s.mem[36] = was.mem[36]
           /\ s.mem[49] = was.mem[49] /\ s.mem[255] = was.mem[255]
           /\ s.mem[1024] = was.mem[1024] /\ s.mem[1279] = was.mem[1279]
           /\ Sourced(was.mem) => Sourced(s.mem)
<1>1. \A c \in Hidden(was.SP) : c = 48 \/ (c >= 256 /\ c <= 511)
    BY DEF Hidden, NmiCount
<1>2. \A c \in Own : c \in Cells
    BY Roomy DEF Own, BrkCount
<1>3. \A c \in Own : c \notin Hidden(was.SP)
  <2>1. \A c \in Own : c \in Nat /\ c # 48 /\ ~(c >= 256 /\ c <= 511)
      BY DEF Own, Source
  <2>. QED BY <1>1, <2>1
<1>4. Alike(was, s)
    BY <1>2, <1>3 DEF Resumed, Alike
<1>5. Sourced(was.mem) => Sourced(s.mem)
  <2>1. \A c \in Source : c \in Own
      BY DEF Own
  <2>. QED BY <1>4, <2>1 DEF Alike, Sourced
<1>6. /\ s.mem[0] = was.mem[0] /\ s.mem[16] = was.mem[16] /\ s.mem[17] = was.mem[17]
      /\ s.mem[18] = was.mem[18] /\ s.mem[19] = was.mem[19] /\ s.mem[20] = was.mem[20]
      /\ s.mem[21] = was.mem[21] /\ s.mem[22] = was.mem[22] /\ s.mem[36] = was.mem[36]
      /\ s.mem[49] = was.mem[49] /\ s.mem[255] = was.mem[255]
      /\ s.mem[1024] = was.mem[1024] /\ s.mem[1279] = was.mem[1279]
    BY <1>4 DEF Alike, Own
<1>. QED BY <1>4, <1>5, <1>6

LEMMA CopiesKept ==
    ASSUME NEW was, NEW s, Alike(was, s), NEW a, NEW y, Copies(was.mem, a, y)
    PROVE  Copies(s.mem, a, y)
<1>1. ASSUME NEW k \in 0 .. 3 PROVE s.mem[Copied + k] = was.mem[Copied + k]
  <2>1. PICK c : c = Copied + k
      OBVIOUS
  <2>2. c \in Own
      BY <2>1 DEF Copied, Own
  <2>. QED BY <2>1, <2>2 DEF Alike
<1>. QED BY <1>1 DEF Copies

LEMMA OnTheStack ==
    ASSUME NEW was, NEW s, NEW d, Resumed(was, s, d), NEW c \in Cells,
           NEW sp, was.SP = sp, c \notin Hidden(sp)
    PROVE  s.mem[c] = was.mem[c]
BY DEF Resumed

(* What a program keeps on the stack is above what the handler writes. *)
Spared(was, s) ==
    /\ was.SP \in {254, 253} => s.mem[511] = was.mem[511]
    /\ was.SP = 253 => s.mem[510] = was.mem[510]
    /\ was.SP = 252 => /\ s.mem[511] = was.mem[511] /\ s.mem[510] = was.mem[510]
                       /\ s.mem[509] = was.mem[509]
    /\ was.SP = 0 => s.mem[257] = was.mem[257]
    /\ was.SP \in {253, 254, 255} => s.mem[257] = was.mem[257] /\ s.mem[256] = was.mem[256]

LEMMA StackSpared ==
    ASSUME NEW was, NEW s, NEW d, Resumed(was, s, d)
    PROVE  Spared(was, s)
<1>1. /\ 511 \in Cells /\ 510 \in Cells /\ 509 \in Cells /\ 257 \in Cells /\ 256 \in Cells
    BY StackRoomy
<1>2. ASSUME was.SP = 254 PROVE s.mem[511] = was.mem[511]
  <2>1. 511 \notin Hidden(254)
      BY DEF Hidden, NmiCount
  <2>. QED BY <1>1, <1>2, <2>1, OnTheStack
<1>3. ASSUME was.SP = 253 PROVE s.mem[511] = was.mem[511] /\ s.mem[510] = was.mem[510]
  <2>1. 511 \notin Hidden(253) /\ 510 \notin Hidden(253)
      BY DEF Hidden, NmiCount
  <2>. QED BY <1>1, <1>3, <2>1, OnTheStack
<1>4. ASSUME was.SP = 252
      PROVE  /\ s.mem[511] = was.mem[511] /\ s.mem[510] = was.mem[510]
             /\ s.mem[509] = was.mem[509]
  <2>1. 511 \notin Hidden(252) /\ 510 \notin Hidden(252) /\ 509 \notin Hidden(252)
      BY DEF Hidden, NmiCount
  <2>. QED BY <1>1, <1>4, <2>1, OnTheStack
<1>5. ASSUME was.SP = 0 PROVE s.mem[257] = was.mem[257]
  <2>1. 257 \notin Hidden(0)
      BY DEF Hidden, NmiCount
  <2>. QED BY <1>1, <1>5, <2>1, OnTheStack
<1>6. ASSUME was.SP \in {253, 254, 255}
      PROVE  s.mem[257] = was.mem[257] /\ s.mem[256] = was.mem[256]
  <2>1. ASSUME NEW sp \in {253, 254, 255} PROVE 257 \notin Hidden(sp) /\ 256 \notin Hidden(sp)
      BY DEF Hidden, NmiCount
  <2>. QED BY <1>1, <1>6, <2>1, OnTheStack
<1>. QED BY <1>2, <1>3, <1>4, <1>5, <1>6 DEF Spared

(* The clock of what was interrupted. *)
LEMMA Later ==
    ASSUME NEW was, NEW s, Resumed(was, s, was.cycles), NEW at, NEW n \in Int, At(was, 0, at, n)
    PROVE  At(s, 58, at, n)
BY DEF Resumed, At

LEMMA ChainResumes ==
    ASSUME NEW base, base \in Nat, NEW dec, NEW cy, NEW j, NEW was, NEW s,
           ChainAt(base, dec, cy, j, was, 0), Resumed(was, s, was.cycles)
    PROVE  ChainAt(base, dec, cy, j, s, 58)
<1>1. was.SP = 255
    BY DEF ChainAt
<1>2. /\ s.mem[16] = was.mem[16] /\ s.mem[17] = was.mem[17]
      /\ s.mem[18] = was.mem[18] /\ s.mem[19] = was.mem[19] /\ s.mem[20] = was.mem[20]
      /\ s.mem[21] = was.mem[21]
    BY <1>1, Resuming
<1>. QED BY <1>2, Later DEF ChainAt, Resumed

LEMMA CompareResumes ==
    ASSUME NEW over \in {0, 1}, NEW less \in {0, 1}, NEW below \in {0, 1}, NEW j, NEW was, NEW s,
           CompareAt(over, less, below, j, was, 0), Resumed(was, s, was.cycles)
    PROVE  CompareAt(over, less, below, j, s, 58)
<1>1. was.SP = 255
    BY DEF CompareAt
<1>2. /\ s.mem[16] = was.mem[16] /\ s.mem[17] = was.mem[17]
      /\ s.mem[18] = was.mem[18] /\ s.mem[19] = was.mem[19] /\ s.mem[20] = was.mem[20]
      /\ s.mem[21] = was.mem[21]
    BY <1>1, Resuming
<1>. QED BY <1>2, Later DEF CompareAt, Resumed

LEMMA DelayResumes ==
    ASSUME NEW j, j.a \in 1 .. 255, NEW was \in CoreState, NEW s,
           DelayAt(j, was, 0), Resumed(was, s, was.cycles)
    PROVE  DelayAt(j, s, 58)
<1>1. was.SP = 255
    BY DEF DelayAt
<1>2. s.mem[17] = was.mem[17]
    BY <1>1, Resuming
<1>3. /\ s.SP = 255 /\ s.PC = was.PC /\ s.X = was.X /\ s.P = was.P
      /\ s.cycles = was.cycles + 58
    BY <1>1 DEF Resumed
<1>4. PICK x \in Int, a \in Int : x = was.X /\ a = j.a
    BY Ranges DEF CoreState
<1>. QED BY <1>2, <1>3, <1>4 DEF DelayAt, At

LEMMA DoubleResumes ==
    ASSUME NEW l, NEW h, NEW top, NEW more \in {0, 4}, NEW j, NEW was, NEW s,
           DoubleAt(l, h, top, more, j, was, 0), Resumed(was, s, was.cycles)
    PROVE  DoubleAt(l, h, top, more, j, s, 58)
<1>1. was.SP = 255
    BY DEF DoubleAt
<1>2. s.mem[16] = was.mem[16] /\ s.mem[17] = was.mem[17]
    BY <1>1, Resuming
<1>. QED BY <1>2, Later DEF DoubleAt, Resumed

LEMMA MultiplyResumes ==
    ASSUME NEW j, j.a \in UInt8, NEW was \in CoreState, NEW s,
           MultiplyAt(j, was, 0), Resumed(was, s, was.cycles)
    PROVE  MultiplyAt(j, s, 58)
<1>1. was.SP = 255 /\ was.X \in Int
    BY Ranges DEF MultiplyAt, CoreState
<1>2. s.mem[16] = was.mem[16] /\ s.mem[17] = was.mem[17] /\ s.mem[19] = was.mem[19]
    BY <1>1, Resuming
<1>3. PICK n : n = Clock(j.a, was.X)
    OBVIOUS
<1>4. PICK m : m = Clock(j.a, was.X - 1)
    OBVIOUS
<1>5. PICK k \in Int : k = AllCycles(j.a)
    BY ClockEnds
<1>6. /\ was.X \in 0 .. 8 => n \in Int
      /\ was.X \in 1 .. 8 => m \in Int
    BY <1>3, <1>4 DEF Clock, Spent
<1>. QED BY <1>1, <1>2, <1>3, <1>4, <1>5, <1>6, Later DEF MultiplyAt, Resumed

LEMMA CopyResumes ==
    ASSUME NEW j, j.a \in {764, 766}, NEW was \in CoreState, NEW s,
           CopyAt(j, was, 0), Resumed(was, s, was.cycles)
    PROVE  CopyAt(j, s, 58)
<1>1. was.SP = 255 /\ was.Y \in Int
    BY Ranges DEF CopyAt, CoreState
<1>2. /\ s.mem[255] = was.mem[255] /\ s.mem[0] = was.mem[0] /\ s.mem[36] = was.mem[36]
      /\ Sourced(was.mem) => Sourced(s.mem)
      /\ \A a, y : Copies(was.mem, a, y) => Copies(s.mem, a, y)
  <2>1. was.SP \in 0 .. 255
      BY <1>1
  <2>2. s.mem[255] = was.mem[255] /\ s.mem[0] = was.mem[0] /\ s.mem[36] = was.mem[36]
      BY <2>1, Resuming
  <2>3. Sourced(was.mem) => Sourced(s.mem)
      BY <2>1, Resuming
  <2>4. ASSUME NEW a, NEW y, Copies(was.mem, a, y) PROVE Copies(s.mem, a, y)
    <3>1. Alike(was, s)
        BY <2>1, Resuming
    <3>. QED BY <2>4, <3>1, CopiesKept
  <2>. QED BY <2>2, <2>3, <2>4
<1>3. \A a, y : CopiesNext(was.mem, a, y) => CopiesNext(s.mem, a, y)
    BY <1>2 DEF CopiesNext
<1>4. PICK n : n = CopyClock(j.a, was.Y)
    OBVIOUS
<1>5. PICK m : m = NextClock(j.a, was.Y)
    OBVIOUS
<1>6. PICK k \in Int : k = CopyClock(j.a, 4)
    BY DEF CopyClock, Late
<1>7. n \in Int /\ m \in Int
    BY <1>1, <1>4, <1>5 DEF CopyClock, NextClock, Late
<1>8. /\ m - 12 \in Int /\ m - 7 \in Int /\ n - 5 \in Int /\ n - 3 \in Int
      /\ k - 1 \in Int /\ k + 2 \in Int
    BY <1>7
<1>. QED BY <1>1, <1>2, <1>3, <1>4, <1>5, <1>6, <1>7, <1>8, Later DEF CopyAt, Resumed

LEMMA MergeResumes ==
    ASSUME NEW r1, NEW r2, NEW r3, NEW r4, NEW f, NEW j, NEW was, NEW s,
           MergeAt(r1, r2, r3, r4, f, j, was, 0), Resumed(was, s, was.cycles)
    PROVE  MergeAt(r1, r2, r3, r4, f, j, s, 58)
<1>1. was.SP = 255 \/ was.SP = 254
    BY DEF MergeAt
<1>2. /\ s.mem[16] = was.mem[16] /\ s.mem[17] = was.mem[17]
      /\ s.mem[18] = was.mem[18] /\ s.mem[19] = was.mem[19] /\ s.mem[20] = was.mem[20]
      /\ s.mem[21] = was.mem[21] /\ s.mem[1279] = was.mem[1279] /\ s.mem[1024] = was.mem[1024]
    BY <1>1, Resuming
<1>3. was.SP = 254 => s.mem[511] = was.mem[511]
    BY StackSpared DEF Spared
<1>. QED BY <1>2, <1>3, Later DEF MergeAt, Resumed

LEMMA CallResumes ==
    ASSUME NEW t, NEW f, NEW j, NEW was, NEW s,
           CallAt(t, f, j, was, 0), Resumed(was, s, was.cycles)
    PROVE  CallAt(t, f, j, s, 58)
<1>1. was.SP = 255 \/ was.SP = 254 \/ was.SP = 253 \/ was.SP = 0 \/ was.SP = 1
    BY DEF CallAt
<1>2. /\ s.mem[17] = was.mem[17] /\ s.mem[20] = was.mem[20] /\ s.mem[21] = was.mem[21]
      /\ s.mem[22] = was.mem[22]
    BY <1>1, Resuming
<1>3. Spared(was, s)
    BY StackSpared
<1>. QED BY <1>2, <1>3, Later DEF CallAt, Resumed, Spared

LEMMA TrapResumes ==
    ASSUME NEW p, NEW f, NEW j, NEW was, NEW s,
           TrapAt(p, f, j, was, 0), Resumed(was, s, was.cycles)
    PROVE  TrapAt(p, f, j, s, 58)
<1>1. was.SP = 255 \/ was.SP = 252
    BY DEF TrapAt
<1>2. s.mem[20] = was.mem[20] /\ s.mem[49] = was.mem[49]
    BY <1>1, Resuming
<1>3. Spared(was, s)
    BY StackSpared
<1>. QED BY <1>2, <1>3, Later DEF TrapAt, Resumed, Spared

----------------------------------------------------------------------------
(* What the sums of bytes mean for words.                                  *)
LEMMA WordBytes ==
    ASSUME NEW x \in UInt16
    PROVE  /\ Hi(x) \in UInt8 /\ Lo(x) \in UInt8
           /\ Hi(x) \in Nat /\ Lo(x) \in Nat /\ Hi(x) < 256 /\ Lo(x) < 256
           /\ x = 256 * Hi(x) + Lo(x)
           /\ Signed8(Hi(x)) \in Int /\ Signed(x) = 256 * Signed8(Hi(x)) + Lo(x)
<1>1. x \in Nat /\ x < 65536
    BY Ranges
<1>2. PICK h \in UInt8, l \in UInt8 : h = Hi(x) /\ l = Lo(x)
    BY <1>1, Bytes8 DEF Hi, Lo
<1>3. h \in Nat /\ l \in Nat /\ h < 256 /\ l < 256
    BY Ranges
<1>4. x = 256 * h + l
    BY <1>1, <1>2, WordSplit DEF Hi, Lo, Word
<1>5. Signed8(h) \in Int /\ Signed(x) = 256 * Signed8(h) + l
    BY <1>3, <1>4 DEF Signed8, Signed
<1>. QED BY <1>2, <1>3, <1>4, <1>5

(* x has these bytes; the bytes a and b and the carry d add to l and the   *)
(* carry c, or leave l and the borrow c.                                   *)
Splits(x, h, l) == h \in Nat /\ l \in Nat /\ h < 256 /\ l < 256 /\ x = 256 * h + l
AddsTo(a, b, d, l, c) == l + 256 * c = a + b + d
Leaves(a, b, d, l, c) == l - 256 * c = a - b - d
Above256(d, t, e) == t \in Int /\ e \in Nat /\ e < 256 /\ d = 256 * t + e

LEMMA CarriedSum ==
    ASSUME NEW x, NEW ah, NEW al, Splits(x, ah, al), NEW y, NEW bh, NEW bl, Splits(y, bh, bl),
           NEW c \in {0, 1}, NEW d \in {0, 1},
           NEW r, NEW h, NEW l, Splits(r, h, l), AddsTo(al, bl, 0, l, c), AddsTo(ah, bh, c, h, d)
    PROVE  r = (x + y) % 65536 /\ (d = 1 <=> x + y >= 65536)
<1>1. /\ x \in Nat /\ y \in Nat /\ r \in Nat /\ r < 65536
      /\ r + 65536 * d = x + y
    BY DEF Splits, AddsTo
<1>2. d = 0 \/ d = 1
    OBVIOUS
<1>3. PICK z \in Nat : z = x + y
    BY <1>1
<1>4. z % 65536 = r
    BY <1>1, <1>2, <1>3
<1>. QED BY <1>1, <1>2, <1>3, <1>4

LEMMA BorrowedDifference ==
    ASSUME NEW x, NEW ah, NEW al, Splits(x, ah, al), NEW y, NEW bh, NEW bl, Splits(y, bh, bl),
           NEW c \in {0, 1}, NEW d \in {0, 1},
           NEW r, NEW h, NEW l, Splits(r, h, l), Leaves(al, bl, 0, l, c), Leaves(ah, bh, c, h, d)
    PROVE  r = (x - y) % 65536 /\ (d = 0 <=> x >= y)
<1>1. /\ x \in Nat /\ y \in Nat /\ r \in Nat /\ r < 65536
      /\ r - 65536 * d = x - y
    BY DEF Splits, Leaves
<1>2. d = 0 \/ d = 1
    OBVIOUS
<1>3. PICK z \in Int : z = x - y
    BY <1>1
<1>4. z % 65536 = r
    BY <1>1, <1>2, <1>3
<1>. QED BY <1>1, <1>2, <1>3, <1>4

LEMMA SignedRange ==
    ASSUME NEW d, NEW t, NEW e, Above256(d, t, e)
    PROVE  t \in -128 .. 127 <=> Fits(d)
<1>1. /\ d \in Int
      /\ t >= -128 <=> d >= -32768
      /\ t <= 127 <=> d <= 32767
    BY DEF Above256
<1>2. Fits(d) <=> d >= -32768 /\ d <= 32767
    BY <1>1, Fitting
<1>3. t \in -128 .. 127 <=> t >= -128 /\ t <= 127
    BY DEF Above256
<1>. QED BY <1>1, <1>2, <1>3

(* The two sums of a program of this kind, with the flags they were made   *)
(* with.                                                                   *)
LEMMA Twice ==
    ASSUME NEW dec, NEW cy, NEW j, NEW h, NEW l, NEW p, HighSum(dec, cy, j, h, l, p)
    PROVE  \E q0, q1 : /\ Mode(dec, cy, q0) /\ ("D" \in q1 <=> dec)
                       /\ l = Sums(cy, Lo(j.a), Lo(j.b), q0).a
                       /\ ("C" \in q1 <=> "C" \in Sums(cy, Lo(j.a), Lo(j.b), q0).p)
                       /\ h = Sums(cy, Hi(j.a), Hi(j.b), q1).a
                       /\ ("C" \in p <=> "C" \in Sums(cy, Hi(j.a), Hi(j.b), q1).p)
                       /\ ("V" \in p <=> "V" \in Sums(cy, Hi(j.a), Hi(j.b), q1).p)
BY DEF HighSum, LowSum

(* The sum or the difference of the words of j, as two bytes and the flags *)
(* they were made with.                                                    *)
Sum2(j, h, l, p) == HighSum(FALSE, FALSE, j, h, l, p)
Difference2(j, h, l, p) == HighSum(FALSE, TRUE, j, h, l, p)
SumBCD2(j, h, l, p) == HighSum(TRUE, FALSE, j, h, l, p)
DifferenceBCD2(j, h, l, p) == HighSum(TRUE, TRUE, j, h, l, p)

LEMMA AddMeans ==
    ASSUME NEW j, j.a \in UInt16, j.b \in UInt16, NEW h, NEW l, NEW p, Sum2(j, h, l, p)
    PROVE  /\ 256 * h + l = (j.a + j.b) % 65536
           /\ "C" \in p <=> j.a + j.b >= 65536
           /\ "V" \in p <=> ~Fits(Signed(j.a) + Signed(j.b))
<1>1. PICK q0, q1 :
          /\ "D" \notin q0 /\ "C" \notin q0 /\ "D" \notin q1
          /\ l = Adc(Lo(j.a), Lo(j.b), q0).a
          /\ ("C" \in q1 <=> "C" \in Adc(Lo(j.a), Lo(j.b), q0).p)
          /\ h = Adc(Hi(j.a), Hi(j.b), q1).a
          /\ ("C" \in p <=> "C" \in Adc(Hi(j.a), Hi(j.b), q1).p)
          /\ ("V" \in p <=> "V" \in Adc(Hi(j.a), Hi(j.b), q1).p)
  <2>1. PICK dec \in BOOLEAN : dec = FALSE
      OBVIOUS
  <2>2. PICK cy \in BOOLEAN : cy = FALSE
      OBVIOUS
  <2>3. HighSum(dec, cy, j, h, l, p)
      BY <2>1, <2>2 DEF Sum2
  <2>4. PICK q0, q1 :
            /\ Mode(dec, cy, q0) /\ ("D" \in q1 <=> dec)
            /\ l = Sums(cy, Lo(j.a), Lo(j.b), q0).a
            /\ ("C" \in q1 <=> "C" \in Sums(cy, Lo(j.a), Lo(j.b), q0).p)
            /\ h = Sums(cy, Hi(j.a), Hi(j.b), q1).a
            /\ ("C" \in p <=> "C" \in Sums(cy, Hi(j.a), Hi(j.b), q1).p)
            /\ ("V" \in p <=> "V" \in Sums(cy, Hi(j.a), Hi(j.b), q1).p)
      BY <2>3, Twice
  <2>5. \A a, m, q : Sums(cy, a, m, q) = Adc(a, m, q)
      BY <2>2 DEF Sums
  <2>. QED BY <2>1, <2>2, <2>4, <2>5 DEF Mode
<1>2. PICK ah \in UInt8, al \in UInt8, bh \in UInt8, bl \in UInt8 :
          ah = Hi(j.a) /\ al = Lo(j.a) /\ bh = Hi(j.b) /\ bl = Lo(j.b)
    BY WordBytes
<1>3. PICK x, y : x = j.a /\ y = j.b
    OBVIOUS
<1>4. PICK sa \in Int, sb \in Int : sa = Signed8(ah) /\ sb = Signed8(bh)
    BY <1>2, WordBytes
<1>5. /\ ah \in Nat /\ al \in Nat /\ bh \in Nat /\ bl \in Nat
      /\ ah < 256 /\ al < 256 /\ bh < 256 /\ bl < 256
      /\ x = 256 * ah + al /\ y = 256 * bh + bl
      /\ Signed(x) = 256 * sa + al /\ Signed(y) = 256 * sb + bl
    BY <1>2, <1>3, <1>4, WordBytes
<1>6. PICK low : low = Adc(al, bl, q0)
    BY Zenon
<1>7. PICK high : high = Adc(ah, bh, q1)
    BY Zenon
<1>8. low.a \in UInt8 /\ low.a + 256 * Carry(low.p) = al + bl + Carry(q0)
    BY <1>1, <1>6, AdcBinary
<1>9. /\ high.a \in UInt8 /\ high.a + 256 * Carry(high.p) = ah + bh + Carry(q1)
      /\ "V" \in high.p <=> sa + sb + Carry(q1) \notin -128 .. 127
    BY <1>1, <1>4, <1>7, AdcBinary
<1>10. PICK c \in {0, 1} : c = Carry(q1) /\ c = Carry(low.p)
    BY <1>1, <1>2, <1>6 DEF Carry
<1>11. PICK d \in {0, 1} : d = Carry(high.p) /\ (d = 1 <=> "C" \in p)
    BY <1>1, <1>2, <1>7 DEF Carry
<1>12. l \in Nat /\ l < 256 /\ AddsTo(al, bl, 0, l, c)
  <2>1. Carry(q0) = 0
      BY <1>1 DEF Carry
  <2>2. l = low.a
      BY <1>1, <1>2, <1>6
  <2>3. l \in Nat /\ l < 256
      BY <1>8, <2>2, Ranges
  <2>. QED BY <1>8, <1>10, <2>1, <2>2, <2>3 DEF AddsTo
<1>13. h \in Nat /\ h < 256 /\ AddsTo(ah, bh, c, h, d)
  <2>1. h = high.a
      BY <1>1, <1>2, <1>7
  <2>2. h \in Nat /\ h < 256
      BY <1>9, <2>1, Ranges
  <2>. QED BY <1>9, <1>10, <1>11, <2>1, <2>2 DEF AddsTo
<1>14. 256 * h + l = (x + y) % 65536 /\ (d = 1 <=> x + y >= 65536)
  <2>1. Splits(x, ah, al) /\ Splits(y, bh, bl)
      BY <1>5 DEF Splits
  <2>2. PICK r : r = 256 * h + l
      OBVIOUS
  <2>3. Splits(r, h, l)
      BY <1>12, <1>13, <2>2 DEF Splits
  <2>. QED BY <1>12, <1>13, <2>1, <2>2, <2>3, CarriedSum
<1>15. "V" \in p <=> ~Fits(Signed(x) + Signed(y))
  <2>1. "V" \in p <=> sa + sb + c \notin -128 .. 127
      BY <1>1, <1>2, <1>7, <1>9, <1>10
  <2>2. PICK t \in Int, s \in Int : t = sa + sb + c /\ s = Signed(x) + Signed(y)
      BY <1>5
  <2>3. Above256(s, t, l)
      BY <1>4, <1>5, <1>12, <2>2 DEF AddsTo, Above256
  <2>4. t \in -128 .. 127 <=> Fits(s)
      BY <2>3, SignedRange
  <2>. QED BY <2>1, <2>2, <2>4
<1>. QED BY <1>3, <1>11, <1>14, <1>15

LEMMA SubtractMeans ==
    ASSUME NEW j, j.a \in UInt16, j.b \in UInt16, NEW h, NEW l, NEW p, Difference2(j, h, l, p)
    PROVE  /\ 256 * h + l = (j.a - j.b) % 65536
           /\ "C" \in p <=> j.a >= j.b
           /\ "V" \in p <=> ~Fits(Signed(j.a) - Signed(j.b))
<1>1. PICK q0, q1 :
          /\ "D" \notin q0 /\ "C" \in q0 /\ "D" \notin q1
          /\ l = Sbc(Lo(j.a), Lo(j.b), q0).a
          /\ ("C" \in q1 <=> "C" \in Sbc(Lo(j.a), Lo(j.b), q0).p)
          /\ h = Sbc(Hi(j.a), Hi(j.b), q1).a
          /\ ("C" \in p <=> "C" \in Sbc(Hi(j.a), Hi(j.b), q1).p)
          /\ ("V" \in p <=> "V" \in Sbc(Hi(j.a), Hi(j.b), q1).p)
  <2>1. PICK dec \in BOOLEAN : dec = FALSE
      OBVIOUS
  <2>2. PICK cy \in BOOLEAN : cy = TRUE
      OBVIOUS
  <2>3. HighSum(dec, cy, j, h, l, p)
      BY <2>1, <2>2 DEF Difference2
  <2>4. PICK q0, q1 :
            /\ Mode(dec, cy, q0) /\ ("D" \in q1 <=> dec)
            /\ l = Sums(cy, Lo(j.a), Lo(j.b), q0).a
            /\ ("C" \in q1 <=> "C" \in Sums(cy, Lo(j.a), Lo(j.b), q0).p)
            /\ h = Sums(cy, Hi(j.a), Hi(j.b), q1).a
            /\ ("C" \in p <=> "C" \in Sums(cy, Hi(j.a), Hi(j.b), q1).p)
            /\ ("V" \in p <=> "V" \in Sums(cy, Hi(j.a), Hi(j.b), q1).p)
      BY <2>3, Twice
  <2>5. \A a, m, q : Sums(cy, a, m, q) = Sbc(a, m, q)
      BY <2>2 DEF Sums
  <2>6. "D" \notin q0 /\ "C" \in q0 /\ "D" \notin q1
      BY <2>1, <2>2, <2>4 DEF Mode
  <2>. QED BY <2>4, <2>5, <2>6
<1>2. PICK ah \in UInt8, al \in UInt8, bh \in UInt8, bl \in UInt8 :
          ah = Hi(j.a) /\ al = Lo(j.a) /\ bh = Hi(j.b) /\ bl = Lo(j.b)
    BY WordBytes
<1>3. PICK x, y : x = j.a /\ y = j.b
    OBVIOUS
<1>4. PICK sa \in Int, sb \in Int : sa = Signed8(ah) /\ sb = Signed8(bh)
    BY <1>2, WordBytes
<1>5. /\ ah \in Nat /\ al \in Nat /\ bh \in Nat /\ bl \in Nat
      /\ ah < 256 /\ al < 256 /\ bh < 256 /\ bl < 256
      /\ x = 256 * ah + al /\ y = 256 * bh + bl
      /\ Signed(x) = 256 * sa + al /\ Signed(y) = 256 * sb + bl
    BY <1>2, <1>3, <1>4, WordBytes
<1>6. PICK low : low = Sbc(al, bl, q0)
    BY Zenon
<1>7. PICK high : high = Sbc(ah, bh, q1)
    BY Zenon
<1>8. low.a \in UInt8 /\ low.a - 256 * Borrow(low.p) = al - bl - Borrow(q0)
    BY <1>1, <1>6, SbcBinary
<1>9. /\ high.a \in UInt8 /\ high.a - 256 * Borrow(high.p) = ah - bh - Borrow(q1)
      /\ "V" \in high.p <=> sa - sb - Borrow(q1) \notin -128 .. 127
    BY <1>1, <1>4, <1>7, SbcBinary
<1>10. PICK c \in {0, 1} : c = Borrow(q1) /\ c = Borrow(low.p)
    BY <1>1, <1>2, <1>6 DEF Borrow, Carry
<1>11. PICK d \in {0, 1} : d = Borrow(high.p) /\ (d = 0 <=> "C" \in p)
    BY <1>1, <1>2, <1>7 DEF Borrow, Carry
<1>12. l \in Nat /\ l < 256 /\ Leaves(al, bl, 0, l, c)
  <2>1. Borrow(q0) = 0
      BY <1>1 DEF Borrow, Carry
  <2>2. l = low.a
      BY <1>1, <1>2, <1>6
  <2>3. l \in Nat /\ l < 256
      BY <1>8, <2>2, Ranges
  <2>. QED BY <1>8, <1>10, <2>1, <2>2, <2>3 DEF Leaves
<1>13. h \in Nat /\ h < 256 /\ Leaves(ah, bh, c, h, d)
  <2>1. h = high.a
      BY <1>1, <1>2, <1>7
  <2>2. h \in Nat /\ h < 256
      BY <1>9, <2>1, Ranges
  <2>. QED BY <1>9, <1>10, <1>11, <2>1, <2>2 DEF Leaves
<1>14. 256 * h + l = (x - y) % 65536 /\ (d = 0 <=> x >= y)
  <2>1. Splits(x, ah, al) /\ Splits(y, bh, bl)
      BY <1>5 DEF Splits
  <2>2. PICK r : r = 256 * h + l
      OBVIOUS
  <2>3. Splits(r, h, l)
      BY <1>12, <1>13, <2>2 DEF Splits
  <2>. QED BY <1>12, <1>13, <2>1, <2>2, <2>3, BorrowedDifference
<1>15. "V" \in p <=> ~Fits(Signed(x) - Signed(y))
  <2>1. "V" \in p <=> sa - sb - c \notin -128 .. 127
      BY <1>1, <1>2, <1>7, <1>9, <1>10
  <2>2. PICK t \in Int, s \in Int : t = sa - sb - c /\ s = Signed(x) - Signed(y)
      BY <1>5
  <2>3. Above256(s, t, l)
      BY <1>4, <1>5, <1>12, <2>2 DEF Leaves, Above256
  <2>4. t \in -128 .. 127 <=> Fits(s)
      BY <2>3, SignedRange
  <2>. QED BY <2>1, <2>2, <2>4
<1>. QED BY <1>3, <1>11, <1>14, <1>15

----------------------------------------------------------------------------
(* The decimal programs.                                                   *)
Spelled(w) == \A unit \in {1, 16, 256, 4096} : Digit4(w, unit) <= 9
Spells(w, d3, d2, d1, d0) ==
    /\ d3 \in Digit /\ d2 \in Digit /\ d1 \in Digit /\ d0 \in Digit
    /\ Hi(w) = BCD(d3, d2) /\ Lo(w) = BCD(d1, d0)
    /\ Digits4(w) = 1000 * d3 + 100 * d2 + 10 * d1 + d0

LEMMA SpelledOut ==
    ASSUME NEW w \in UInt16, Spelled(w)
    PROVE  Spells(w, Digit4(w, 4096), Digit4(w, 256), Digit4(w, 16), Digit4(w, 1))
<1>1. w \in Nat /\ w < 65536
    BY Ranges
<1>2. PICK d3 \in Nat, d2 \in Nat, d1 \in Nat, d0 \in Nat :
          /\ d3 = Digit4(w, 4096) /\ d2 = Digit4(w, 256)
          /\ d1 = Digit4(w, 16) /\ d0 = Digit4(w, 1)
    BY <1>1 DEF Digit4
<1>3. d3 <= 9 /\ d2 <= 9 /\ d1 <= 9 /\ d0 <= 9
    BY <1>2 DEF Spelled
<1>4. d3 \in Digit /\ d2 \in Digit /\ d1 \in Digit /\ d0 \in Digit
    BY <1>3 DEF Digit
<1>5. Lo(w) = BCD(d1, d0)
    BY <1>1, <1>2 DEF Lo, BCD, Digit4
<1>6. Hi(w) = BCD(d3, d2)
    BY <1>1, <1>2 DEF Hi, BCD, Digit4
<1>7. Digits4(w) = 1000 * d3 + 100 * d2 + 10 * d1 + d0
    BY <1>2 DEF Digits4
<1>. QED BY <1>2, <1>4, <1>5, <1>6, <1>7 DEF Spells

LEMMA SpeltBack ==
    ASSUME NEW d3 \in Digit, NEW d2 \in Digit, NEW d1 \in Digit, NEW d0 \in Digit,
           NEW h, NEW l, h = BCD(d3, d2), l = BCD(d1, d0)
    PROVE  Digits4(256 * h + l) = 1000 * d3 + 100 * d2 + 10 * d1 + d0
<1>1. /\ d3 \in Nat /\ d2 \in Nat /\ d1 \in Nat /\ d0 \in Nat
      /\ d3 <= 9 /\ d2 <= 9 /\ d1 <= 9 /\ d0 <= 9
    BY DEF Digit
<1>2. PICK w \in Nat : w = 256 * h + l /\ w = 4096 * d3 + 256 * d2 + 16 * d1 + d0
    BY <1>1 DEF BCD
<1>3. Digit4(w, 1) = d0
    BY <1>1, <1>2 DEF Digit4
<1>4. Digit4(w, 16) = d1
    BY <1>1, <1>2 DEF Digit4
<1>5. Digit4(w, 256) = d2
    BY <1>1, <1>2 DEF Digit4
<1>6. Digit4(w, 4096) = d3
    BY <1>1, <1>2 DEF Digit4
<1>. QED BY <1>1, <1>2, <1>3, <1>4, <1>5, <1>6 DEF Digits4

LEMMA DecimalAddMeans ==
    ASSUME NEW j, j.a \in UInt16, j.b \in UInt16, Spelled(j.a), Spelled(j.b),
           NEW h, NEW l, NEW p, SumBCD2(j, h, l, p)
    PROVE  /\ Digits4(256 * h + l) = (Digits4(j.a) + Digits4(j.b)) % 10000
           /\ "C" \in p <=> Digits4(j.a) + Digits4(j.b) >= 10000
<1>1. PICK a3, a2, a1, a0 : Spells(j.a, a3, a2, a1, a0)
    BY SpelledOut
<1>2. PICK m3, m2, m1, m0 : Spells(j.b, m3, m2, m1, m0)
    BY SpelledOut
<1>3. /\ a3 \in Digit /\ a2 \in Digit /\ a1 \in Digit /\ a0 \in Digit
      /\ m3 \in Digit /\ m2 \in Digit /\ m1 \in Digit /\ m0 \in Digit
    BY <1>1, <1>2 DEF Spells
<1>4. PICK q0, q1 :
          /\ "D" \in q0 /\ "C" \notin q0 /\ "D" \in q1
          /\ l = Adc(BCD(a1, a0), BCD(m1, m0), q0).a
          /\ ("C" \in q1 <=> "C" \in Adc(BCD(a1, a0), BCD(m1, m0), q0).p)
          /\ h = Adc(BCD(a3, a2), BCD(m3, m2), q1).a
          /\ ("C" \in p <=> "C" \in Adc(BCD(a3, a2), BCD(m3, m2), q1).p)
  <2>1. PICK dec \in BOOLEAN : dec = TRUE
      OBVIOUS
  <2>2. PICK cy \in BOOLEAN : cy = FALSE
      OBVIOUS
  <2>3. HighSum(dec, cy, j, h, l, p)
      BY <2>1, <2>2 DEF SumBCD2
  <2>4. PICK q0, q1 :
            /\ Mode(dec, cy, q0) /\ ("D" \in q1 <=> dec)
            /\ l = Sums(cy, Lo(j.a), Lo(j.b), q0).a
            /\ ("C" \in q1 <=> "C" \in Sums(cy, Lo(j.a), Lo(j.b), q0).p)
            /\ h = Sums(cy, Hi(j.a), Hi(j.b), q1).a
            /\ ("C" \in p <=> "C" \in Sums(cy, Hi(j.a), Hi(j.b), q1).p)
            /\ ("V" \in p <=> "V" \in Sums(cy, Hi(j.a), Hi(j.b), q1).p)
      BY <2>3, Twice
  <2>5. \A a, m, q : Sums(cy, a, m, q) = Adc(a, m, q)
      BY <2>2 DEF Sums
  <2>6. "D" \in q0 /\ "C" \notin q0 /\ "D" \in q1
      BY <2>1, <2>2, <2>4 DEF Mode
  <2>. QED BY <1>1, <1>2, <2>4, <2>5, <2>6 DEF Spells
<1>5. PICK low : low = Adc(BCD(a1, a0), BCD(m1, m0), q0)
    BY Zenon
<1>6. PICK high : high = Adc(BCD(a3, a2), BCD(m3, m2), q1)
    BY Zenon
<1>7. PICK r1 \in Digit, r0 \in Digit :
          /\ low.a = BCD(r1, r0)
          /\ 10 * r1 + r0 + 100 * Carry(low.p) = (10 * a1 + a0) + (10 * m1 + m0) + Carry(q0)
  <2>1. /\ \E h2, l2 \in Digit :
               /\ Adc(BCD(a1, a0), BCD(m1, m0), q0).a = BCD(h2, l2)
               /\ 10 * h2 + l2 + 100 * Carry(Adc(BCD(a1, a0), BCD(m1, m0), q0).p)
                      = (10 * a1 + a0) + (10 * m1 + m0) + Carry(q0)
        /\ "D" \in Adc(BCD(a1, a0), BCD(m1, m0), q0).p
      BY <1>3, <1>4, AdcDecimal
  <2>. QED BY <1>5, <2>1
<1>8. PICK r3 \in Digit, r2 \in Digit :
          /\ high.a = BCD(r3, r2)
          /\ 10 * r3 + r2 + 100 * Carry(high.p) = (10 * a3 + a2) + (10 * m3 + m2) + Carry(q1)
  <2>1. /\ \E h2, l2 \in Digit :
               /\ Adc(BCD(a3, a2), BCD(m3, m2), q1).a = BCD(h2, l2)
               /\ 10 * h2 + l2 + 100 * Carry(Adc(BCD(a3, a2), BCD(m3, m2), q1).p)
                      = (10 * a3 + a2) + (10 * m3 + m2) + Carry(q1)
        /\ "D" \in Adc(BCD(a3, a2), BCD(m3, m2), q1).p
      BY <1>3, <1>4, AdcDecimal
  <2>. QED BY <1>6, <2>1
<1>9. PICK c \in {0, 1} : c = Carry(q1) /\ c = Carry(low.p)
    BY <1>4, <1>5 DEF Carry
<1>10. PICK d \in {0, 1} : d = Carry(high.p) /\ (d = 1 <=> "C" \in p)
    BY <1>4, <1>6 DEF Carry
<1>11. Carry(q0) = 0
    BY <1>4 DEF Carry
<1>12. Digits4(256 * h + l) = 1000 * r3 + 100 * r2 + 10 * r1 + r0
    BY <1>4, <1>5, <1>6, <1>7, <1>8, SpeltBack
<1>13. PICK x \in Nat, y \in Nat, r \in Nat :
           /\ x = Digits4(j.a) /\ y = Digits4(j.b) /\ r = Digits4(256 * h + l) /\ r < 10000
           /\ r + 10000 * d = x + y
  <2>1. PICK x, y : x = Digits4(j.a) /\ y = Digits4(j.b)
      OBVIOUS
  <2>2. /\ x = 1000 * a3 + 100 * a2 + 10 * a1 + a0
        /\ y = 1000 * m3 + 100 * m2 + 10 * m1 + m0
      BY <1>1, <1>2, <2>1 DEF Spells
  <2>3. PICK r : r = 1000 * r3 + 100 * r2 + 10 * r1 + r0
      OBVIOUS
  <2>4. x \in Nat /\ y \in Nat /\ r \in Nat /\ r < 10000
      BY <1>3, <2>2, <2>3 DEF Digit
  <2>5. /\ 10 * r1 + r0 + 100 * c = (10 * a1 + a0) + (10 * m1 + m0)
        /\ 10 * r3 + r2 + 100 * d = (10 * a3 + a2) + (10 * m3 + m2) + c
      BY <1>3, <1>7, <1>8, <1>9, <1>10, <1>11 DEF Digit
  <2>6. r + 10000 * d = x + y
      BY <1>3, <2>2, <2>3, <2>5 DEF Digit
  <2>. QED BY <1>12, <2>1, <2>3, <2>4, <2>6
<1>14. r = (x + y) % 10000 /\ (d = 1 <=> x + y >= 10000)
  <2>1. d = 0 \/ d = 1
      OBVIOUS
  <2>2. PICK z \in Nat : z = x + y
      OBVIOUS
  <2>3. z % 10000 = r
      BY <1>13, <2>1, <2>2
  <2>. QED BY <1>13, <2>1, <2>2, <2>3
<1>. QED BY <1>10, <1>13, <1>14

(* Words of decimal digits compare as the numbers they spell.              *)
LEMMA SpelledInOrder ==
    ASSUME NEW x, NEW a3, NEW a2, NEW a1, NEW a0, Spells(x, a3, a2, a1, a0),
           NEW y, NEW m3, NEW m2, NEW m1, NEW m0, Spells(y, m3, m2, m1, m0),
           x \in UInt16, y \in UInt16
    PROVE  x >= y <=> Digits4(x) >= Digits4(y)
<1>1. /\ a3 \in 0 .. 9 /\ a2 \in 0 .. 9 /\ a1 \in 0 .. 9 /\ a0 \in 0 .. 9
      /\ m3 \in 0 .. 9 /\ m2 \in 0 .. 9 /\ m1 \in 0 .. 9 /\ m0 \in 0 .. 9
    BY DEF Spells, Digit
<1>2. x = 4096 * a3 + 256 * a2 + 16 * a1 + a0 /\ y = 4096 * m3 + 256 * m2 + 16 * m1 + m0
  <2>1. x = 256 * BCD(a3, a2) + BCD(a1, a0)
      BY WordBytes DEF Spells
  <2>2. y = 256 * BCD(m3, m2) + BCD(m1, m0)
      BY WordBytes DEF Spells
  <2>. QED BY <1>1, <2>1, <2>2 DEF BCD
<1>3. PICK u \in Nat : u = 1000 * a3 + 100 * a2 + 10 * a1 + a0 /\ u = Digits4(x)
    BY <1>1 DEF Spells
<1>4. PICK v \in Nat : v = 1000 * m3 + 100 * m2 + 10 * m1 + m0 /\ v = Digits4(y)
    BY <1>1 DEF Spells
<1>5. x >= y <=> u >= v
    BY <1>1, <1>2, <1>3, <1>4
<1>. QED BY <1>3, <1>4, <1>5

LEMMA DecimalSubtractMeans ==
    ASSUME NEW j, j.a \in UInt16, j.b \in UInt16, Spelled(j.a), Spelled(j.b),
           NEW h, NEW l, NEW p, DifferenceBCD2(j, h, l, p)
    PROVE  /\ Digits4(256 * h + l) = (Digits4(j.a) - Digits4(j.b)) % 10000
           /\ "C" \in p <=> j.a >= j.b
<1>1. PICK a3, a2, a1, a0 : Spells(j.a, a3, a2, a1, a0)
    BY SpelledOut
<1>2. PICK m3, m2, m1, m0 : Spells(j.b, m3, m2, m1, m0)
    BY SpelledOut
<1>3. /\ a3 \in Digit /\ a2 \in Digit /\ a1 \in Digit /\ a0 \in Digit
      /\ m3 \in Digit /\ m2 \in Digit /\ m1 \in Digit /\ m0 \in Digit
    BY <1>1, <1>2 DEF Spells
<1>4. PICK q0, q1 :
          /\ "D" \in q0 /\ "C" \in q0 /\ "D" \in q1
          /\ l = Sbc(BCD(a1, a0), BCD(m1, m0), q0).a
          /\ ("C" \in q1 <=> "C" \in Sbc(BCD(a1, a0), BCD(m1, m0), q0).p)
          /\ h = Sbc(BCD(a3, a2), BCD(m3, m2), q1).a
          /\ ("C" \in p <=> "C" \in Sbc(BCD(a3, a2), BCD(m3, m2), q1).p)
  <2>1. PICK dec \in BOOLEAN : dec = TRUE
      OBVIOUS
  <2>2. HighSum(dec, dec, j, h, l, p)
      BY <2>1 DEF DifferenceBCD2
  <2>3. PICK q0, q1 :
            /\ Mode(dec, dec, q0) /\ ("D" \in q1 <=> dec)
            /\ l = Sums(dec, Lo(j.a), Lo(j.b), q0).a
            /\ ("C" \in q1 <=> "C" \in Sums(dec, Lo(j.a), Lo(j.b), q0).p)
            /\ h = Sums(dec, Hi(j.a), Hi(j.b), q1).a
            /\ ("C" \in p <=> "C" \in Sums(dec, Hi(j.a), Hi(j.b), q1).p)
            /\ ("V" \in p <=> "V" \in Sums(dec, Hi(j.a), Hi(j.b), q1).p)
      BY <2>2, Twice
  <2>4. \A a, m, q : Sums(dec, a, m, q) = Sbc(a, m, q)
      BY <2>1 DEF Sums
  <2>5. "D" \in q0 /\ "C" \in q0 /\ "D" \in q1
      BY <2>1, <2>3 DEF Mode
  <2>. QED BY <1>1, <1>2, <2>3, <2>4, <2>5 DEF Spells
<1>5. PICK low : low = Sbc(BCD(a1, a0), BCD(m1, m0), q0)
    BY Zenon
<1>6. PICK high : high = Sbc(BCD(a3, a2), BCD(m3, m2), q1)
    BY Zenon
<1>7. PICK r1 \in Digit, r0 \in Digit :
          /\ low.a = BCD(r1, r0)
          /\ 10 * r1 + r0 - 100 * Borrow(low.p) = (10 * a1 + a0) - (10 * m1 + m0) - Borrow(q0)
  <2>1. /\ \E h2, l2 \in Digit :
               /\ Sbc(BCD(a1, a0), BCD(m1, m0), q0).a = BCD(h2, l2)
               /\ 10 * h2 + l2 - 100 * Borrow(Sbc(BCD(a1, a0), BCD(m1, m0), q0).p)
                      = (10 * a1 + a0) - (10 * m1 + m0) - Borrow(q0)
        /\ "D" \in Sbc(BCD(a1, a0), BCD(m1, m0), q0).p
      BY <1>3, <1>4, SbcDecimal
  <2>. QED BY <1>5, <2>1
<1>8. PICK r3 \in Digit, r2 \in Digit :
          /\ high.a = BCD(r3, r2)
          /\ 10 * r3 + r2 - 100 * Borrow(high.p) = (10 * a3 + a2) - (10 * m3 + m2) - Borrow(q1)
  <2>1. /\ \E h2, l2 \in Digit :
               /\ Sbc(BCD(a3, a2), BCD(m3, m2), q1).a = BCD(h2, l2)
               /\ 10 * h2 + l2 - 100 * Borrow(Sbc(BCD(a3, a2), BCD(m3, m2), q1).p)
                      = (10 * a3 + a2) - (10 * m3 + m2) - Borrow(q1)
        /\ "D" \in Sbc(BCD(a3, a2), BCD(m3, m2), q1).p
      BY <1>3, <1>4, SbcDecimal
  <2>. QED BY <1>6, <2>1
<1>9. PICK c \in {0, 1} : c = Borrow(q1) /\ c = Borrow(low.p)
    BY <1>4, <1>5 DEF Borrow, Carry
<1>10. PICK d \in {0, 1} : d = Borrow(high.p) /\ (d = 0 <=> "C" \in p)
    BY <1>4, <1>6 DEF Borrow, Carry
<1>11. Borrow(q0) = 0
    BY <1>4 DEF Borrow, Carry
<1>12. Digits4(256 * h + l) = 1000 * r3 + 100 * r2 + 10 * r1 + r0
    BY <1>4, <1>5, <1>6, <1>7, <1>8, SpeltBack
<1>13. PICK x \in Nat, y \in Nat, r \in Nat :
           /\ x = Digits4(j.a) /\ y = Digits4(j.b) /\ r = Digits4(256 * h + l) /\ r < 10000
           /\ x < 10000 /\ r - 10000 * d = x - y
  <2>1. PICK x, y : x = Digits4(j.a) /\ y = Digits4(j.b)
      OBVIOUS
  <2>2. /\ x = 1000 * a3 + 100 * a2 + 10 * a1 + a0
        /\ y = 1000 * m3 + 100 * m2 + 10 * m1 + m0
      BY <1>1, <1>2, <2>1 DEF Spells
  <2>3. PICK r : r = 1000 * r3 + 100 * r2 + 10 * r1 + r0
      OBVIOUS
  <2>4. x \in Nat /\ y \in Nat /\ r \in Nat /\ r < 10000 /\ x < 10000
      BY <1>3, <2>2, <2>3 DEF Digit
  <2>5. /\ 10 * r1 + r0 - 100 * c = (10 * a1 + a0) - (10 * m1 + m0)
        /\ 10 * r3 + r2 - 100 * d = (10 * a3 + a2) - (10 * m3 + m2) - c
      BY <1>3, <1>7, <1>8, <1>9, <1>10, <1>11 DEF Digit
  <2>6. r - 10000 * d = x - y
      BY <1>3, <2>2, <2>3, <2>5 DEF Digit
  <2>. QED BY <1>12, <2>1, <2>3, <2>4, <2>6
<1>14. r = (x - y) % 10000 /\ (d = 0 <=> x >= y)
  <2>1. d = 0 \/ d = 1
      OBVIOUS
  <2>2. PICK z \in Int : z = x - y
      OBVIOUS
  <2>3. z % 10000 = r
      BY <1>13, <2>1, <2>2
  <2>. QED BY <1>13, <2>1, <2>2, <2>3
<1>15. j.a >= j.b <=> x >= y
    BY <1>1, <1>2, <1>13, SpelledInOrder
<1>. QED BY <1>10, <1>13, <1>14, <1>15

----------------------------------------------------------------------------
(* What the other programs leave, in their own terms.                      *)
LEMMA ChainEnds ==
    ASSUME NEW base \in {2048, 2080, 2112, 2144}, NEW dec, NEW cy, NEW j, NEW s, NEW d,
           ChainAt(base, dec, cy, j, s, d), s.PC = StopAt
    PROVE  /\ HighSum(dec, cy, j, s.mem[20], s.mem[21], s.P)
           /\ s.cycles = d + 42
BY DEF ChainAt, At, StopAt

LEMMA CompareEnds ==
    ASSUME NEW over \in {0, 1}, NEW less \in {0, 1}, NEW below \in {0, 1}, NEW j,
           Outcome(over, less, below, j), NEW s, NEW d,
           CompareAt(over, less, below, j, s, d), s.PC = StopAt
    PROVE  /\ s.mem[20] = (IF j.a < j.b THEN 1 ELSE 0)
           /\ s.mem[21] = (IF Signed(j.a) < Signed(j.b) THEN 1 ELSE 0)
           /\ s.cycles = d + (36 + One(~Fits(Signed(j.a) - Signed(j.b)))
                                 + One(Signed(j.a) < Signed(j.b)) + One(j.a < j.b))
<1>1. /\ s.mem[20] = below /\ s.mem[21] = less
      /\ s.cycles = d + (36 + over + less + below)
    BY DEF CompareAt, At, StopAt
<1>2. over = One(~Fits(Signed(j.a) - Signed(j.b)))
    BY DEF Outcome, One
<1>3. less = One(Signed(j.a) < Signed(j.b))
    BY DEF Outcome, One
<1>4. below = One(j.a < j.b)
    BY DEF Outcome, One
<1>. QED BY <1>1, <1>2, <1>3, <1>4 DEF One

LEMMA OutcomeExists ==
    ASSUME NEW j
    PROVE  \E over, less, below \in {0, 1} : Outcome(over, less, below, j)
<1>1. PICK over \in {0, 1} : over = 1 <=> ~Fits(Signed(j.a) - Signed(j.b))
    OBVIOUS
<1>2. PICK less \in {0, 1} : less = 1 <=> Signed(j.a) < Signed(j.b)
    OBVIOUS
<1>3. PICK below \in {0, 1} : below = 1 <=> j.a < j.b
    OBVIOUS
<1>. QED BY <1>1, <1>2, <1>3 DEF Outcome

LEMMA MultiplyEnds ==
    ASSUME NEW j, j.a \in UInt8, NEW s, NEW d \in Nat, MultiplyAt(j, s, d), s.PC = StopAt
    PROVE  /\ 256 * s.mem[16] + s.mem[17] = j.a * j.b
           /\ s.cycles = d + (144 + 4 * Cardinality(Bits(j.a)))
<1>1. /\ 256 * s.mem[16] + s.mem[17] = j.a * j.b
      /\ s.cycles = d + (AllCycles(j.a) + 6)
    BY DEF MultiplyAt, At, StopAt
<1>2. PICK n \in Nat : n = Ones(j.a)
    BY OnesTyped
<1>3. AllCycles(j.a) + 6 = 144 + 4 * n
    BY <1>2 DEF AllCycles
<1>. QED BY <1>1, <1>2, <1>3 DEF Ones

LEMMA DelayEnds ==
    ASSUME NEW j, NEW s, NEW d, DelayAt(j, s, d), s.PC = StopAt
    PROVE  s.X = 0 /\ s.cycles = d + (6 + 6 * j.a)
BY DEF DelayAt, At, StopAt

LEMMA DoubleEnds ==
    ASSUME NEW j, j.a \in UInt16, NEW l, NEW h, NEW top, NEW more \in {0, 4},
           DoublesTo(j, l, h, top, more), NEW s, NEW d,
           DoubleAt(l, h, top, more, j, s, d), s.PC = StopAt
    PROVE  /\ 256 * s.mem[16] + s.mem[17] = (2 * j.a - 1) % 65536
           /\ "C" \in s.P <=> j.a >= 32768
           /\ s.cycles = d + (IF (2 * j.a) % 256 = 0 THEN 32 ELSE 28)
<1>1. /\ s.mem[16] = top /\ s.mem[17] = (l + 255) % 256 /\ ("C" \in s.P <=> Hi(j.a) >= 128)
      /\ s.cycles = d + (28 + more)
    BY DEF DoubleAt, At, StopAt
<1>2. PICK a \in Nat, x \in Nat, y \in Nat : a = j.a /\ x = Hi(j.a) /\ y = Lo(j.a)
  <2>1. j.a \in Nat
      BY Ranges
  <2>2. Hi(j.a) \in Nat /\ Lo(j.a) \in Nat
      BY WordBytes
  <2>. QED BY <2>1, <2>2
<1>3. x < 256 /\ y < 256 /\ a = 256 * x + y
    BY <1>2, WordBytes
<1>4. PICK c \in {0, 1} : c = 1 <=> y >= 128
    OBVIOUS
<1>5. l = (2 * y) % 256 /\ h = (2 * x + c) % 256
    BY <1>2, <1>4 DEF DoublesTo
<1>6. l \in Nat /\ l < 256 /\ l = 2 * y - 256 * c /\ (l = 0 <=> (2 * a) % 256 = 0)
    BY <1>3, <1>4, <1>5
<1>7. PICK e \in {0, 1} : e = 1 <=> x >= 128
    OBVIOUS
<1>8. h \in Nat /\ h < 256 /\ h = 2 * x + c - 256 * e
    BY <1>3, <1>5, <1>7
<1>9. 2 * a - 65536 * e = 256 * h + l
    BY <1>3, <1>6, <1>8
<1>10. 256 * top + ((l + 255) % 256) = (2 * a - 1) % 65536
  <2>1. CASE l = 0
    <3>1. top = (h + 255) % 256
        BY <2>1 DEF DoublesTo
    <3>2. CASE h = 0
        BY <1>6, <1>9, <2>1, <3>1, <3>2
    <3>3. CASE h # 0
      <4>1. top = h - 1
          BY <1>8, <3>1, <3>3
      <4>2. (2 * a - 1) % 65536 = 256 * h - 1
          BY <1>8, <1>9, <2>1, <3>3
      <4>. QED BY <1>8, <2>1, <4>1, <4>2
    <3>. QED BY <3>2, <3>3
  <2>2. CASE l # 0
    <3>1. top = h /\ (l + 255) % 256 = l - 1
        BY <1>6, <2>2 DEF DoublesTo
    <3>2. (2 * a - 1) % 65536 = 256 * h + l - 1
        BY <1>6, <1>8, <1>9, <2>2
    <3>. QED BY <1>6, <1>8, <3>1, <3>2
  <2>. QED BY <2>1, <2>2
<1>11. 28 + more = IF (2 * a) % 256 = 0 THEN 32 ELSE 28
    BY <1>6 DEF DoublesTo
<1>12. x >= 128 <=> a >= 32768
    BY <1>3
<1>. QED BY <1>1, <1>2, <1>10, <1>11, <1>12

(* The bytes of the copy that come from another page than the first.       *)
Crossings(a) == {k \in 0 .. 3 : (a + k) \div 256 # a \div 256}

LEMMA PagesCrossed ==
    ASSUME NEW a \in {764, 766}
    PROVE  Cardinality(Crossings(a)) = Late(a, 4)
<1>1. CASE a = 764
  <2>1. {k \in 0 .. 3 : (a + k) \div 256 # a \div 256} = {}
      BY <1>1
  <2>. QED BY <1>1, <2>1, FS_EmptySet DEF Late, Crossings
<1>2. CASE a = 766
  <2>1. {k \in 0 .. 3 : (a + k) \div 256 # a \div 256} = {2, 3}
    <3>1. \A k \in 0 .. 3 : k = 0 \/ k = 1 \/ k = 2 \/ k = 3
        OBVIOUS
    <3>2. /\ (766 + 0) \div 256 = 2 /\ (766 + 1) \div 256 = 2
          /\ (766 + 2) \div 256 = 3 /\ (766 + 3) \div 256 = 3 /\ 766 \div 256 = 2
        OBVIOUS
    <3>. QED BY <1>2, <3>1, <3>2
  <2>2. PICK S : S = {}
      OBVIOUS
  <2>3. IsFiniteSet(S) /\ Cardinality(S) = 0
      BY <2>2, FS_EmptySet
  <2>4. PICK T : T = S \cup {3}
      OBVIOUS
  <2>5. IsFiniteSet(T) /\ Cardinality(T) = 1
      BY <2>2, <2>3, <2>4, FS_AddElement
  <2>6. Cardinality(T \cup {2}) = 2
      BY <2>2, <2>4, <2>5, FS_AddElement
  <2>7. {2, 3} = T \cup {2}
      BY <2>2, <2>4
  <2>. QED BY <1>2, <2>1, <2>6, <2>7 DEF Late, Crossings
<1>. QED BY <1>1, <1>2

LEMMA CopyEnds ==
    ASSUME NEW j, j.a \in {764, 766}, NEW s, NEW d, CopyAt(j, s, d), s.PC = StopAt
    PROVE  /\ \A k \in 0 .. 3 : s.mem[Copied + k] = (j.a + k) % 256
           /\ s.mem[36] = j.a % 256
           /\ s.cycles = d + (83 + Cardinality({k \in 0 .. 3 :
                                                   (j.a + k) \div 256 # j.a \div 256}))
<1>1. /\ Copies(s.mem, j.a, 4) /\ s.mem[36] = Lo(j.a)
      /\ s.cycles = d + (CopyClock(j.a, 4) + 2)
    BY DEF CopyAt, At, StopAt
<1>2. \A k \in 0 .. 3 : s.mem[Copied + k] = (j.a + k) % 256
    BY <1>1 DEF Copies
<1>3. PICK n \in Int : n = Late(j.a, 4)
    BY DEF Late
<1>4. CopyClock(j.a, 4) + 2 = 83 + n
    BY <1>3 DEF CopyClock
<1>5. PICK a \in {764, 766} : a = j.a
    OBVIOUS
<1>6. n = Cardinality(Crossings(a))
    BY <1>3, <1>5, PagesCrossed
<1>. QED BY <1>1, <1>2, <1>4, <1>5, <1>6 DEF Lo, Crossings

LEMMA MergeEnds ==
    ASSUME NEW j, j.a \in UInt16, j.b \in UInt16,
           NEW r1, NEW r2, NEW r3, NEW r4, NEW f, MergesTo(j, r1, r2, r3, r4, f), NEW s, NEW d,
           MergeAt(r1, r2, r3, r4, f, j, s, d), s.PC = StopAt
    PROVE  /\ s.mem[20] = r4 /\ s.mem[21] = 7 /\ s.mem[16] = f
           /\ s.cycles = d + 50
BY DEF MergeAt, At, StopAt

LEMMA CallEnds ==
    ASSUME NEW t, NEW f, NEW j, CallsWith(j, t, f), NEW s, NEW d, CallAt(t, f, j, s, d),
           s.PC = StopAt
    PROVE  /\ s.mem[20] = j.a /\ FlagsOf(s.mem[21]) = SetZN(j.p, j.a) /\ s.SP = 255
           /\ s.cycles = d + 72
<1>1. s.mem[20] = j.a /\ s.mem[21] = f /\ s.SP = 255 /\ s.cycles = d + 72
    BY DEF CallAt, At, StopAt
<1>. QED BY <1>1 DEF CallsWith

TrapFlags(p) == SetZN(p \cup {"C"}, 0) \ {"Z"}

LEMMA TrapEnds ==
    ASSUME NEW p, NEW f, NEW j, j.p \in {{}, {"D"}}, Trapped(j, p, f), NEW s, NEW d,
           TrapAt(p, f, j, s, d), s.PC = StopAt
    PROVE  /\ s.mem[49] = 1 /\ s.mem[20] = 0
           /\ s.P = TrapFlags(j.p)
           /\ s.cycles = d + 31
<1>1. s.mem[49] = 1 /\ s.mem[20] = 0 /\ s.P = p /\ s.cycles = d + 31
    BY DEF TrapAt, At, StopAt
<1>2. p = SetZN(j.p \cup {"C"}, 0) \ {"Z"}
  <2>1. \A g : g \in SetZN(j.p \cup {"C"}, 0) \ {"Z"} <=> g \in j.p \cup {"C"}
      BY DEF SetZN, SetFlag, Bit7
  <2>. QED BY <2>1 DEF Trapped
<1>. QED BY <1>1, <1>2 DEF TrapFlags

----------------------------------------------------------------------------
(* The bits of a byte.                                                     *)
LEMMA BitsTold ==
    ASSUME NEW v, NEW w \in BitWeights
    PROVE  w \in Bits(v) <=> HasBit(v, w)
BY DEF Bits, BitWeights

LEMMA NoBits ==
    ASSUME NEW v \in UInt8
    PROVE  v = 0 <=> Bits(v) = {}
<1>1. PICK b0 \in {0, 1}, b1 \in {0, 1}, b2 \in {0, 1}, b3 \in {0, 1},
           b4 \in {0, 1}, b5 \in {0, 1}, b6 \in {0, 1}, b7 \in {0, 1} :
               v = Weighed(b0, b1, b2, b3, b4, b5, b6, b7)
    BY ByteOfBits
<1>2. /\ (1 \in Bits(v) <=> b0 = 1) /\ (2 \in Bits(v) <=> b1 = 1)
      /\ (4 \in Bits(v) <=> b2 = 1) /\ (8 \in Bits(v) <=> b3 = 1)
      /\ (16 \in Bits(v) <=> b4 = 1) /\ (32 \in Bits(v) <=> b5 = 1)
      /\ (64 \in Bits(v) <=> b6 = 1) /\ (128 \in Bits(v) <=> b7 = 1)
    BY <1>1, BitsRead DEF Bits
<1>3. v = 0 <=> /\ b0 = 0 /\ b1 = 0 /\ b2 = 0 /\ b3 = 0
                /\ b4 = 0 /\ b5 = 0 /\ b6 = 0 /\ b7 = 0
    BY <1>1 DEF Weighed
<1>4. Bits(v) \subseteq {1, 2, 4, 8, 16, 32, 64, 128}
    BY DEF Bits
<1>. QED BY <1>2, <1>3, <1>4

LEMMA FullByte ==
    ASSUME NEW w \in BitWeights
    PROVE  255 \in UInt8 /\ HasBit(255, w)
<1>1. 255 \in UInt8
    BY Ranges
<1>2. \/ w = 1 \/ w = 2 \/ w = 4 \/ w = 8 \/ w = 16 \/ w = 32 \/ w = 64 \/ w = 128
    BY DEF BitWeights
<1>3. /\ HasBit(255, 1) /\ HasBit(255, 2) /\ HasBit(255, 4) /\ HasBit(255, 8)
      /\ HasBit(255, 16) /\ HasBit(255, 32) /\ HasBit(255, 64) /\ HasBit(255, 128)
    BY DEF HasBit
<1>. QED BY <1>1, <1>2, <1>3

(* r4 is x where the mask k has ones and y elsewhere. *)
Merges(x, y, k, r1, r2, r3, r4) ==
    r1 = And(x, k) /\ r2 = Xor(k, 255) /\ r3 = And(r2, y) /\ r4 = Or(r3, r1)

LEMMA MergeMeans ==
    ASSUME NEW x \in UInt8, NEW y \in UInt8, NEW k \in UInt8,
           NEW r1, NEW r2, NEW r3, NEW r4, Merges(x, y, k, r1, r2, r3, r4)
    PROVE  /\ r4 \in UInt8
           /\ Bits(r4) = (Bits(x) \cap Bits(k)) \cup (Bits(y) \ Bits(k))
<1>1. 1 \in BitWeights /\ 255 \in UInt8
    BY Ranges DEF BitWeights
<1>2. r1 \in UInt8 /\ r2 \in UInt8
    BY <1>1, LogicExact DEF Merges
<1>3. r3 \in UInt8
    BY <1>1, <1>2, LogicExact DEF Merges
<1>4. r4 \in UInt8
    BY <1>1, <1>2, <1>3, LogicExact DEF Merges
<1>5. ASSUME NEW w \in BitWeights
      PROVE  HasBit(r4, w) <=> (HasBit(x, w) /\ HasBit(k, w)) \/ (HasBit(y, w) /\ ~HasBit(k, w))
  <2>1. HasBit(r1, w) <=> HasBit(x, w) /\ HasBit(k, w)
      BY LogicExact DEF Merges
  <2>2. HasBit(r2, w) <=> ~HasBit(k, w)
      BY <1>1, FullByte, LogicExact DEF Merges
  <2>3. HasBit(r3, w) <=> HasBit(r2, w) /\ HasBit(y, w)
      BY <1>2, LogicExact DEF Merges
  <2>4. HasBit(r4, w) <=> HasBit(r3, w) \/ HasBit(r1, w)
      BY <1>2, <1>3, LogicExact DEF Merges
  <2>. QED BY <2>1, <2>2, <2>3, <2>4
<1>6. \A v : Bits(v) \subseteq BitWeights
    BY DEF Bits, BitWeights
<1>7. \A w \in BitWeights :
          w \in Bits(r4) <=> w \in (Bits(x) \cap Bits(k)) \cup (Bits(y) \ Bits(k))
    BY <1>5, BitsTold
<1>. QED BY <1>4, <1>6, <1>7

LEMMA TestMeans ==
    ASSUME NEW r \in UInt8, NEW m \in UInt8
    PROVE  /\ FlagsOf(FlagByte8(Tested(r, m), TRUE)) = Tested(r, m)
           /\ Tested(r, m) = {f \in {"Z"} : Bits(r) \cap Bits(m) = {}}
                                 \cup {f \in {"V"} : 64 \in Bits(m)}
                                 \cup {f \in {"N"} : 128 \in Bits(m)}
<1>1. Tested(r, m) \in SUBSET Flags
    BY DEF Tested, Flags
<1>2. FlagsOf(FlagByte8(Tested(r, m), TRUE)) = Tested(r, m)
  <2>1. PICK t \in SUBSET Flags : t = Tested(r, m)
      BY <1>1
  <2>2. PICK brk \in BOOLEAN : brk = TRUE
      OBVIOUS
  <2>3. FlagsOf(FlagByte8(t, brk)) = t
      BY StatusByteExact
  <2>. QED BY <2>1, <2>2, <2>3
<1>3. And(r, m) = 0 <=> Bits(r) \cap Bits(m) = {}
  <2>1. PICK v \in UInt8 : v = And(r, m)
    <3>1. 1 \in BitWeights
        BY DEF BitWeights
    <3>. QED BY <3>1, LogicExact
  <2>2. \A w \in BitWeights : HasBit(v, w) <=> HasBit(r, w) /\ HasBit(m, w)
      BY <2>1, LogicExact
  <2>3. \A u : Bits(u) \subseteq BitWeights
      BY DEF Bits, BitWeights
  <2>4. Bits(v) = Bits(r) \cap Bits(m)
      BY <2>2, <2>3, BitsTold
  <2>. QED BY <2>1, <2>4, NoBits
<1>4. HasBit(m, 64) <=> 64 \in Bits(m)
    BY DEF Bits
<1>5. Bit7(m) <=> 128 \in Bits(m)
  <2>1. m \in Nat /\ m < 256
      BY Ranges
  <2>2. HasBit(m, 128) <=> m >= 128
      BY <2>1 DEF HasBit
  <2>. QED BY <2>2 DEF Bits, Bit7
<1>. QED BY <1>2, <1>3, <1>4, <1>5 DEF Tested

----------------------------------------------------------------------------
(* How a program finds memory.                                             *)
Contents(a, b) ==
    Bytes16(A, a) \cup Bytes16(B, b) \cup LowFirst(Pointer, a) \cup Fixed
        \cup {<<c, c % 256>> : c \in Source}

(* A set of cells with their values, of operands with these bytes. *)
Filled(C, ah, al, bh, bl) ==
    /\ <<16, ah>> \in C /\ <<17, al>> \in C /\ <<18, bh>> \in C /\ <<19, bl>> \in C
    /\ <<255, al>> \in C /\ <<0, ah>> \in C
    /\ <<48, 9>> \in C /\ <<1279, 64>> \in C /\ <<1024, 6>> \in C
    /\ \A c \in Source : <<c, c % 256>> \in C
    /\ \A d \in C :
           \/ d[1] = 16 /\ d[2] = ah
           \/ d[1] = 17 /\ d[2] = al
           \/ d[1] = 18 /\ d[2] = bh
           \/ d[1] = 19 /\ d[2] = bl
           \/ d[1] = 255 /\ d[2] = al
           \/ d[1] = 0 /\ d[2] = ah
           \/ d[1] = 48 /\ d[2] = 9
           \/ d[1] = 1279 /\ d[2] = 64
           \/ d[1] = 1024 /\ d[2] = 6
           \/ d[1] = 1280
           \/ d[1] \in Source /\ d[2] = d[1] % 256

LEMMA ContentsFilled ==
    ASSUME NEW a, NEW b
    PROVE  Filled(Contents(a, b), Hi(a), Lo(a), Hi(b), Lo(b))
<1>1. Bytes16(A, a) = {<<16, Hi(a)>>, <<17, Lo(a)>>}
    BY DEF Bytes16, A, Hi, Lo
<1>2. Bytes16(B, b) = {<<18, Hi(b)>>, <<19, Lo(b)>>}
    BY DEF Bytes16, B, Hi, Lo
<1>3. LowFirst(Pointer, a) = {<<255, Lo(a)>>, <<0, Hi(a)>>}
    BY DEF LowFirst, Pointer, Hi, Lo
<1>4. Fixed = {<<48, 9>>, <<1279, 64>>, <<1024, 6>>, <<1280, 7>>}
    BY DEF Fixed, NmiCount, Vector
<1>5. PICK S : S = {<<c, c % 256>> : c \in Source}
    OBVIOUS
<1>6. Contents(a, b) = {<<16, Hi(a)>>, <<17, Lo(a)>>, <<18, Hi(b)>>, <<19, Lo(b)>>,
                        <<255, Lo(a)>>, <<0, Hi(a)>>, <<48, 9>>, <<1279, 64>>, <<1024, 6>>,
                        <<1280, 7>>} \cup S
    BY <1>1, <1>2, <1>3, <1>4, <1>5 DEF Contents
<1>7. \A c \in Source : <<c, c % 256>> \in S
    BY <1>5
<1>8. \A d \in S : d[1] \in Source /\ d[2] = d[1] % 256
    BY <1>5
<1>9. ASSUME NEW d \in Contents(a, b)
      PROVE  \/ d[1] = 16 /\ d[2] = Hi(a)
             \/ d[1] = 17 /\ d[2] = Lo(a)
             \/ d[1] = 18 /\ d[2] = Hi(b)
             \/ d[1] = 19 /\ d[2] = Lo(b)
             \/ d[1] = 255 /\ d[2] = Lo(a)
             \/ d[1] = 0 /\ d[2] = Hi(a)
             \/ d[1] = 48 /\ d[2] = 9
             \/ d[1] = 1279 /\ d[2] = 64
             \/ d[1] = 1024 /\ d[2] = 6
             \/ d[1] = 1280
             \/ d[1] \in Source /\ d[2] = d[1] % 256
    BY <1>6, <1>8
<1>. QED BY <1>6, <1>7, <1>9 DEF Filled

Holds(C, c, v) == <<c, v>> \in C /\ \A d \in C : d[1] = c => d[2] = v

LEMMA LoadedCell ==
    ASSUME NEW a, NEW b, NEW told, told = Contents(a, b), NEW m, m = Loaded(a, b),
           NEW c \in Cells
    PROVE  /\ \A v : Holds(told, c, v) => m[c] = v
           /\ (\A d \in told : d[1] # c) => m[c] = 0
<1>1. m = [k \in Cells |-> IF \E d \in told : d[1] = k
                                      THEN (CHOOSE d \in told : d[1] = k)[2] ELSE 0]
    BY Zenon DEF Loaded, Contents
<1>2. ASSUME NEW v, Holds(told, c, v) PROVE m[c] = v
  <2>1. <<c, v>> \in told /\ <<c, v>>[1] = c
      BY <1>2 DEF Holds
  <2>2. PICK e : e = CHOOSE d \in told : d[1] = c
      OBVIOUS
  <2>3. e \in told /\ e[1] = c
      BY <2>1, <2>2
  <2>4. e[2] = v
      BY <1>2, <2>3 DEF Holds
  <2>. QED BY <1>1, <2>1, <2>2, <2>4
<1>3. ASSUME \A d \in told : d[1] # c PROVE m[c] = 0
    BY <1>1, <1>3
<1>. QED BY <1>2, <1>3

Prepared(a, b, m) ==
    /\ m[16] = Hi(a) /\ m[17] = Lo(a) /\ m[18] = Hi(b) /\ m[19] = Lo(b)
    /\ m[255] = Lo(a) /\ m[0] = Hi(a)
    /\ m[NmiCount] = 9 /\ m[BrkCount] = 0 /\ m[1279] = 64 /\ m[1024] = 6
    /\ Sourced(m)

LEMMA MemoryPrepared ==
    ASSUME NEW a, NEW b, NEW m, m = Loaded(a, b)
    PROVE  Prepared(a, b, m)
<1>1. \A c \in Source : c \in Nat /\ c >= 764 /\ c <= 771
    BY DEF Source
<1>2. PICK ah, al, bh, bl : ah = Hi(a) /\ al = Lo(a) /\ bh = Hi(b) /\ bl = Lo(b)
    OBVIOUS
<1>3. PICK C : C = Contents(a, b)
    OBVIOUS
<1>4. Filled(C, ah, al, bh, bl)
    BY <1>2, <1>3, ContentsFilled
<1>5. /\ Holds(C, 16, ah) /\ Holds(C, 17, al)
      /\ Holds(C, 18, bh) /\ Holds(C, 19, bl)
    BY <1>1, <1>4 DEF Holds, Filled
<1>6. Holds(C, 255, al) /\ Holds(C, 0, ah) /\ Holds(C, 48, 9)
    BY <1>1, <1>4 DEF Holds, Filled
<1>7. Holds(C, 1279, 64) /\ Holds(C, 1024, 6)
    BY <1>1, <1>4 DEF Holds, Filled
<1>8. \A d \in C : d[1] # 49
    BY <1>1, <1>4 DEF Filled
<1>9. ASSUME NEW c \in Source PROVE Holds(C, c, c % 256)
  <2>1. PICK v : v = c % 256
      OBVIOUS
  <2>2. <<c, v>> \in C
      BY <1>4, <2>1 DEF Filled
  <2>3. ASSUME NEW d \in C, d[1] = c PROVE d[2] = v
      BY <1>1, <1>4, <2>1, <2>3 DEF Filled
  <2>. QED BY <2>1, <2>2, <2>3 DEF Holds
<1>10. /\ 16 \in Cells /\ 17 \in Cells /\ 18 \in Cells /\ 19 \in Cells /\ 255 \in Cells
      /\ 0 \in Cells /\ 48 \in Cells /\ 49 \in Cells /\ 1279 \in Cells /\ 1024 \in Cells
    BY Roomy DEF NmiCount, BrkCount
<1>11. m[16] = ah /\ m[17] = al /\ m[18] = bh /\ m[19] = bl
    BY <1>5, <1>10, <1>3, LoadedCell
<1>12. m[255] = al /\ m[0] = ah /\ m[48] = 9
    BY <1>6, <1>10, <1>3, LoadedCell
<1>13. m[1279] = 64 /\ m[1024] = 6 /\ m[49] = 0
    BY <1>7, <1>8, <1>10, <1>3, LoadedCell
<1>14. Sourced(m)
  <2>1. ASSUME NEW c \in Source PROVE m[c] = c % 256
    <3>1. c \in Cells
        BY Roomy
    <3>. QED BY <1>9, <3>1, <1>3, LoadedCell
  <2>. QED BY <2>1 DEF Sourced
<1>. QED BY <1>11, <1>12, <1>13, <1>14, <1>2 DEF Prepared, NmiCount, BrkCount

----------------------------------------------------------------------------
(* Any of the programs, with its operands: what w, a job without the fate  *)
(* of its interrupt, says of a state d cycles after the program began.     *)
Work(j) == [prog |-> j.prog, a |-> j.a, b |-> j.b, p |-> j.p]
Chained == {"add", "subtract"} \cup Decimal
Borrows == {"subtract", "decimalSubtract"}

Fitted(w) ==
    /\ w.prog \in DOMAIN Origins
    /\ w.a \in UInt16 /\ w.b \in UInt16 /\ w.p \in SUBSET Flags
    /\ w.prog \in Decimal => Spelled(w.a) /\ Spelled(w.b)
    /\ w.prog = "multiply" => w.a \in UInt8 /\ w.b \in UInt8
    /\ w.prog = "copy" => w.a \in {764, 766}
    /\ w.prog = "delay" => w.a \in 1 .. 255
    /\ w.prog = "call" => w.a \in UInt8
    /\ w.prog = "merge" => w.p = {}
    /\ w.prog = "trap" => w.p \in {{}, {"D"}}

OneOfFour(base, dec, cy) ==
    /\ base \in {2048, 2080, 2112, 2144}
    /\ Chain(base, IF dec THEN "SED" ELSE "CLD", IF cy THEN "SEC" ELSE "CLC",
             IF cy THEN "SBC" ELSE "ADC") \subseteq Listing

(* w is the chain at base, decimal or not, adding or subtracting.          *)
IsChain(w, base, dec, cy) ==
    /\ base = Origins[w.prog]
    /\ dec <=> w.prog \in Decimal
    /\ cy <=> w.prog \in Borrows

ChainRuns(w, s, d) ==
    \E base : \E dec, cy \in BOOLEAN :
        OneOfFour(base, dec, cy) /\ IsChain(w, base, dec, cy) /\ ChainAt(base, dec, cy, w, s, d)
CompareRuns(w, s, d) ==
    \E over, less, below \in {0, 1} :
        Outcome(over, less, below, w) /\ CompareAt(over, less, below, w, s, d)
DoubleRuns(w, s, d) ==
    \E more \in {0, 4} : \E l, h, top :
        DoublesTo(w, l, h, top, more) /\ DoubleAt(l, h, top, more, w, s, d)
CallRuns(w, s, d) == \E t, f : CallsWith(w, t, f) /\ CallAt(t, f, w, s, d)
MergeRuns(w, s, d) ==
    \E r1, r2, r3, r4, f : MergesTo(w, r1, r2, r3, r4, f) /\ MergeAt(r1, r2, r3, r4, f, w, s, d)
TrapRuns(w, s, d) == \E p, f : Trapped(w, p, f) /\ TrapAt(p, f, w, s, d)

WorkRuns(w, s, d) ==
    /\ w.prog \in Chained => ChainRuns(w, s, d)
    /\ w.prog = "compare" => CompareRuns(w, s, d)
    /\ w.prog = "multiply" => MultiplyAt(w, s, d)
    /\ w.prog = "double" => DoubleRuns(w, s, d)
    /\ w.prog = "copy" => CopyAt(w, s, d)
    /\ w.prog = "delay" => DelayAt(w, s, d)
    /\ w.prog = "call" => CallRuns(w, s, d)
    /\ w.prog = "merge" => MergeRuns(w, s, d)
    /\ w.prog = "trap" => TrapRuns(w, s, d)

LEMMA AnyProgram ==
    ASSUME NEW w, Fitted(w)
    PROVE  \/ w.prog \in Chained \/ w.prog = "compare" \/ w.prog = "multiply"
           \/ w.prog = "double" \/ w.prog = "copy" \/ w.prog = "delay"
           \/ w.prog = "call" \/ w.prog = "merge" \/ w.prog = "trap"
BY DEF Fitted, Origins, Chained, Decimal

LEMMA FourChains ==
    ASSUME NEW w, w.prog \in Chained
    PROVE  \E base : \E dec, cy \in BOOLEAN :
               OneOfFour(base, dec, cy) /\ IsChain(w, base, dec, cy)
<1>1. \/ w.prog = "add" \/ w.prog = "subtract"
      \/ w.prog = "decimalAdd" \/ w.prog = "decimalSubtract"
    BY DEF Chained, Decimal
<1>2. PICK n \in BOOLEAN : ~n
    OBVIOUS
<1>3. PICK y \in BOOLEAN : y
    OBVIOUS
<1>4. ASSUME w.prog = "add" PROVE IsChain(w, 2048, n, n)
    BY <1>2, <1>4 DEF IsChain, Origins, Decimal, Borrows
<1>5. ASSUME w.prog = "subtract" PROVE IsChain(w, 2112, n, y)
    BY <1>2, <1>3, <1>5 DEF IsChain, Origins, Decimal, Borrows
<1>6. ASSUME w.prog = "decimalAdd" PROVE IsChain(w, 2080, y, n)
    BY <1>2, <1>3, <1>6 DEF IsChain, Origins, Decimal, Borrows
<1>7. ASSUME w.prog = "decimalSubtract" PROVE IsChain(w, 2144, y, y)
    BY <1>3, <1>7 DEF IsChain, Origins, Decimal, Borrows
<1>8. OneOfFour(2048, n, n) /\ OneOfFour(2112, n, y) /\ OneOfFour(2080, y, n) /\ OneOfFour(2144, y, y)
    BY <1>2, <1>3, ChainsListed DEF OneOfFour
<1>. QED BY <1>1, <1>4, <1>5, <1>6, <1>7, <1>8

(* Each instruction takes the program on.                                  *)
LEMMA RunsOn ==
    ASSUME core \in CoreState, ExecuteInstruction, core.PC # StopAt,
           NEW w, Fitted(w), NEW d \in Nat, WorkRuns(w, core, d)
    PROVE  WorkRuns(w, core', d) /\ core'.mem[NmiCount] = core.mem[NmiCount]
<1>. DEFINE Kept == core'.mem[NmiCount] = core.mem[NmiCount]
<1>. HIDE DEF Kept
<1>1. ASSUME w.prog \in Chained PROVE ChainRuns(w, core', d) /\ Kept
  <2>1. PICK base : \E dec, cy \in BOOLEAN :
            /\ OneOfFour(base, dec, cy) /\ IsChain(w, base, dec, cy)
            /\ ChainAt(base, dec, cy, w, core, d)
      BY <1>1 DEF WorkRuns, ChainRuns
  <2>2. PICK dec \in BOOLEAN, cy \in BOOLEAN :
            /\ OneOfFour(base, dec, cy) /\ IsChain(w, base, dec, cy)
            /\ ChainAt(base, dec, cy, w, core, d)
      BY <2>1
  <2>3. ChainAt(base, dec, cy, w, core, d)
      BY <2>2
  <2>4. ChainAt(base, dec, cy, w, core', d) /\ Kept
    <3>1. /\ base \in {2048, 2080, 2112, 2144}
          /\ Chain(base, IF dec THEN "SED" ELSE "CLD", IF cy THEN "SEC" ELSE "CLC",
                   IF cy THEN "SBC" ELSE "ADC") \subseteq Listing
        BY <2>2 DEF OneOfFour
    <3>. QED BY <2>3, <3>1, ChainStep DEF Kept
  <2>. QED BY <2>2, <2>4 DEF ChainRuns
<1>2. ASSUME w.prog = "compare" PROVE CompareRuns(w, core', d) /\ Kept
  <2>1. PICK over \in {0, 1}, less \in {0, 1}, below \in {0, 1} :
            Outcome(over, less, below, w) /\ CompareAt(over, less, below, w, core, d)
      BY <1>2 DEF WorkRuns, CompareRuns
  <2>2. CompareAt(over, less, below, w, core', d) /\ Kept
      BY <2>1, CompareStep DEF Fitted, Kept
  <2>. QED BY <2>1, <2>2 DEF CompareRuns
<1>3. ASSUME w.prog = "multiply" PROVE MultiplyAt(w, core', d) /\ Kept
  <2>1. w.a \in UInt8 /\ w.b \in UInt8 /\ MultiplyAt(w, core, d)
      BY <1>3 DEF WorkRuns, Fitted
  <2>. QED BY <2>1, MultiplyStep DEF Kept
<1>4. ASSUME w.prog = "double" PROVE DoubleRuns(w, core', d) /\ Kept
  <2>1. PICK more \in {0, 4} : \E l, h, top :
            DoublesTo(w, l, h, top, more) /\ DoubleAt(l, h, top, more, w, core, d)
      BY <1>4 DEF WorkRuns, DoubleRuns
  <2>2. PICK l, h, top :
            DoublesTo(w, l, h, top, more) /\ DoubleAt(l, h, top, more, w, core, d)
      BY <2>1
  <2>3. DoubleAt(l, h, top, more, w, core', d) /\ Kept
      BY <2>2, DoubleStep DEF Fitted, Kept
  <2>. QED BY <2>2, <2>3 DEF DoubleRuns
<1>5. ASSUME w.prog = "copy" PROVE CopyAt(w, core', d) /\ Kept
  <2>1. w.a \in {764, 766} /\ CopyAt(w, core, d)
      BY <1>5 DEF WorkRuns, Fitted
  <2>. QED BY <2>1, CopyStep DEF Kept
<1>6. ASSUME w.prog = "delay" PROVE DelayAt(w, core', d) /\ Kept
  <2>1. w.a \in 1 .. 255 /\ DelayAt(w, core, d)
      BY <1>6 DEF WorkRuns, Fitted
  <2>. QED BY <2>1, DelayStep DEF Kept
<1>7. ASSUME w.prog = "call" PROVE CallRuns(w, core', d) /\ Kept
  <2>1. PICK t, f : CallsWith(w, t, f) /\ CallAt(t, f, w, core, d)
      BY <1>7 DEF WorkRuns, CallRuns
  <2>2. CallAt(t, f, w, core', d) /\ Kept
      BY <1>7, <2>1, CallStep DEF Fitted, Kept
  <2>. QED BY <2>1, <2>2 DEF CallRuns
<1>8. ASSUME w.prog = "merge" PROVE MergeRuns(w, core', d) /\ Kept
  <2>1. PICK r1, r2, r3, r4, f :
            MergesTo(w, r1, r2, r3, r4, f) /\ MergeAt(r1, r2, r3, r4, f, w, core, d)
      BY <1>8 DEF WorkRuns, MergeRuns
  <2>2. MergeAt(r1, r2, r3, r4, f, w, core', d) /\ Kept
      BY <2>1, MergeStep DEF Kept
  <2>. QED BY <2>1, <2>2 DEF MergeRuns
<1>9. ASSUME w.prog = "trap" PROVE TrapRuns(w, core', d) /\ Kept
  <2>1. PICK p, f : Trapped(w, p, f) /\ TrapAt(p, f, w, core, d)
      BY <1>9 DEF WorkRuns, TrapRuns
  <2>2. TrapAt(p, f, w, core', d) /\ Kept
      BY <2>1, TrapStep DEF Kept
  <2>. QED BY <2>1, <2>2 DEF TrapRuns
<1>10. Kept
    BY <1>1, <1>2, <1>3, <1>4, <1>5, <1>6, <1>7, <1>8, <1>9, AnyProgram
<1>11. WorkRuns(w, core', d)
    BY <1>1, <1>2, <1>3, <1>4, <1>5, <1>6, <1>7, <1>8, <1>9 DEF WorkRuns
<1>. QED BY <1>10, <1>11 DEF Kept

(* What was interrupted goes on as if it had not been, 58 cycles later.    *)
LEMMA RunsResume ==
    ASSUME NEW w, Fitted(w), NEW was \in CoreState, NEW s, WorkRuns(w, was, 0),
           Resumed(was, s, was.cycles)
    PROVE  WorkRuns(w, s, 58)
<1>1. ASSUME w.prog \in Chained PROVE ChainRuns(w, s, 58)
  <2>1. PICK base : \E dec, cy \in BOOLEAN :
            /\ OneOfFour(base, dec, cy) /\ IsChain(w, base, dec, cy)
            /\ ChainAt(base, dec, cy, w, was, 0)
      BY <1>1 DEF WorkRuns, ChainRuns
  <2>2. PICK dec \in BOOLEAN, cy \in BOOLEAN :
            /\ OneOfFour(base, dec, cy) /\ IsChain(w, base, dec, cy)
            /\ ChainAt(base, dec, cy, w, was, 0)
      BY <2>1
  <2>3. ChainAt(base, dec, cy, w, was, 0)
      BY <2>2
  <2>4. base \in Nat
      BY <2>2 DEF OneOfFour
  <2>5. ChainAt(base, dec, cy, w, s, 58)
      BY <2>3, <2>4, ChainResumes
  <2>. QED BY <2>2, <2>5 DEF ChainRuns
<1>2. ASSUME w.prog = "compare" PROVE CompareRuns(w, s, 58)
  <2>1. PICK over \in {0, 1}, less \in {0, 1}, below \in {0, 1} :
            Outcome(over, less, below, w) /\ CompareAt(over, less, below, w, was, 0)
      BY <1>2 DEF WorkRuns, CompareRuns
  <2>2. CompareAt(over, less, below, w, s, 58)
      BY <2>1, CompareResumes
  <2>. QED BY <2>1, <2>2 DEF CompareRuns
<1>3. ASSUME w.prog = "multiply" PROVE MultiplyAt(w, s, 58)
  <2>1. w.a \in UInt8 /\ MultiplyAt(w, was, 0)
      BY <1>3 DEF WorkRuns, Fitted
  <2>. QED BY <2>1, MultiplyResumes
<1>4. ASSUME w.prog = "double" PROVE DoubleRuns(w, s, 58)
  <2>1. PICK more \in {0, 4} : \E l, h, top :
            DoublesTo(w, l, h, top, more) /\ DoubleAt(l, h, top, more, w, was, 0)
      BY <1>4 DEF WorkRuns, DoubleRuns
  <2>2. PICK l, h, top :
            DoublesTo(w, l, h, top, more) /\ DoubleAt(l, h, top, more, w, was, 0)
      BY <2>1
  <2>3. DoubleAt(l, h, top, more, w, s, 58)
      BY <2>2, DoubleResumes
  <2>. QED BY <2>2, <2>3 DEF DoubleRuns
<1>5. ASSUME w.prog = "copy" PROVE CopyAt(w, s, 58)
  <2>1. w.a \in {764, 766} /\ CopyAt(w, was, 0)
      BY <1>5 DEF WorkRuns, Fitted
  <2>. QED BY <2>1, CopyResumes
<1>6. ASSUME w.prog = "delay" PROVE DelayAt(w, s, 58)
  <2>1. w.a \in 1 .. 255 /\ DelayAt(w, was, 0)
      BY <1>6 DEF WorkRuns, Fitted
  <2>. QED BY <2>1, DelayResumes
<1>7. ASSUME w.prog = "call" PROVE CallRuns(w, s, 58)
  <2>1. PICK t, f : CallsWith(w, t, f) /\ CallAt(t, f, w, was, 0)
      BY <1>7 DEF WorkRuns, CallRuns
  <2>2. CallAt(t, f, w, s, 58)
      BY <2>1, CallResumes
  <2>. QED BY <2>1, <2>2 DEF CallRuns
<1>8. ASSUME w.prog = "merge" PROVE MergeRuns(w, s, 58)
  <2>1. PICK r1, r2, r3, r4, f :
            MergesTo(w, r1, r2, r3, r4, f) /\ MergeAt(r1, r2, r3, r4, f, w, was, 0)
      BY <1>8 DEF WorkRuns, MergeRuns
  <2>2. MergeAt(r1, r2, r3, r4, f, w, s, 58)
      BY <2>1, MergeResumes
  <2>. QED BY <2>1, <2>2 DEF MergeRuns
<1>9. ASSUME w.prog = "trap" PROVE TrapRuns(w, s, 58)
  <2>1. PICK p, f : Trapped(w, p, f) /\ TrapAt(p, f, w, was, 0)
      BY <1>9 DEF WorkRuns, TrapRuns
  <2>2. TrapAt(p, f, w, s, 58)
      BY <2>1, TrapResumes
  <2>. QED BY <2>1, <2>2 DEF TrapRuns
<1>. QED BY <1>1, <1>2, <1>3, <1>4, <1>5, <1>6, <1>7, <1>8, <1>9 DEF WorkRuns

(* Wherever it is, the handler finds room for its frame and registers.     *)
LEMMA RunsDeep ==
    ASSUME NEW w, Fitted(w), NEW s, NEW d, WorkRuns(w, s, d)
    PROVE  s.SP \in Depths
<1>1. ASSUME w.prog \in Chained PROVE s.SP \in Depths
    BY <1>1 DEF WorkRuns, ChainRuns, ChainAt, Depths
<1>2. ASSUME w.prog = "compare" PROVE s.SP \in Depths
    BY <1>2 DEF WorkRuns, CompareRuns, CompareAt, Depths
<1>3. ASSUME w.prog = "multiply" PROVE s.SP \in Depths
    BY <1>3 DEF WorkRuns, MultiplyAt, Depths
<1>4. ASSUME w.prog = "double" PROVE s.SP \in Depths
    BY <1>4 DEF WorkRuns, DoubleRuns, DoubleAt, Depths
<1>5. ASSUME w.prog = "copy" PROVE s.SP \in Depths
    BY <1>5 DEF WorkRuns, CopyAt, Depths
<1>6. ASSUME w.prog = "delay" PROVE s.SP \in Depths
    BY <1>6 DEF WorkRuns, DelayAt, Depths
<1>7. ASSUME w.prog = "call" PROVE s.SP \in Depths
    BY <1>7 DEF WorkRuns, CallRuns, CallAt, Depths
<1>8. ASSUME w.prog = "merge" PROVE s.SP \in Depths
    BY <1>8 DEF WorkRuns, MergeRuns, MergeAt, Depths
<1>9. ASSUME w.prog = "trap" PROVE s.SP \in Depths
    BY <1>9 DEF WorkRuns, TrapRuns, TrapAt, Depths
<1>. QED BY <1>1, <1>2, <1>3, <1>4, <1>5, <1>6, <1>7, <1>8, <1>9, AnyProgram

----------------------------------------------------------------------------
(* Every job fits its program.                                             *)
Asks(j, progs, as, bs, ps) == j.prog \in progs /\ j.a \in as /\ j.b \in bs /\ j.p \in ps

LEMMA JobAsks ==
    ASSUME NEW progs, NEW as, NEW bs, NEW ps, NEW nmi,
           NEW S, S = [prog : progs, a : as, b : bs, p : ps, nmi : {nmi}], NEW j \in S
    PROVE  Asks(j, progs, as, bs, ps) /\ j.nmi = nmi
BY DEF Asks

LEMMA JobKinds ==
    ASSUME NEW nmi, NEW j \in Jobs(nmi), NEW low, low = {w % 256 : w \in Words}
    PROVE  /\ \/ Asks(j, Binary, Words, Words, {{}})
              \/ Asks(j, Decimal, Decimals, Decimals, {{}})
              \/ Asks(j, {"multiply"}, low, low, {{}})
              \/ Asks(j, {"double"}, Words, {0}, {{}})
              \/ Asks(j, {"copy"}, {764, 766}, {0}, {{}})
              \/ Asks(j, {"delay"}, {1, 2, 9}, {0}, {{}})
              \/ Asks(j, {"call"}, {0, 129}, {0}, {{}, {"C", "D", "V"}, {"I"}})
              \/ Asks(j, {"trap"}, {0}, {0}, {{}, {"D"}})
           /\ j.nmi = nmi
<1>1. PICK s1 : s1 = [prog : Binary, a : Words, b : Words, p : {{}}, nmi : {nmi}]
    BY Zenon
<1>2. PICK s2 : s2 = [prog : Decimal, a : Decimals, b : Decimals, p : {{}}, nmi : {nmi}]
    BY Zenon
<1>3. PICK s3 : s3 = [prog : {"multiply"}, a : low, b : low, p : {{}}, nmi : {nmi}]
    BY Zenon
<1>4. PICK s4 : s4 = [prog : {"double"}, a : Words, b : {0}, p : {{}}, nmi : {nmi}]
    BY Zenon
<1>5. PICK s5 : s5 = [prog : {"copy"}, a : {764, 766}, b : {0}, p : {{}}, nmi : {nmi}]
    BY Zenon
<1>6. PICK s6 : s6 = [prog : {"delay"}, a : {1, 2, 9}, b : {0}, p : {{}}, nmi : {nmi}]
    BY Zenon
<1>7. PICK s7 : s7 = [prog : {"call"}, a : {0, 129}, b : {0}, p : {{}, {"C", "D", "V"}, {"I"}}, nmi : {nmi}]
    BY Zenon
<1>8. PICK s8 : s8 = [prog : {"trap"}, a : {0}, b : {0}, p : {{}, {"D"}}, nmi : {nmi}]
    BY Zenon
<1>9. j \in s1 \cup s2 \cup s3 \cup s4 \cup s5 \cup s6 \cup s7 \cup s8
    BY <1>1, <1>2, <1>3, <1>4, <1>5, <1>6, <1>7, <1>8 DEF Jobs
<1>10. /\ j \in s1 => Asks(j, Binary, Words, Words, {{}}) /\ j.nmi = nmi
       /\ j \in s2 => Asks(j, Decimal, Decimals, Decimals, {{}}) /\ j.nmi = nmi
       /\ j \in s3 => Asks(j, {"multiply"}, low, low, {{}}) /\ j.nmi = nmi
       /\ j \in s4 => Asks(j, {"double"}, Words, {0}, {{}}) /\ j.nmi = nmi
    BY <1>1, <1>2, <1>3, <1>4 DEF Asks
<1>11. /\ j \in s5 => Asks(j, {"copy"}, {764, 766}, {0}, {{}}) /\ j.nmi = nmi
       /\ j \in s6 => Asks(j, {"delay"}, {1, 2, 9}, {0}, {{}}) /\ j.nmi = nmi
    BY <1>5, <1>6 DEF Asks
<1>12. /\ j \in s7 => Asks(j, {"call"}, {0, 129}, {0}, {{}, {"C", "D", "V"}, {"I"}}) /\ j.nmi = nmi
       /\ j \in s8 => Asks(j, {"trap"}, {0}, {0}, {{}, {"D"}}) /\ j.nmi = nmi
    BY <1>7, <1>8 DEF Asks
<1>. QED BY <1>9, <1>10, <1>11, <1>12

LEMMA WorkParts ==
    ASSUME NEW j
    PROVE  Work(j).prog = j.prog /\ Work(j).a = j.a /\ Work(j).b = j.b /\ Work(j).p = j.p
BY DEF Work

LEMMA JobsFit ==
    ASSUME NEW nmi \in {"none", "due"}, NEW j \in Jobs(nmi)
    PROVE  Fitted(Work(j)) /\ j.nmi = nmi
<1>. DEFINE Goal == Fitted(Work(j)) /\ j.nmi = nmi
<1>1. PICK w : w = Work(j)
    OBVIOUS
<1>2. PICK low : low = {w2 % 256 : w2 \in Words}
    OBVIOUS
<1>3. j.nmi = nmi
    BY <1>2, JobKinds
<1>4. /\ w.prog = j.prog /\ w.a = j.a /\ w.b = j.b /\ w.p = j.p
    BY <1>1, WorkParts
<1>5. /\ w.prog \in DOMAIN Origins /\ w.a \in UInt16 /\ w.b \in UInt16 /\ w.p \in SUBSET Flags
  <2>1. j \in JobType /\ j.prog \in DOMAIN Origins
      BY JobsTyped
  <2>. QED BY <1>4, <2>1 DEF JobType
<1>6. ASSUME Asks(j, Binary, Words, Words, {{}}) PROVE Fitted(w)
    BY <1>4, <1>5, <1>6 DEF Asks, Fitted, Binary, Decimal
<1>7. ASSUME Asks(j, Decimal, Decimals, Decimals, {{}}) PROVE Fitted(w)
  <2>1. Spelled(w.a) /\ Spelled(w.b)
      BY <1>4, <1>7, ProgramsAssumption DEF Asks, Spelled
  <2>. QED BY <1>4, <1>5, <1>7, <2>1 DEF Asks, Fitted, Decimal
<1>8. ASSUME Asks(j, {"multiply"}, low, low, {{}}) PROVE Fitted(w)
  <2>1. ASSUME NEW v \in low PROVE v \in UInt8
    <3>1. PICK u \in Words : v = u % 256
        BY <1>2
    <3>2. u \in Nat
        BY OperandsAssumption, Ranges
    <3>. QED BY <3>1, <3>2, Bytes8
  <2>2. w.a \in UInt8 /\ w.b \in UInt8
      BY <1>4, <1>8, <2>1 DEF Asks
  <2>. QED BY <1>4, <1>5, <1>8, <2>2 DEF Asks, Fitted, Decimal
<1>9. ASSUME Asks(j, {"double"}, Words, {0}, {{}}) PROVE Fitted(w)
    BY <1>4, <1>5, <1>9 DEF Asks, Fitted, Decimal
<1>10. ASSUME Asks(j, {"copy"}, {764, 766}, {0}, {{}}) PROVE Fitted(w)
    BY <1>4, <1>5, <1>10 DEF Asks, Fitted, Decimal
<1>11. ASSUME Asks(j, {"delay"}, {1, 2, 9}, {0}, {{}}) PROVE Fitted(w)
  <2>1. w.a \in 1 .. 255
      BY <1>4, <1>11 DEF Asks
  <2>. QED BY <1>4, <1>5, <1>11, <2>1 DEF Asks, Fitted, Decimal
<1>12. ASSUME Asks(j, {"call"}, {0, 129}, {0}, {{}, {"C", "D", "V"}, {"I"}}) PROVE Fitted(w)
  <2>1. w.a \in UInt8
      BY <1>4, <1>12, Ranges DEF Asks
  <2>. QED BY <1>4, <1>5, <1>12, <2>1 DEF Asks, Fitted, Decimal
<1>13. ASSUME Asks(j, {"trap"}, {0}, {0}, {{}, {"D"}}) PROVE Fitted(w)
    BY <1>4, <1>5, <1>13 DEF Asks, Fitted, Decimal
<1>14. Fitted(w)
    BY <1>2, <1>6, <1>7, <1>8, <1>9, <1>10, <1>11, <1>12, <1>13, JobKinds
<1>. QED BY <1>1, <1>3, <1>14

----------------------------------------------------------------------------
(* A program that starts is where it should be.                            *)
Started(w, s) ==
    /\ s.SP = 255 /\ s.X = 0 /\ s.cycles = 0 /\ s.PC = Origins[w.prog] /\ s.P = w.p
    /\ Prepared(w.a, w.b, s.mem)

LEMMA ByteAlone ==
    ASSUME NEW x \in UInt8
    PROVE  Lo(x) = x /\ Hi(x) = 0
<1>1. x \in Nat /\ x < 256
    BY Ranges
<1>. QED BY <1>1 DEF Lo, Hi

LEMMA PushedStatus ==
    ASSUME NEW p \in SUBSET Flags
    PROVE  \E f : f \in UInt8 /\ f = FlagByte8(p, TRUE) /\ p = FlagsOf(f)
<1>1. PICK brk \in BOOLEAN : brk = TRUE
    OBVIOUS
<1>2. PICK f : f = FlagByte8(p, brk)
    BY Zenon
<1>3. f \in UInt8 /\ p = FlagsOf(f)
    BY <1>2, StatusByteExact
<1>4. f = FlagByte8(p, TRUE)
    BY <1>1, <1>2
<1>. QED BY <1>3, <1>4

LEMMA ChainStarts ==
    ASSUME NEW w, w.prog \in Chained, NEW s, Started(w, s)
    PROVE  ChainRuns(w, s, 0)
<1>1. PICK base : \E dec, cy \in BOOLEAN :
          OneOfFour(base, dec, cy) /\ IsChain(w, base, dec, cy)
    BY FourChains
<1>2. PICK dec \in BOOLEAN, cy \in BOOLEAN :
          OneOfFour(base, dec, cy) /\ IsChain(w, base, dec, cy)
    BY <1>1
<1>3. base \in Nat /\ s.PC = base
    BY <1>2 DEF OneOfFour, IsChain, Started
<1>4. At(s, 0, base, 0)
    BY <1>3 DEF At, Started
<1>5. ChainAt(base, dec, cy, w, s, 0)
    BY <1>4 DEF ChainAt, Started, Prepared
<1>. QED BY <1>2, <1>5 DEF ChainRuns

LEMMA CompareStarts ==
    ASSUME NEW w, w.prog = "compare", NEW s, Started(w, s)
    PROVE  CompareRuns(w, s, 0)
<1>1. PICK over \in {0, 1}, less \in {0, 1}, below \in {0, 1} : Outcome(over, less, below, w)
    BY OutcomeExists
<1>2. At(s, 0, 2176, 0)
    BY DEF At, Started, Origins
<1>3. CompareAt(over, less, below, w, s, 0)
    BY <1>2 DEF CompareAt, Started, Prepared
<1>. QED BY <1>1, <1>3 DEF CompareRuns

LEMMA MultiplyStarts ==
    ASSUME NEW w, w.prog = "multiply", w.a \in UInt8, w.b \in UInt8, NEW s, Started(w, s)
    PROVE  MultiplyAt(w, s, 0)
<1>1. At(s, 0, 2240, 0)
    BY DEF At, Started, Origins
<1>2. s.mem[17] = w.a /\ s.mem[19] = w.b
    BY ByteAlone DEF Started, Prepared
<1>. QED BY <1>1, <1>2 DEF MultiplyAt, Started

LEMMA DoubleStarts ==
    ASSUME NEW w, w.prog = "double", NEW s, Started(w, s)
    PROVE  DoubleRuns(w, s, 0)
<1>1. At(s, 0, 2528, 0)
    BY DEF At, Started, Origins
<1>2. PICK l : l = (2 * Lo(w.a)) % 256
    OBVIOUS
<1>3. PICK h : h = (2 * Hi(w.a) + (IF Lo(w.a) >= 128 THEN 1 ELSE 0)) % 256
    OBVIOUS
<1>4. PICK top : (l = 0 => top = (h + 255) % 256) /\ (l # 0 => top = h)
    OBVIOUS
<1>5. PICK more \in {0, 4} : (l = 0 => more = 4) /\ (l # 0 => more = 0)
    OBVIOUS
<1>6. DoublesTo(w, l, h, top, more)
    BY <1>2, <1>3, <1>4, <1>5 DEF DoublesTo
<1>7. DoubleAt(l, h, top, more, w, s, 0)
    BY <1>1 DEF DoubleAt, Started, Prepared
<1>. QED BY <1>6, <1>7 DEF DoubleRuns

LEMMA CopyStarts ==
    ASSUME NEW w, w.prog = "copy", NEW s, Started(w, s)
    PROVE  CopyAt(w, s, 0)
<1>1. At(s, 0, 2304, 0)
    BY DEF At, Started, Origins
<1>. QED BY <1>1 DEF CopyAt, Started, Prepared

LEMMA DelayStarts ==
    ASSUME NEW w, w.prog = "delay", w.a \in 1 .. 255, NEW s, Started(w, s)
    PROVE  DelayAt(w, s, 0)
<1>1. At(s, 0, 1532, 0)
    BY DEF At, Started, Origins
<1>2. s.mem[17] = w.a
  <2>1. w.a \in UInt8
      BY Ranges
  <2>. QED BY <2>1, ByteAlone DEF Started, Prepared
<1>. QED BY <1>1, <1>2 DEF DelayAt, Started

LEMMA CallStarts ==
    ASSUME NEW w, w.prog = "call", w.a \in UInt8, w.p \in SUBSET Flags, NEW s, Started(w, s)
    PROVE  CallRuns(w, s, 0)
<1>1. At(s, 0, 2368, 0)
    BY DEF At, Started, Origins
<1>2. s.mem[17] = w.a
    BY ByteAlone DEF Started, Prepared
<1>3. SetZN(w.p, w.a) \in SUBSET Flags
    BY DEF SetZN, SetFlag, Flags
<1>4. PICK t \in SUBSET Flags : t = SetZN(w.p, w.a)
    BY <1>3
<1>5. PICK f : f \in UInt8 /\ f = FlagByte8(t, TRUE) /\ t = FlagsOf(f)
    BY PushedStatus
<1>6. CallsWith(w, t, f)
    BY <1>4, <1>5 DEF CallsWith
<1>7. SameElse(w.p, s.P)
    BY DEF SameElse, Started
<1>8. CallAt(t, f, w, s, 0)
    BY <1>1, <1>2, <1>7 DEF CallAt, Started
<1>. QED BY <1>6, <1>8 DEF CallRuns

LEMMA MergeStarts ==
    ASSUME NEW w, w.prog = "merge", w.p = {}, NEW s, Started(w, s)
    PROVE  MergeRuns(w, s, 0)
<1>1. At(s, 0, 2432, 0)
    BY DEF At, Started, Origins
<1>2. PICK r1 : r1 = And(Lo(w.a), Lo(w.b))
    BY Zenon
<1>3. PICK r2 : r2 = Xor(Lo(w.b), 255)
    BY Zenon
<1>4. PICK r3 : r3 = And(r2, Hi(w.b))
    BY Zenon
<1>5. PICK r4 : r4 = Or(r3, r1)
    BY Zenon
<1>6. PICK f : f = FlagByte8(Tested(r4, Lo(w.b)), TRUE)
    BY Zenon
<1>7. MergesTo(w, r1, r2, r3, r4, f)
    BY <1>2, <1>3, <1>4, <1>5, <1>6 DEF MergesTo
<1>8. OnlyZN(s.P)
    BY DEF OnlyZN, Started
<1>9. MergeAt(r1, r2, r3, r4, f, w, s, 0)
    BY <1>1, <1>8 DEF MergeAt, Started, Prepared
<1>. QED BY <1>7, <1>9 DEF MergeRuns

LEMMA TrapStarts ==
    ASSUME NEW w, w.prog = "trap", w.p \in {{}, {"D"}}, NEW s, Started(w, s)
    PROVE  TrapRuns(w, s, 0)
<1>1. At(s, 0, 2496, 0)
    BY DEF At, Started, Origins
<1>2. PICK p \in SUBSET Flags : p = w.p \cup {"C"}
    BY DEF Flags
<1>3. "I" \notin p
    BY <1>2
<1>4. PICK f : f \in UInt8 /\ f = FlagByte8(p, TRUE) /\ p = FlagsOf(f)
    BY PushedStatus
<1>5. Trapped(w, p, f)
    BY <1>2, <1>3, <1>4 DEF Trapped
<1>6. TrapAt(p, f, w, s, 0)
    BY <1>1 DEF TrapAt, Started, Prepared, BrkCount
<1>. QED BY <1>5, <1>6 DEF TrapRuns

LEMMA RunsStart ==
    ASSUME NEW w, Fitted(w), NEW s, Started(w, s)
    PROVE  WorkRuns(w, s, 0)
<1>1. w.prog \in Chained => ChainRuns(w, s, 0)
    BY ChainStarts
<1>2. w.prog = "compare" => CompareRuns(w, s, 0)
    BY CompareStarts
<1>3. w.prog = "multiply" => MultiplyAt(w, s, 0)
    BY MultiplyStarts DEF Fitted
<1>4. w.prog = "double" => DoubleRuns(w, s, 0)
    BY DoubleStarts
<1>5. w.prog = "copy" => CopyAt(w, s, 0)
    BY CopyStarts
<1>6. w.prog = "delay" => DelayAt(w, s, 0)
    BY DelayStarts DEF Fitted
<1>7. w.prog = "call" => CallRuns(w, s, 0)
    BY CallStarts DEF Fitted
<1>8. w.prog = "merge" => MergeRuns(w, s, 0)
    BY MergeStarts DEF Fitted
<1>9. w.prog = "trap" => TrapRuns(w, s, 0)
    BY TrapStarts DEF Fitted
<1>. QED BY <1>1, <1>2, <1>3, <1>4, <1>5, <1>6, <1>7, <1>8, <1>9 DEF WorkRuns

----------------------------------------------------------------------------
(* A program that stops has done what it means, in its time.               *)
LEMMA ToldChains ==
    ASSUME NEW a, NEW b
    PROVE  /\ Told(a, b)["add"] = 42 /\ Told(a, b)["subtract"] = 42
           /\ Told(a, b)["decimalAdd"] = 42 /\ Told(a, b)["decimalSubtract"] = 42
           /\ Told(a, b)["merge"] = 50 /\ Told(a, b)["call"] = 72 /\ Told(a, b)["trap"] = 31
           /\ Told(a, b)["delay"] = 6 + 6 * a
BY DEF Told

LEMMA ToldCompare ==
    ASSUME NEW a, NEW b
    PROVE  Told(a, b)["compare"] = 36 + One(~Fits(Signed(a) - Signed(b)))
                                      + One(Signed(a) < Signed(b)) + One(a < b)
BY DEF Told

LEMMA ToldMultiply ==
    ASSUME NEW a, NEW b
    PROVE  Told(a, b)["multiply"] = 144 + 4 * Cardinality(Bits(a))
BY DEF Told

LEMMA ToldDouble ==
    ASSUME NEW a, NEW b
    PROVE  Told(a, b)["double"] = IF (2 * a) % 256 = 0 THEN 32 ELSE 28
BY DEF Told

LEMMA ToldCopy ==
    ASSUME NEW a, NEW b
    PROVE  Told(a, b)["copy"] =
               83 + Cardinality({k \in 0 .. 3 : (a + k) \div 256 # a \div 256})
BY DEF Told

(* What the chains leave.                                                  *)
LEMMA ChainDone ==
    ASSUME NEW w, NEW s, NEW d, ChainRuns(w, s, d), s.PC = StopAt
    PROVE  \E dec, cy \in BOOLEAN :
               /\ dec <=> w.prog \in Decimal
               /\ cy <=> w.prog \in Borrows
               /\ HighSum(dec, cy, w, s.mem[20], s.mem[21], s.P)
               /\ s.cycles = d + 42
<1>1. PICK base : \E dec, cy \in BOOLEAN :
          /\ OneOfFour(base, dec, cy) /\ IsChain(w, base, dec, cy)
          /\ ChainAt(base, dec, cy, w, s, d)
    BY DEF ChainRuns
<1>2. PICK dec \in BOOLEAN, cy \in BOOLEAN :
          /\ OneOfFour(base, dec, cy) /\ IsChain(w, base, dec, cy)
          /\ ChainAt(base, dec, cy, w, s, d)
    BY <1>1
<1>3. base \in {2048, 2080, 2112, 2144} /\ ChainAt(base, dec, cy, w, s, d)
    BY <1>2 DEF OneOfFour
<1>4. HighSum(dec, cy, w, s.mem[20], s.mem[21], s.P) /\ s.cycles = d + 42
    BY <1>3, ChainEnds
<1>. QED BY <1>2, <1>4 DEF IsChain

LEMMA AddRight ==
    ASSUME NEW w, Fitted(w), w.prog = "add", NEW s, NEW d, ChainRuns(w, s, d), s.PC = StopAt
    PROVE  /\ 256 * s.mem[20] + s.mem[21] = (w.a + w.b) % 65536
           /\ "C" \in s.P <=> w.a + w.b >= 65536
           /\ "V" \in s.P <=> ~Fits(Signed(w.a) + Signed(w.b))
<1>1. PICK dec \in BOOLEAN, cy \in BOOLEAN :
          /\ dec <=> w.prog \in Decimal
          /\ cy <=> w.prog \in Borrows
          /\ HighSum(dec, cy, w, s.mem[20], s.mem[21], s.P)
    BY ChainDone
<1>2. dec = FALSE /\ cy = FALSE
    BY <1>1 DEF Decimal, Borrows
<1>3. PICK h, l, p : h = s.mem[20] /\ l = s.mem[21] /\ p = s.P
    OBVIOUS
<1>4. Sum2(w, h, l, p)
    BY <1>1, <1>2, <1>3 DEF Sum2
<1>5. w.a \in UInt16 /\ w.b \in UInt16
    BY DEF Fitted
<1>. QED BY <1>3, <1>4, <1>5, AddMeans

LEMMA SubtractRight ==
    ASSUME NEW w, Fitted(w), w.prog = "subtract", NEW s, NEW d, ChainRuns(w, s, d), s.PC = StopAt
    PROVE  /\ 256 * s.mem[20] + s.mem[21] = (w.a - w.b) % 65536
           /\ "C" \in s.P <=> w.a >= w.b
           /\ "V" \in s.P <=> ~Fits(Signed(w.a) - Signed(w.b))
<1>1. PICK dec \in BOOLEAN, cy \in BOOLEAN :
          /\ dec <=> w.prog \in Decimal
          /\ cy <=> w.prog \in Borrows
          /\ HighSum(dec, cy, w, s.mem[20], s.mem[21], s.P)
    BY ChainDone
<1>2. dec = FALSE /\ cy = TRUE
    BY <1>1 DEF Decimal, Borrows
<1>3. PICK h, l, p : h = s.mem[20] /\ l = s.mem[21] /\ p = s.P
    OBVIOUS
<1>4. Difference2(w, h, l, p)
    BY <1>1, <1>2, <1>3 DEF Difference2
<1>5. w.a \in UInt16 /\ w.b \in UInt16
    BY DEF Fitted
<1>. QED BY <1>3, <1>4, <1>5, SubtractMeans

LEMMA DecimalAddRight ==
    ASSUME NEW w, Fitted(w), w.prog = "decimalAdd", NEW s, NEW d, ChainRuns(w, s, d), s.PC = StopAt
    PROVE  /\ Digits4(256 * s.mem[20] + s.mem[21]) = (Digits4(w.a) + Digits4(w.b)) % 10000
           /\ "C" \in s.P <=> Digits4(w.a) + Digits4(w.b) >= 10000
<1>1. PICK dec \in BOOLEAN, cy \in BOOLEAN :
          /\ dec <=> w.prog \in Decimal
          /\ cy <=> w.prog \in Borrows
          /\ HighSum(dec, cy, w, s.mem[20], s.mem[21], s.P)
    BY ChainDone
<1>2. dec = TRUE /\ cy = FALSE
    BY <1>1 DEF Decimal, Borrows
<1>3. PICK h, l, p : h = s.mem[20] /\ l = s.mem[21] /\ p = s.P
    OBVIOUS
<1>4. SumBCD2(w, h, l, p)
    BY <1>1, <1>2, <1>3 DEF SumBCD2
<1>5. w.a \in UInt16 /\ w.b \in UInt16 /\ Spelled(w.a) /\ Spelled(w.b)
    BY DEF Fitted, Decimal
<1>. QED BY <1>3, <1>4, <1>5, DecimalAddMeans

LEMMA DecimalSubtractRight ==
    ASSUME NEW w, Fitted(w), w.prog = "decimalSubtract", NEW s, NEW d, ChainRuns(w, s, d),
           s.PC = StopAt
    PROVE  /\ Digits4(256 * s.mem[20] + s.mem[21]) = (Digits4(w.a) - Digits4(w.b)) % 10000
           /\ "C" \in s.P <=> w.a >= w.b
<1>1. PICK dec \in BOOLEAN, cy \in BOOLEAN :
          /\ dec <=> w.prog \in Decimal
          /\ cy <=> w.prog \in Borrows
          /\ HighSum(dec, cy, w, s.mem[20], s.mem[21], s.P)
    BY ChainDone
<1>2. dec = TRUE /\ cy = TRUE
    BY <1>1 DEF Decimal, Borrows
<1>3. PICK h, l, p : h = s.mem[20] /\ l = s.mem[21] /\ p = s.P
    OBVIOUS
<1>4. DifferenceBCD2(w, h, l, p)
    BY <1>1, <1>2, <1>3 DEF DifferenceBCD2
<1>5. w.a \in UInt16 /\ w.b \in UInt16 /\ Spelled(w.a) /\ Spelled(w.b)
    BY DEF Fitted, Decimal
<1>. QED BY <1>3, <1>4, <1>5, DecimalSubtractMeans

----------------------------------------------------------------------------
LEMMA MergeRight ==
    ASSUME NEW w, Fitted(w), NEW d, MergeRuns(w, core, d), core.PC = StopAt
    PROVE  MergeLeft(w.a, w.b) /\ core.cycles = d + 50
<1>. DEFINE m == Bits(w.b % 256)
            r == (Bits(w.a % 256) \cap m) \cup (Bits(w.b \div 256) \ m)
<1>. HIDE DEF m, r
<1>1. PICK r1, r2, r3, r4, g :
          MergesTo(w, r1, r2, r3, r4, g) /\ MergeAt(r1, r2, r3, r4, g, w, core, d)
    BY DEF MergeRuns
<1>2. w.a \in UInt16 /\ w.b \in UInt16
    BY DEF Fitted
<1>3. core.mem[20] = r4 /\ core.mem[21] = 7 /\ core.mem[16] = g /\ core.cycles = d + 50
    BY <1>1, <1>2, MergeEnds
<1>4. PICK x \in UInt8, y \in UInt8, k \in UInt8 : x = Lo(w.a) /\ y = Hi(w.b) /\ k = Lo(w.b)
    BY <1>2, WordBytes
<1>5. Merges(x, y, k, r1, r2, r3, r4)
    BY <1>1, <1>4 DEF MergesTo, Merges
<1>6. r4 \in UInt8 /\ Bits(r4) = (Bits(x) \cap Bits(k)) \cup (Bits(y) \ Bits(k))
    BY <1>5, MergeMeans
<1>7. m = Bits(k) /\ r = Bits(r4)
    BY <1>4, <1>6 DEF m, r, Lo, Hi
<1>8. g = FlagByte8(Tested(r4, k), TRUE)
    BY <1>1, <1>4 DEF MergesTo
<1>9. FlagsOf(FlagByte8(Tested(r4, k), TRUE)) = Tested(r4, k)
    BY <1>6, TestMeans, Zenon
<1>10. Tested(r4, k) = {f \in {"Z"} : Bits(r4) \cap Bits(k) = {}}
                       \cup {f \in {"V"} : 64 \in Bits(k)} \cup {f \in {"N"} : 128 \in Bits(k)}
    BY <1>6, TestMeans, Zenon
<1>11. FlagsOf(core.mem[16]) = Tested(r4, k)
    BY <1>3, <1>8, <1>9
<1>12. Tested(r4, k) = {f \in {"Z"} : r \cap m = {}} \cup {f \in {"V"} : 64 \in m}
                           \cup {f \in {"N"} : 128 \in m}
    BY <1>7, <1>10
<1>13. Cell(R) = r4 /\ Cell(R + 1) = 7 /\ Cell(A) = core.mem[16]
    BY <1>3 DEF Cell, R, A
<1>14. /\ Bits(Cell(R)) = r
       /\ Cell(R + 1) = 7
       /\ FlagsOf(Cell(A)) = {f \in {"Z"} : r \cap m = {}} \cup {f \in {"V"} : 64 \in m}
                                \cup {f \in {"N"} : 128 \in m}
    BY <1>7, <1>11, <1>12, <1>13
<1>. QED BY <1>3, <1>14 DEF MergeLeft, m, r

LEMMA RunsEnd ==
    ASSUME NEW w, w = Work(job), Fitted(w), NEW d \in Nat, WorkRuns(w, core, d), core.PC = StopAt
    PROVE  /\ Meaning(job.a, job.b)
           /\ Told(job.a, job.b)[job.prog] \in Int
           /\ core.cycles = d + Told(job.a, job.b)[job.prog]
<1>. DEFINE Timed == /\ Told(job.a, job.b)[job.prog] \in Int
                     /\ core.cycles = d + Told(job.a, job.b)[job.prog]
<1>1. job.prog = w.prog /\ job.a = w.a /\ job.b = w.b /\ job.p = w.p
    BY WorkParts
<1>2. Cell(R) = core.mem[20] /\ Cell(R + 1) = core.mem[21] /\ Cell(A) = core.mem[16]
    BY DEF Cell, R, A
<1>3. /\ WordAt(R) = 256 * core.mem[20] + core.mem[21]
      /\ WordAt(A) = 256 * core.mem[16] + core.mem[17]
    BY DEF WordAt, Cell, R, A
<1>4. w.a \in UInt16 /\ w.b \in UInt16
    BY DEF Fitted
<1>5. ASSUME job.prog \in Chained PROVE ChainRuns(w, core, d) /\ Timed
  <2>1. ChainRuns(w, core, d)
      BY <1>1, <1>5 DEF WorkRuns
  <2>2. core.cycles = d + 42
      BY <2>1, ChainDone
  <2>3. \/ job.prog = "add" \/ job.prog = "subtract"
        \/ job.prog = "decimalAdd" \/ job.prog = "decimalSubtract"
      BY <1>5 DEF Chained, Decimal
  <2>4. Told(job.a, job.b)[job.prog] = 42
      BY <2>3, ToldChains
  <2>. QED BY <2>1, <2>2, <2>4
<1>6. /\ "add" \in Chained /\ "subtract" \in Chained
      /\ "decimalAdd" \in Chained /\ "decimalSubtract" \in Chained
    BY DEF Chained, Decimal
<1>7. ASSUME job.prog = "add" PROVE SumLeft(job.a, job.b)
  <2>1. w.prog = "add" /\ ChainRuns(w, core, d)
      BY <1>1, <1>5, <1>6, <1>7
  <2>2. /\ 256 * core.mem[20] + core.mem[21] = (w.a + w.b) % 65536
        /\ "C" \in core.P <=> w.a + w.b >= 65536
        /\ "V" \in core.P <=> ~Fits(Signed(w.a) + Signed(w.b))
      BY <2>1, AddRight
  <2>. QED BY <1>1, <1>3, <2>2 DEF Has, SumLeft
<1>8. ASSUME job.prog = "decimalAdd" PROVE DecimalSumLeft(job.a, job.b)
  <2>1. w.prog = "decimalAdd" /\ ChainRuns(w, core, d)
      BY <1>1, <1>5, <1>6, <1>8
  <2>2. /\ Digits4(256 * core.mem[20] + core.mem[21]) = (Digits4(w.a) + Digits4(w.b)) % 10000
        /\ "C" \in core.P <=> Digits4(w.a) + Digits4(w.b) >= 10000
      BY <2>1, DecimalAddRight
  <2>. QED BY <1>1, <1>3, <2>2 DEF Has, DecimalSumLeft
<1>9. ASSUME job.prog = "subtract" PROVE DifferenceLeft(job.a, job.b)
  <2>1. w.prog = "subtract" /\ ChainRuns(w, core, d)
      BY <1>1, <1>5, <1>6, <1>9
  <2>2. /\ 256 * core.mem[20] + core.mem[21] = (w.a - w.b) % 65536
        /\ "C" \in core.P <=> w.a >= w.b
        /\ "V" \in core.P <=> ~Fits(Signed(w.a) - Signed(w.b))
      BY <2>1, SubtractRight
  <2>. QED BY <1>1, <1>3, <2>2 DEF Has, DifferenceLeft
<1>10. ASSUME job.prog = "decimalSubtract" PROVE DecimalDifferenceLeft(job.a, job.b)
  <2>1. w.prog = "decimalSubtract" /\ ChainRuns(w, core, d)
      BY <1>1, <1>5, <1>6, <1>10
  <2>2. /\ Digits4(256 * core.mem[20] + core.mem[21]) = (Digits4(w.a) - Digits4(w.b)) % 10000
        /\ "C" \in core.P <=> w.a >= w.b
      BY <2>1, DecimalSubtractRight
  <2>. QED BY <1>1, <1>3, <2>2 DEF Has, DecimalDifferenceLeft
<1>11. ASSUME job.prog = "compare" PROVE OrderLeft(job.a, job.b) /\ Timed
  <2>1. PICK over \in {0, 1}, less \in {0, 1}, below \in {0, 1} :
            Outcome(over, less, below, w) /\ CompareAt(over, less, below, w, core, d)
      BY <1>1, <1>11 DEF WorkRuns, CompareRuns
  <2>2. /\ core.mem[20] = (IF w.a < w.b THEN 1 ELSE 0)
        /\ core.mem[21] = (IF Signed(w.a) < Signed(w.b) THEN 1 ELSE 0)
        /\ core.cycles = d + (36 + One(~Fits(Signed(w.a) - Signed(w.b)))
                                 + One(Signed(w.a) < Signed(w.b)) + One(w.a < w.b))
      BY <2>1, CompareEnds
  <2>3. Timed
      BY <1>1, <1>11, <2>2, ToldCompare DEF One
  <2>. QED BY <1>1, <1>2, <2>2, <2>3 DEF OrderLeft
<1>12. ASSUME job.prog = "multiply" PROVE ProductLeft(job.a, job.b) /\ Timed
  <2>1. MultiplyAt(w, core, d) /\ w.a \in UInt8
      BY <1>1, <1>12 DEF WorkRuns, Fitted
  <2>2. /\ 256 * core.mem[16] + core.mem[17] = w.a * w.b
        /\ core.cycles = d + (144 + 4 * Cardinality(Bits(w.a)))
      BY <2>1, MultiplyEnds
  <2>3. Timed
    <3>1. PICK n \in Nat : n = Cardinality(Bits(w.a))
        BY <2>1, OnesTyped DEF Ones
    <3>. QED BY <1>1, <1>12, <2>2, <3>1, ToldMultiply
  <2>. QED BY <1>1, <1>3, <2>2, <2>3 DEF ProductLeft
<1>13. ASSUME job.prog = "double" PROVE DoubleLeft(job.a) /\ Timed
  <2>1. PICK more \in {0, 4} : \E l, h, top :
            DoublesTo(w, l, h, top, more) /\ DoubleAt(l, h, top, more, w, core, d)
      BY <1>1, <1>13 DEF WorkRuns, DoubleRuns
  <2>2. PICK l, h, top :
            DoublesTo(w, l, h, top, more) /\ DoubleAt(l, h, top, more, w, core, d)
      BY <2>1
  <2>3. /\ 256 * core.mem[16] + core.mem[17] = (2 * w.a - 1) % 65536
        /\ "C" \in core.P <=> w.a >= 32768
        /\ core.cycles = d + (IF (2 * w.a) % 256 = 0 THEN 32 ELSE 28)
      BY <1>4, <2>2, DoubleEnds
  <2>4. Timed
      BY <1>1, <1>13, <2>3, ToldDouble
  <2>. QED BY <1>1, <1>3, <2>3, <2>4 DEF Has, DoubleLeft
<1>14. ASSUME job.prog = "copy" PROVE CopyLeft(job.a) /\ Timed
  <2>1. CopyAt(w, core, d) /\ w.a \in {764, 766}
      BY <1>1, <1>14 DEF WorkRuns, Fitted
  <2>2. /\ \A k \in 0 .. 3 : core.mem[Copied + k] = (w.a + k) % 256
        /\ core.mem[36] = w.a % 256
        /\ core.cycles = d + (83 + Cardinality({k \in 0 .. 3 : (w.a + k) \div 256 # w.a \div 256}))
      BY <2>1, CopyEnds
  <2>3. Timed
    <3>1. PICK n \in Int : n = Cardinality({k \in 0 .. 3 : (w.a + k) \div 256 # w.a \div 256})
      <4>1. Cardinality(Crossings(w.a)) \in Int
          BY <2>1, PagesCrossed DEF Late
      <4>. QED BY <4>1 DEF Crossings
    <3>. QED BY <1>1, <1>14, <2>2, <3>1, ToldCopy
  <2>4. Cell(Copied + 4) = core.mem[36]
      BY DEF Cell, Copied
  <2>. QED BY <1>1, <2>2, <2>3, <2>4 DEF Cell, CopyLeft
<1>15. ASSUME job.prog = "delay" PROVE core.X = 0 /\ Timed
  <2>1. DelayAt(w, core, d)
      BY <1>1, <1>15 DEF WorkRuns
  <2>2. core.X = 0 /\ core.cycles = d + (6 + 6 * w.a)
      BY <2>1, DelayEnds
  <2>3. w.a \in Int
      BY <1>4, Ranges
  <2>. QED BY <1>1, <1>15, <2>2, <2>3, ToldChains
<1>16. ASSUME job.prog = "call" PROVE CallLeft(job.a) /\ Timed
  <2>1. PICK t, f : CallsWith(w, t, f) /\ CallAt(t, f, w, core, d)
      BY <1>1, <1>16 DEF WorkRuns, CallRuns
  <2>2. /\ core.mem[20] = w.a /\ FlagsOf(core.mem[21]) = SetZN(w.p, w.a) /\ core.SP = 255
        /\ core.cycles = d + 72
      BY <2>1, CallEnds
  <2>3. Timed
      BY <1>16, <2>2, ToldChains
  <2>. QED BY <1>1, <1>2, <2>2, <2>3 DEF CallLeft
<1>17. ASSUME job.prog = "merge"
       PROVE  MergeLeft(job.a, job.b) /\ Timed
  <2>1. MergeRuns(w, core, d)
      BY <1>1, <1>17 DEF WorkRuns
  <2>2. MergeLeft(w.a, w.b) /\ core.cycles = d + 50
      BY <2>1, MergeRight
  <2>3. Timed
      BY <1>17, <2>2, ToldChains
  <2>. QED BY <1>1, <2>2, <2>3
<1>18. ASSUME job.prog = "trap" PROVE TrapLeft /\ Timed
  <2>1. PICK p, f : Trapped(w, p, f) /\ TrapAt(p, f, w, core, d)
      BY <1>1, <1>18 DEF WorkRuns, TrapRuns
  <2>2. w.p \in {{}, {"D"}}
      BY <1>1, <1>18 DEF Fitted
  <2>3. /\ core.mem[49] = 1 /\ core.mem[20] = 0 /\ core.P = TrapFlags(w.p)
        /\ core.cycles = d + 31
      BY <2>1, <2>2, TrapEnds
  <2>4. Timed
      BY <1>18, <2>3, ToldChains
  <2>5. Cell(BrkCount) = core.mem[49]
      BY DEF Cell, BrkCount
  <2>. QED BY <1>1, <1>2, <2>3, <2>4, <2>5 DEF TrapFlags, TrapLeft
<1>. HIDE DEF Timed
<1>19. Timed
    BY <1>1, <1>5, <1>11, <1>12, <1>13, <1>14, <1>15, <1>16, <1>17, <1>18, AnyProgram
<1>20. Meaning(job.a, job.b)
    BY <1>7, <1>8, <1>9, <1>10, <1>11, <1>12, <1>13, <1>14, <1>15, <1>16, <1>17, <1>18 DEF Meaning
<1>. QED BY <1>19, <1>20 DEF Timed

----------------------------------------------------------------------------
(* Where the work w is in a state s: before its interrupt, or without any; *)
(* in the handler, which saved the state it interrupted; after it.         *)
Undisturbed(w, s) == WorkRuns(w, s, 0) /\ s.mem[NmiCount] = 9
InHandler(w, s) ==
    \E was \in CoreState : \E at, sp, m :
        WorkRuns(w, was, 0) /\ Handling(was, at, sp, m) /\ HandlerAt(at, sp, m, was, s, was.cycles)
Returned(w, s) == WorkRuns(w, s, 58) /\ s.mem[NmiCount] = 16

OnItsWay(w, nmi, s) ==
    /\ Fitted(w)
    /\ nmi # "served" => Undisturbed(w, s)
    /\ nmi = "served" => InHandler(w, s) \/ Returned(w, s)

(* The inductive invariant. *)
ProgramsInv == ProgramsTypeOK /\ (job # Idle => OnItsWay(Work(job), job.nmi, core))

LEMMA StartedOnItsWay ==
    ASSUME NEW nmi \in {"none", "due"}, NEW j \in Jobs(nmi), Start(j)
    PROVE  job' = j /\ OnItsWay(Work(j), j.nmi, core')
<1>1. PICK w : w = Work(j)
    OBVIOUS
<1>2. Fitted(w) /\ j.nmi = nmi
    BY <1>1, JobsFit
<1>3. w.prog = j.prog /\ w.a = j.a /\ w.b = j.b /\ w.p = j.p
    BY <1>1, WorkParts
<1>4. PICK at, m : at = Origins[j.prog] /\ m = Loaded(j.a, j.b)
    OBVIOUS
<1>5. Prepared(j.a, j.b, m)
  <2>1. PICK a, b : a = j.a /\ b = j.b
      OBVIOUS
  <2>2. m = Loaded(a, b)
      BY <1>4, <2>1
  <2>. QED BY <2>1, <2>2, MemoryPrepared
<1>6. PICK s \in CoreState : s = AtRest
  <2>1. 0 \in UInt16 /\ 0 \in UInt8 /\ 255 \in UInt8 /\ StopAt \in UInt16
      BY Ranges DEF StopAt
  <2>2. PICK m0 \in RAM : m0 = Loaded(0, 0)
      BY <2>1, LoadedTyped
  <2>. QED BY <2>1, <2>2 DEF AtRest, CoreState
<1>7. s.X = 0 /\ s.SP = 255 /\ s.cycles = 0
    BY <1>6 DEF AtRest
<1>8. core' = [s EXCEPT !.PC = at, !.P = j.p, !.mem = m] /\ job' = j
    BY <1>4, <1>6 DEF Start
<1>9. /\ core'.PC = at /\ core'.P = j.p /\ core'.mem = m
      /\ core'.X = 0 /\ core'.SP = 255 /\ core'.cycles = 0
    BY <1>7, <1>8 DEF CoreState
<1>10. Started(w, core')
    BY <1>3, <1>4, <1>5, <1>9 DEF Started
<1>11. WorkRuns(w, core', 0)
    BY <1>2, <1>10, RunsStart
<1>12. core'.mem[NmiCount] = 9
    BY <1>5, <1>9 DEF Prepared
<1>. QED BY <1>1, <1>2, <1>8, <1>11, <1>12 DEF OnItsWay, Undisturbed

LEMMA InstructionOnItsWay ==
    ASSUME core \in CoreState, ExecuteInstruction, core.PC # StopAt,
           NEW w, NEW nmi, OnItsWay(w, nmi, core)
    PROVE  OnItsWay(w, nmi, core')
<1>1. Fitted(w)
    BY DEF OnItsWay
<1>2. PICK none \in Nat : none = 0
    OBVIOUS
<1>3. PICK more \in Nat : more = 58
    OBVIOUS
<1>4. ASSUME Undisturbed(w, core) PROVE Undisturbed(w, core')
  <2>1. WorkRuns(w, core, none)
      BY <1>2, <1>4 DEF Undisturbed
  <2>2. WorkRuns(w, core', none) /\ core'.mem[NmiCount] = core.mem[NmiCount]
      BY <1>1, <2>1, RunsOn
  <2>. QED BY <1>2, <1>4, <2>2 DEF Undisturbed
<1>5. ASSUME Returned(w, core) PROVE Returned(w, core')
  <2>1. WorkRuns(w, core, more)
      BY <1>3, <1>5 DEF Returned
  <2>2. WorkRuns(w, core', more) /\ core'.mem[NmiCount] = core.mem[NmiCount]
      BY <1>1, <2>1, RunsOn
  <2>. QED BY <1>3, <1>5, <2>2 DEF Returned
<1>6. ASSUME InHandler(w, core) PROVE InHandler(w, core') \/ Returned(w, core')
  <2>1. PICK was \in CoreState : \E at, sp, m :
            /\ WorkRuns(w, was, 0) /\ Handling(was, at, sp, m)
            /\ HandlerAt(at, sp, m, was, core, was.cycles)
      BY <1>6 DEF InHandler
  <2>2. PICK at, sp, m :
            /\ WorkRuns(w, was, 0) /\ Handling(was, at, sp, m)
            /\ HandlerAt(at, sp, m, was, core, was.cycles)
      BY <2>1
  <2>3. PICK d \in Nat : d = was.cycles
      BY DEF CoreState
  <2>4. HandlerAt(at, sp, m, was, core, d)
      BY <2>2, <2>3
  <2>5. HandlerAt(at, sp, m, was, core', d) \/ Resumed(was, core', d)
      BY <2>2, <2>4, HandlerStep
  <2>6. CASE HandlerAt(at, sp, m, was, core', d)
      BY <2>2, <2>3, <2>6 DEF InHandler
  <2>7. CASE Resumed(was, core', d)
    <3>1. Resumed(was, core', was.cycles)
        BY <2>3, <2>7
    <3>2. WorkRuns(w, core', 58)
        BY <1>1, <2>2, <3>1, RunsResume
    <3>. QED BY <2>7, <3>2 DEF Resumed, Returned
  <2>. QED BY <2>5, <2>6, <2>7
<1>. QED BY <1>1, <1>4, <1>5, <1>6 DEF OnItsWay

LEMMA InterruptOnItsWay ==
    ASSUME core \in CoreState, ServeNMI, NEW w, NEW nmi, nmi # "served", OnItsWay(w, nmi, core)
    PROVE  OnItsWay(w, "served", core')
<1>1. Fitted(w) /\ WorkRuns(w, core, 0) /\ core.mem[NmiCount] = 9
    BY DEF OnItsWay, Undisturbed
<1>2. core.SP \in Depths
    BY <1>1, RunsDeep
<1>3. PICK was \in CoreState : was = core
    OBVIOUS
<1>4. PICK at, sp, m : /\ Handling(was, at, sp, m)
                       /\ HandlerAt(at, sp, m, was, core', was.cycles)
    BY <1>1, <1>2, <1>3, HandlerEntered
<1>5. InHandler(w, core')
    BY <1>1, <1>3, <1>4 DEF InHandler
<1>. QED BY <1>1, <1>5 DEF OnItsWay

LEMMA ProgramsInvKept ==
    ASSUME ProgramsInv, [ProgramsNext]_programVars
    PROVE  ProgramsInv'
<1>1. core \in CoreState /\ job \in JobType
    BY CoreTyped DEF ProgramsInv, ProgramsTypeOK, JobType
<1>2. ProgramsTypeOK'
    BY ProgramsKeep DEF ProgramsInv
<1>3. SUFFICES ASSUME job' # Idle PROVE OnItsWay(Work(job'), job'.nmi, core')
    BY <1>2 DEF ProgramsInv
<1>4. ASSUME NEW nmi \in {"none", "due"}, NEW j \in Jobs(nmi), Start(j)
      PROVE  OnItsWay(Work(job'), job'.nmi, core')
    BY <1>4, StartedOnItsWay
<1>5. CASE RunInstruction
  <2>1. /\ job' = job /\ job # Idle /\ core.PC # StopAt /\ ExecuteInstruction
      BY <1>5 DEF RunInstruction, Running
  <2>2. OnItsWay(Work(job), job.nmi, core)
      BY <2>1 DEF ProgramsInv
  <2>3. PICK w, nmi : w = Work(job) /\ nmi = job.nmi
      OBVIOUS
  <2>4. OnItsWay(w, nmi, core')
      BY <1>1, <2>1, <2>2, <2>3, InstructionOnItsWay
  <2>. QED BY <2>1, <2>3, <2>4
<1>6. CASE Interrupt
  <2>1. job # Idle /\ job.nmi = "due" /\ ServeNMI /\ job' = [job EXCEPT !.nmi = "served"]
      BY <1>6 DEF Interrupt, Running
  <2>2. OnItsWay(Work(job), job.nmi, core)
      BY <2>1 DEF ProgramsInv
  <2>3. PICK w, nmi : w = Work(job) /\ nmi = job.nmi
      OBVIOUS
  <2>4. OnItsWay(w, "served", core')
      BY <1>1, <2>1, <2>2, <2>3, InterruptOnItsWay
  <2>5. /\ job'.nmi = "served" /\ job'.prog = job.prog /\ job'.a = job.a /\ job'.b = job.b
        /\ job'.p = job.p
      BY <1>1, <2>1 DEF JobType
  <2>6. Work(job') = w
      BY <2>3, <2>5 DEF Work
  <2>. QED BY <2>4, <2>5, <2>6
<1>7. CASE Collect
    BY <1>3, <1>7 DEF Collect
<1>8. CASE UNCHANGED programVars
    BY <1>3, <1>8 DEF programVars, ProgramsInv
<1>. QED BY <1>4, <1>5, <1>6, <1>7, <1>8 DEF ProgramsNext

LEMMA ProgramsInvStarts == ProgramsInit => ProgramsInv
BY ProgramsStart DEF ProgramsInit, ProgramsInv

LEMMA EndedOnItsWay ==
    ASSUME ProgramsInv, Ended
    PROVE  ProgramsRight /\ CyclesTold
<1>1. job # Idle /\ core.PC = StopAt /\ job \in JobType
    BY DEF Ended, ProgramsInv, ProgramsTypeOK, JobType
<1>2. PICK w : w = Work(job)
    OBVIOUS
<1>3. OnItsWay(w, job.nmi, core)
    BY <1>1, <1>2 DEF ProgramsInv
<1>4. Fitted(w)
    BY <1>3 DEF OnItsWay
<1>5. ASSUME NEW d \in Nat, WorkRuns(w, core, d)
      PROVE  /\ Meaning(job.a, job.b)
             /\ core.cycles = Told(job.a, job.b)[job.prog] + d
  <2>1. /\ Meaning(job.a, job.b)
        /\ Told(job.a, job.b)[job.prog] \in Int
        /\ core.cycles = d + Told(job.a, job.b)[job.prog]
      BY <1>1, <1>2, <1>4, <1>5, RunsEnd
  <2>. QED BY <2>1
<1>6. CASE job.nmi # "served"
  <2>1. WorkRuns(w, core, 0) /\ core.mem[NmiCount] = 9
      BY <1>3, <1>6 DEF OnItsWay, Undisturbed
  <2>. QED BY <1>5, <1>6, <2>1 DEF ProgramsRight, CyclesTold, Cell
<1>7. CASE job.nmi = "served"
  <2>1. ~InHandler(w, core)
    <3>1. ASSUME NEW was, NEW at, NEW sp, NEW m, HandlerAt(at, sp, m, was, core, was.cycles)
          PROVE  core.PC # StopAt
        BY <3>1 DEF HandlerAt, At, StopAt
    <3>. QED BY <1>1, <3>1 DEF InHandler
  <2>2. WorkRuns(w, core, 58) /\ core.mem[NmiCount] = 16
      BY <1>3, <1>7, <2>1 DEF OnItsWay, Returned
  <2>. QED BY <1>5, <1>7, <2>2 DEF ProgramsRight, CyclesTold, Cell
<1>. QED BY <1>6, <1>7

(* Whatever the operands and wherever the interrupt, in any memory that    *)
(* holds the programs' cells: what each program leaves is its meaning, and *)
(* the handler has counted (cpu.go's Step and handleInterrupt, execute.go, *)
(* adc and sbc).                                                           *)
THEOREM ProgramsComputeRight == ProgramsSpec => []ProgramsRight
<1>1. ProgramsInv => ProgramsRight
    BY EndedOnItsWay DEF ProgramsRight
<1>. QED BY <1>1, ProgramsInvStarts, ProgramsInvKept, PTL DEF ProgramsSpec

(* And each takes the cycles of its instructions, with those of branches   *)
(* taken and pages crossed, and of the interrupt (execute.go's cycles).    *)
THEOREM ProgramsTakeTheirTime == ProgramsSpec => []CyclesTold
<1>1. ProgramsInv => CyclesTold
    BY EndedOnItsWay DEF CyclesTold
<1>. QED BY <1>1, ProgramsInvStarts, ProgramsInvKept, PTL DEF ProgramsSpec
=============================================================================
