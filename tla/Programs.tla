------------------------------ MODULE Programs ------------------------------
(***************************************************************************)
(* Programs on the 6502 of Instructions: each computes something with a    *)
(* meaning of its own, with a non-maskable interrupt at no or any one of   *)
(* its instructions.  What a whole program leaves in memory and how many   *)
(* cycles it took is compared with that meaning.                           *)
(*                                                                         *)
(* The programs are no part of the simulator; they are the textbook uses   *)
(* of the instructions: multi-byte arithmetic, comparison, multiplication, *)
(* copying, delay loops, subroutines.                                      *)
(***************************************************************************)
EXTENDS Instructions, Sequences, FiniteSets

CONSTANTS
    Words,          \* operands of the binary programs
    Decimals        \* operands of the decimal ones, four digits each

ASSUME OperandsAssumption == Words \cup Decimals \subseteq UInt16

VARIABLE job    \* the program that runs, its operands and the NMI's fate

programVars == <<core, job>>

----------------------------------------------------------------------------
(* Where things are.  a, b and r are words, high byte first.               *)
A == 16
B == 18
R == 20
Saved == 22
Copied == 32
NmiCount == 48
BrkCount == 49
Pointer == 255                      \* its high byte is at 0
Source == 764 .. 771
Vector == 1279                      \* of JMP (Vector)
Stack == (503 .. 511) \cup {256, 257}
ProgramCells ==
    {0, 255, NmiCount, BrkCount, Vector, 1024, 1280} \cup (A .. Saved)
        \cup (Copied .. Copied + 4) \cup Source \cup Stack
NmiAt == 2560
IrqAt == 2624
StopAt == 4096

(* Each program as it is listed by an assembler: the address of each       *)
(* instruction, its name, addressing mode and operand.                     *)
Chain(at, mode, carry, op) ==
    {<<at, mode, "imp", 0>>, <<at + 1, carry, "imp", 0>>, <<at + 2, "LDX", "imm", 1>>,
     <<at + 4, "LDA", "zpx", A>>, <<at + 6, op, "zpx", B>>, <<at + 8, "STA", "zpx", R>>,
     <<at + 10, "DEX", "imp", 0>>, <<at + 11, "BPL", "rel", 247>>, <<at + 13, "JMP", "abs", StopAt>>}

Texts ==
    [add |-> Chain(2048, "CLD", "CLC", "ADC"),
     decimalAdd |-> Chain(2080, "SED", "CLC", "ADC"),
     subtract |-> Chain(2112, "CLD", "SEC", "SBC"),
     decimalSubtract |-> Chain(2144, "SED", "SEC", "SBC"),
     compare |->
        {<<2176, "CLD", "imp", 0>>, <<2177, "LDX", "imm", 0>>, <<2179, "LDY", "imm", 0>>,
         <<2181, "LDA", "zp", A + 1>>, <<2183, "CMP", "zp", B + 1>>, <<2185, "LDA", "zp", A>>,
         <<2187, "SBC", "zp", B>>, <<2189, "BVC", "rel", 2>>, <<2191, "EOR", "imm", 128>>,
         <<2193, "BPL", "rel", 1>>, <<2195, "INX", "imp", 0>>, <<2196, "BCS", "rel", 1>>,
         <<2198, "INY", "imp", 0>>, <<2199, "STY", "zp", R>>, <<2201, "STX", "zp", R + 1>>,
         <<2203, "JMP", "abs", StopAt>>},
     multiply |->
        {<<2240, "CLD", "imp", 0>>, <<2241, "LDA", "imm", 0>>, <<2243, "LDX", "imm", 8>>,
         <<2245, "LSR", "zp", A + 1>>, <<2247, "BCC", "rel", 3>>, <<2249, "CLC", "imp", 0>>,
         <<2250, "ADC", "zp", B + 1>>, <<2252, "ROR", "acc", 0>>, <<2253, "ROR", "abs", A + 1>>,
         <<2256, "DEX", "imp", 0>>, <<2257, "BNE", "rel", 244>>, <<2259, "STA", "zp", A>>,
         <<2261, "JMP", "abs", StopAt>>},
     copy |->
        {<<2304, "LDX", "imm", 5>>, <<2306, "LDA", "indx", 250>>,
         <<2308, "STA", "zp", Copied + 4>>, <<2310, "LDY", "imm", 0>>,
         <<2312, "LDA", "indy", Pointer>>, <<2314, "STA", "absy", Copied>>,
         <<2317, "INY", "imp", 0>>, <<2318, "CPY", "imm", 4>>, <<2320, "BNE", "rel", 246>>,
         <<2322, "JMP", "abs", StopAt>>},
     delay |->
        {<<1532, "LDX", "zp", A + 1>>, <<1534, "DEX", "imp", 0>>, <<1535, "BNE", "rel", 253>>,
         <<1537, "NOP", "imp", 0>>, <<1538, "JMP", "abs", StopAt>>},
     call |->
        {<<2368, "LDA", "zp", A + 1>>, <<2370, "TSX", "imp", 0>>, <<2371, "STX", "zp", Saved>>,
         <<2373, "LDX", "imm", 1>>, <<2375, "TXS", "imp", 0>>, <<2376, "LDA", "zp", A + 1>>,
         <<2378, "JSR", "abs", 2416>>, <<2381, "STA", "zp", R>>, <<2383, "PHP", "imp", 0>>,
         <<2384, "PLA", "imp", 0>>, <<2385, "STA", "zp", R + 1>>, <<2387, "LDX", "zp", Saved>>,
         <<2389, "TXS", "imp", 0>>, <<2390, "JMP", "abs", StopAt>>},
     subroutine |->
        {<<2416, "PHP", "imp", 0>>, <<2417, "PHA", "imp", 0>>, <<2418, "LDA", "imm", 85>>,
         <<2420, "SEC", "imp", 0>>, <<2421, "SED", "imp", 0>>, <<2422, "SEI", "imp", 0>>,
         <<2423, "CLV", "imp", 0>>, <<2424, "PLA", "imp", 0>>, <<2425, "PLP", "imp", 0>>,
         <<2426, "RTS", "imp", 0>>},
     merge |->
        {<<2432, "LDA", "zp", A + 1>>, <<2434, "AND", "zp", B + 1>>, <<2436, "STA", "zp", R>>,
         <<2438, "LDA", "zp", B + 1>>, <<2440, "EOR", "imm", 255>>, <<2442, "AND", "zp", B>>,
         <<2444, "ORA", "zp", R>>, <<2446, "STA", "zp", R>>, <<2448, "LDY", "imm", 7>>,
         <<2450, "BIT", "abs", B + 1>>, <<2453, "JMP", "ind", Vector>>},
     merged |->
        {<<1600, "STY", "zp", R + 1>>, <<1602, "PHP", "imp", 0>>, <<1603, "PLA", "imp", 0>>,
         <<1604, "STA", "zp", A>>, <<1606, "JMP", "abs", StopAt>>},
     strayed |->
        {<<1856, "JMP", "abs", StopAt>>},
     trap |->
        {<<2496, "SEC", "imp", 0>>, <<2497, "CLI", "imp", 0>>, <<2498, "BRK", "imp", 0>>,
         <<2499, "INX", "imp", 0>>, <<2500, "BCS", "rel", 2>>, <<2502, "DEC", "zp", BrkCount>>,
         <<2504, "STX", "zp", R>>, <<2506, "JMP", "abs", StopAt>>},
     double |->
        {<<2528, "LDX", "imm", 1>>, <<2530, "ASL", "zpx", A>>, <<2532, "ROL", "zp", A>>,
         <<2534, "LDA", "zp", A + 1>>, <<2536, "BNE", "rel", 2>>, <<2538, "DEC", "zp", A>>,
         <<2540, "DEC", "abs", A + 1>>, <<2543, "JMP", "abs", StopAt>>},
     onBRK |->
        {<<2624, "INC", "zp", BrkCount>>, <<2626, "RTI", "imp", 0>>},
     onNMI |->
        {<<2560, "PHA", "imp", 0>>, <<2561, "TXA", "imp", 0>>, <<2562, "PHA", "imp", 0>>,
         <<2563, "TYA", "imp", 0>>, <<2564, "PHA", "imp", 0>>, <<2565, "SED", "imp", 0>>,
         <<2566, "CLC", "imp", 0>>, <<2567, "LDA", "zp", NmiCount>>, <<2569, "ADC", "imm", 1>>,
         <<2571, "STA", "zp", NmiCount>>, <<2573, "LDX", "imm", 170>>,
         <<2575, "LDY", "imm", 170>>, <<2577, "PLA", "imp", 0>>, <<2578, "TAY", "imp", 0>>,
         <<2579, "PLA", "imp", 0>>, <<2580, "TAX", "imp", 0>>, <<2581, "PLA", "imp", 0>>,
         <<2582, "RTI", "imp", 0>>}]

(* Where the programs start that run on their own. *)
Origins ==
    [add |-> 2048, decimalAdd |-> 2080, subtract |-> 2112, decimalSubtract |-> 2144,
     compare |-> 2176, multiply |-> 2240, copy |-> 2304, delay |-> 1532, call |-> 2368,
     merge |-> 2432, trap |-> 2496, double |-> 2528]

Listing == UNION {Texts[prog] : prog \in DOMAIN Texts}
Row(line) == [name |-> line[2], mode |-> line[3], arg |-> line[4]]
ProgramCode ==
    LET lines == Listing
    IN  [at \in {line[1] : line \in lines} |-> Row(CHOOSE line \in lines : line[1] = at)]

(* The digits of a word in BCD. *)
Digit4(w, unit) == (w \div unit) % 16

ASSUME ProgramsAssumption ==
    /\ \A line \in Listing : line[1] \in DOMAIN Code /\ Code[line[1]] = Row(line)
    /\ ProgramCells \subseteq Cells
    /\ NmiEntry = NmiAt /\ IrqEntry = IrqAt
    /\ \A w \in Decimals : \A unit \in {1, 16, 256, 4096} : Digit4(w, unit) <= 9

----------------------------------------------------------------------------
(* Memory before a program runs with operands a and b. *)
Bytes16(at, w) == {<<at, w \div 256>>, <<at + 1, w % 256>>}
LowFirst(at, w) == {<<at, w % 256>>, <<(at + 1) % 256, w \div 256>>}
Fixed == {<<NmiCount, 9>>, <<Vector, 64>>, <<1024, 6>>, <<Vector + 1, 7>>}

Loaded(a, b) ==
    LET told == Bytes16(A, a) \cup Bytes16(B, b) \cup LowFirst(Pointer, a) \cup Fixed
                    \cup {<<c, c % 256>> : c \in Source}
    IN  [c \in Cells |-> IF \E d \in told : d[1] = c THEN (CHOOSE d \in told : d[1] = c)[2] ELSE 0]

Idle == [prog |-> "none", a |-> 0, b |-> 0, p |-> {}, nmi |-> "none"]
AtRest == [A |-> 0, X |-> 0, Y |-> 0, SP |-> 255, PC |-> StopAt, P |-> {}, cycles |-> 0,
           mem |-> Loaded(0, 0)]

Binary == {"add", "subtract", "compare", "merge"}
Decimal == {"decimalAdd", "decimalSubtract"}

Jobs(nmi) ==
    LET of(progs, as, bs, ps) == [prog : progs, a : as, b : bs, p : ps, nmi : {nmi}]
    IN  of(Binary, Words, Words, {{}})
            \cup of(Decimal, Decimals, Decimals, {{}})
            \cup of({"multiply"}, {w % 256 : w \in Words}, {w % 256 : w \in Words}, {{}})
            \cup of({"double"}, Words, {0}, {{}})
            \cup of({"copy"}, {764, 766}, {0}, {{}})
            \cup of({"delay"}, {1, 2, 9}, {0}, {{}})
            \cup of({"call"}, {0, 129}, {0}, {{}, {"C", "D", "V"}, {"I"}})
            \cup of({"trap"}, {0}, {0}, {{}, {"D"}})

Start(j) ==
    /\ job = Idle
    /\ job' = j
    /\ core' = [AtRest EXCEPT !.PC = Origins[j.prog], !.P = j.p, !.mem = Loaded(j.a, j.b)]

Running == job # Idle /\ core.PC # StopAt
Ended == job # Idle /\ core.PC = StopAt

RunInstruction ==
    /\ Running
    /\ ExecuteInstruction
    /\ UNCHANGED job

Interrupt ==
    /\ Running
    /\ job.nmi = "due"
    /\ ServeNMI
    /\ job' = [job EXCEPT !.nmi = "served"]

Collect ==
    /\ Ended
    /\ job' = Idle
    /\ core' = AtRest

ProgramsInit == core = AtRest /\ job = Idle

ProgramsNext ==
    \/ \E nmi \in {"none", "due"} : \E j \in Jobs(nmi) : Start(j)
    \/ RunInstruction \/ Interrupt \/ Collect

ProgramsSpec == ProgramsInit /\ [][ProgramsNext]_programVars

----------------------------------------------------------------------------
(* What the programs mean. *)
Cell(at) == core.mem[at]
WordAt(at) == 256 * Cell(at) + Cell(at + 1)
Signed(w) == IF w < 32768 THEN w ELSE w - 65536
Fits(n) == n \in -32768 .. 32767
Digits4(w) == Digit4(w, 1) + 10 * Digit4(w, 16) + 100 * Digit4(w, 256) + 1000 * Digit4(w, 4096)
Bits(v) == {w \in {1, 2, 4, 8, 16, 32, 64, 128} : HasBit(v, w)}
Has(flag) == flag \in core.P

SumLeft(a, b) ==
    /\ WordAt(R) = (a + b) % 65536
    /\ Has("C") <=> a + b >= 65536
    /\ Has("V") <=> ~Fits(Signed(a) + Signed(b))

DecimalSumLeft(a, b) ==
    /\ Digits4(WordAt(R)) = (Digits4(a) + Digits4(b)) % 10000
    /\ Has("C") <=> Digits4(a) + Digits4(b) >= 10000

DifferenceLeft(a, b) ==
    /\ WordAt(R) = (a - b) % 65536
    /\ Has("C") <=> a >= b
    /\ Has("V") <=> ~Fits(Signed(a) - Signed(b))

DecimalDifferenceLeft(a, b) ==
    /\ Digits4(WordAt(R)) = (Digits4(a) - Digits4(b)) % 10000
    /\ Has("C") <=> a >= b

OrderLeft(a, b) ==
    /\ Cell(R) = IF a < b THEN 1 ELSE 0
    /\ Cell(R + 1) = IF Signed(a) < Signed(b) THEN 1 ELSE 0

ProductLeft(a, b) == WordAt(A) = a * b

DoubleLeft(a) ==
    /\ WordAt(A) = (2 * a - 1) % 65536
    /\ Has("C") <=> a >= 32768

CopyLeft(a) ==
    /\ \A k \in 0 .. 3 : Cell(Copied + k) = (a + k) % 256
    /\ Cell(Copied + 4) = a % 256

MergeLeft(a, b) ==
    LET m == Bits(b % 256)
        r == (Bits(a % 256) \cap m) \cup (Bits(b \div 256) \ m)
    IN  /\ Bits(Cell(R)) = r
        /\ Cell(R + 1) = 7
        /\ FlagsOf(Cell(A)) = {f \in {"Z"} : r \cap m = {}} \cup {f \in {"V"} : 64 \in m}
                                \cup {f \in {"N"} : 128 \in m}

CallLeft(a) ==
    /\ Cell(R) = a
    /\ FlagsOf(Cell(R + 1)) = SetZN(job.p, a)
    /\ core.SP = 255

TrapLeft ==
    /\ Cell(BrkCount) = 1 /\ Cell(R) = 0
    /\ core.P = SetZN(job.p \cup {"C"}, 0) \ {"Z"}

Meaning(a, b) ==
    /\ job.prog = "add" => SumLeft(a, b)
    /\ job.prog = "decimalAdd" => DecimalSumLeft(a, b)
    /\ job.prog = "subtract" => DifferenceLeft(a, b)
    /\ job.prog = "decimalSubtract" => DecimalDifferenceLeft(a, b)
    /\ job.prog = "compare" => OrderLeft(a, b)
    /\ job.prog = "multiply" => ProductLeft(a, b)
    /\ job.prog = "double" => DoubleLeft(a)
    /\ job.prog = "copy" => CopyLeft(a)
    /\ job.prog = "merge" => MergeLeft(a, b)
    /\ job.prog = "call" => CallLeft(a)
    /\ job.prog = "trap" => TrapLeft
    /\ job.prog = "delay" => core.X = 0

One(condition) == IF condition THEN 1 ELSE 0

Told(a, b) ==
    [add |-> 42, subtract |-> 42, decimalAdd |-> 42, decimalSubtract |-> 42,
     compare |-> 36 + One(~Fits(Signed(a) - Signed(b))) + One(Signed(a) < Signed(b)) + One(a < b),
     multiply |-> 144 + 4 * Cardinality(Bits(a)),
     double |-> IF (2 * a) % 256 = 0 THEN 32 ELSE 28,
     copy |-> 83 + Cardinality({k \in 0 .. 3 : (a + k) \div 256 # a \div 256}),
     delay |-> 6 + 6 * a,
     merge |-> 50, call |-> 72, trap |-> 31]

(* A program leaves what it is meant to compute, for every operand and     *)
(* with an interrupt handler that itself computes, in decimal, between any *)
(* two of its instructions; and the handler did its work (cpu.go's Step    *)
(* and handleInterrupt, execute.go's dispatch, adc and sbc).               *)
ProgramsRight ==
    Ended =>
        /\ Meaning(job.a, job.b)
        /\ Cell(NmiCount) = IF job.nmi = "served" THEN 16 ELSE 9

(* A program takes the cycles of its instructions on a 6502, with one more *)
(* for each branch taken, each branch to another page and each read whose  *)
(* indexed address crosses a page; an NMI adds those of its handler and 7. *)
(* Every timing of the simulator is counted in these cycles.               *)
CyclesTold ==
    Ended => core.cycles = Told(job.a, job.b)[job.prog] + IF job.nmi = "served" THEN 58 ELSE 0

(* Types. *)
ProgramsTypeOK ==
    /\ CoreTypeOK
    /\ job \in [prog : DOMAIN Origins \cup {"none"}, a : UInt16, b : UInt16, p : SUBSET Flags,
                nmi : {"none", "due", "served"}]
=============================================================================
