--------------------------------- MODULE Alu ---------------------------------
(***************************************************************************)
(* internal/cpu/execute.go: addition and subtraction of the 6502, binary   *)
(* and decimal, its bitwise logic and the flags they set.  A byte is its   *)
(* number; P is the set of the flags among C, Z, I, D, V and N that are 1. *)
(***************************************************************************)
EXTENDS Integers

UInt8 == 0 .. 255
Flags == {"C", "Z", "I", "D", "V", "N"}

SetFlag(p, flag, on) == IF on THEN p \cup {flag} ELSE p \ {flag}

Bit7(v) == v >= 128

SetZN(p, v) == SetFlag(SetFlag(p, "Z", v = 0), "N", Bit7(v))

Carry(p) == IF "C" \in p THEN 1 ELSE 0

Low(v) == v % 16
High(v) == v - (v % 16)

(* a + m gives r in eight bits: two's complement overflow. *)
Overflows(a, m, r) == Bit7(a) = Bit7(m) /\ Bit7(a) # Bit7(r)

----------------------------------------------------------------------------
(* adc without D; sbc's flags, and its result without D, are those of      *)
(* adding the complement.                                                  *)
AddBinary(a, m, p) ==
    LET sum == a + m + Carry(p)
        r   == sum % 256
    IN  [a |-> r,
         p |-> SetZN(SetFlag(SetFlag(p, "V", Overflows(a, m, r)), "C", sum > 255), r)]

(* The low digits with the carry: a decimal carry shows as 16. *)
AddDigits(a, m, c) ==
    LET al == Low(a) + Low(m) + c
    IN  IF al >= 10 THEN ((al + 6) % 16) + 16 ELSE al

(* Faulty variant: a carry is seen before the high digits are adjusted. *)
AddDecimalEarly(a, m, p) ==
    LET sum   == High(a) + High(m) + AddDigits(a, m, Carry(p))
        fixed == IF sum >= 160 THEN sum + 96 ELSE sum
        nv    == SetFlag(SetFlag(p, "N", Bit7(sum % 256)), "V", Overflows(a, m, sum % 256))
    IN  [a |-> fixed % 256,
         p |-> SetFlag(SetFlag(nv, "C", sum >= 256), "Z", (a + m + Carry(p)) % 256 = 0)]

(* adc with D: Z is the binary sum's, N and V are taken between the two    *)
(* adjustments.                                                            *)
AddDecimal(a, m, p) ==
    LET sum   == High(a) + High(m) + AddDigits(a, m, Carry(p))
        fixed == IF sum >= 160 THEN sum + 96 ELSE sum
        nv    == SetFlag(SetFlag(p, "N", Bit7(sum % 256)), "V", Overflows(a, m, sum % 256))
    IN  [a |-> fixed % 256,
         p |-> SetFlag(SetFlag(nv, "C", fixed >= 256), "Z", (a + m + Carry(p)) % 256 = 0)]

Adc(a, m, p) == IF "D" \in p THEN AddDecimal(a, m, p) ELSE AddBinary(a, m, p)

(* The low digits less the borrow: a decimal borrow shows as -16. *)
SubDigits(a, m, borrow) ==
    LET al == Low(a) - Low(m) - borrow
    IN  IF al < 0 THEN ((al - 6) % 16) - 16 ELSE al

SubDecimal(a, m, borrow) ==
    LET diff == High(a) - High(m) + SubDigits(a, m, borrow)
    IN  (IF diff < 0 THEN diff - 96 ELSE diff) % 256

(* sbc: all flags are binary; only the digits are adjusted. *)
Sbc(a, m, p) ==
    LET binary == AddBinary(a, 255 - m, p)
    IN  IF "D" \in p
        THEN [a |-> SubDecimal(a, m, 1 - Carry(p)), p |-> binary.p]
        ELSE binary

(* compare *)
Compare(reg, m, p) == SetZN(SetFlag(p, "C", reg >= m), (reg - m) % 256)

----------------------------------------------------------------------------
(* Bitwise logic: what two bytes have in common counts twice in their sum. *)
HasBit(v, weight) == (v \div weight) % 2 = 1

And(a, m) ==
    LET both(weight) == IF HasBit(a, weight) /\ HasBit(m, weight) THEN weight ELSE 0
    IN  both(1) + both(2) + both(4) + both(8) + both(16) + both(32) + both(64) + both(128)

Or(a, m) == a + m - And(a, m)
Xor(a, m) == a + m - 2 * And(a, m)
=============================================================================
