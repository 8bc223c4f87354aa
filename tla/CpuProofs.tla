------------------------------ MODULE CpuProofs ------------------------------
(***************************************************************************)
(* The 6502 core.  Its adder for all operands: adc, sbc and compare are    *)
(* addition, subtraction and comparison of numbers, binary and decimal.    *)
(* Its stack page for all sizes: whatever nests, every return finds what   *)
(* was pushed for it.  Its instructions for every program: what each       *)
(* leaves in registers and memory and how long it takes.  Its pace: for    *)
(* every batch size, longest step, cost a batch may have within its time   *)
(* and lateness of the host's wake-ups, RunCPU keeps it.  The models'      *)
(* bounds play no part.                                                    *)
(***************************************************************************)
EXTENDS MCCpu, CommonProofs, SequenceTheorems, TLAPS

Digit == 0 .. 9

(* The byte of two decimal digits. *)
BCD(h, l) == 16 * h + l

Borrow(p) == 1 - Carry(p)

Signed8(v) == IF v < 128 THEN v ELSE v - 256

----------------------------------------------------------------------------
(* Flags. *)
LEMMA CarryType == ASSUME NEW p PROVE Carry(p) \in {0, 1}
  BY DEF Carry

LEMMA SetFlagTold ==
    ASSUME NEW p, NEW flag, NEW other, NEW on \in BOOLEAN
    PROVE  /\ flag \in SetFlag(p, flag, on) <=> on
           /\ other # flag => (other \in SetFlag(p, flag, on) <=> other \in p)
  BY DEF SetFlag

LEMMA SetZNTold ==
    ASSUME NEW p, NEW v \in UInt8
    PROVE  /\ "Z" \in SetZN(p, v) <=> v = 0
           /\ "N" \in SetZN(p, v) <=> v >= 128
           /\ "C" \in SetZN(p, v) <=> "C" \in p
           /\ "V" \in SetZN(p, v) <=> "V" \in p
           /\ "D" \in SetZN(p, v) <=> "D" \in p
  BY DEF SetZN, SetFlag, Bit7, UInt8

(* A sum of two bytes and a carry, or a difference of two bytes, in eight  *)
(* bits.                                                                   *)
LEMMA SumInEightBits ==
    ASSUME NEW n \in 0 .. 511
    PROVE  n % 256 = IF n > 255 THEN n - 256 ELSE n
  OBVIOUS

LEMMA SumOfBytes ==
    ASSUME NEW a \in UInt8, NEW m \in UInt8, NEW c \in {0, 1}
    PROVE  a + m + c \in 0 .. 511
  BY DEF UInt8

LEMMA DifferenceInEightBits ==
    ASSUME NEW n \in -256 .. 255
    PROVE  n % 256 = IF n < 0 THEN n + 256 ELSE n
  OBVIOUS

(* adc in binary is addition of bytes with the carry as the ninth bit; V   *)
(* tells that the signed sum does not fit, Z and N tell of the result, and *)
(* the mode stays binary (execute.go's adc without D).                     *)
THEOREM AdcBinary ==
    ASSUME NEW a \in UInt8, NEW m \in UInt8, NEW p, "D" \notin p
    PROVE  LET r == Adc(a, m, p)
           IN  /\ r.a \in UInt8
               /\ r.a + 256 * Carry(r.p) = a + m + Carry(p)
               /\ "V" \in r.p <=> Signed8(a) + Signed8(m) + Carry(p) \notin -128 .. 127
               /\ "Z" \in r.p <=> r.a = 0
               /\ "N" \in r.p <=> r.a >= 128
               /\ "D" \notin r.p
  <1> DEFINE sum == a + m + Carry(p)
             r   == sum % 256
             q   == SetFlag(SetFlag(p, "V", Overflows(a, m, r)), "C", sum > 255)
  <1>1. sum \in 0 .. 511 /\ Carry(p) \in {0, 1}
    <2>1. Carry(p) \in {0, 1}
      BY CarryType
    <2> QED BY <2>1, SumOfBytes
  <1>2. r \in UInt8 /\ sum = r + 256 * (IF sum > 255 THEN 1 ELSE 0)
    <2>1. sum % 256 = IF sum > 255 THEN sum - 256 ELSE sum
      <3> HIDE DEF sum
      <3> QED BY <1>1, SumInEightBits
    <2> HIDE DEF sum
    <2> QED BY <1>1, <2>1 DEF UInt8
  <1>3. Overflows(a, m, r) <=> Signed8(a) + Signed8(m) + Carry(p) \notin -128 .. 127
    <2> HIDE DEF r
    <2>1. CASE a < 128 /\ m < 128
      BY <1>1, <1>2, <2>1 DEF Overflows, Bit7, Signed8, UInt8
    <2>2. CASE a >= 128 /\ m >= 128
      BY <1>1, <1>2, <2>2 DEF Overflows, Bit7, Signed8, UInt8
    <2>3. CASE (a < 128) # (m < 128)
      BY <1>1, <1>2, <2>3 DEF Overflows, Bit7, Signed8, UInt8
    <2> QED BY <2>1, <2>2, <2>3 DEF UInt8
  <1>4. /\ "C" \in q <=> sum > 255
        /\ "V" \in q <=> Overflows(a, m, r)
        /\ "D" \notin q
    BY DEF SetFlag
  <1>5. Adc(a, m, p) = [a |-> r, p |-> SetZN(q, r)]
    BY DEF Adc, AddBinary
  <1>6. Carry(SetZN(q, r)) = IF sum > 255 THEN 1 ELSE 0
    BY <1>2, <1>4, SetZNTold DEF Carry
  <1> HIDE DEF r, q
  <1> QED
    BY <1>2, <1>3, <1>4, <1>5, <1>6, SetZNTold

(* adc in decimal, of two bytes of two decimal digits each, is addition of *)
(* the numbers they spell, with the carry as the third digit; the mode     *)
(* stays decimal (execute.go's adc with D).                                *)
THEOREM AdcDecimal ==
    ASSUME NEW ah \in Digit, NEW al \in Digit, NEW mh \in Digit, NEW ml \in Digit,
           NEW p, "D" \in p
    PROVE  LET r == Adc(BCD(ah, al), BCD(mh, ml), p)
           IN  /\ \E h, l \in Digit :
                     /\ r.a = BCD(h, l)
                     /\ 10 * h + l + 100 * Carry(r.p)
                            = (10 * ah + al) + (10 * mh + ml) + Carry(p)
               /\ "D" \in r.p
  <1> DEFINE a     == BCD(ah, al)
             m     == BCD(mh, ml)
             low   == AddDigits(a, m, Carry(p))
             sum   == High(a) + High(m) + low
             fixed == IF sum >= 160 THEN sum + 96 ELSE sum
             nv    == SetFlag(SetFlag(p, "N", Bit7(sum % 256)), "V", Overflows(a, m, sum % 256))
             q     == SetFlag(SetFlag(nv, "C", fixed >= 256), "Z",
                              (a + m + Carry(p)) % 256 = 0)
             out   == IF al + ml + Carry(p) >= 10 THEN 1 ELSE 0
             l     == al + ml + Carry(p) - 10 * out
             over  == IF ah + mh + out >= 10 THEN 1 ELSE 0
             h     == ah + mh + out - 10 * over
  <1>1. Carry(p) \in {0, 1}
    BY CarryType
  <1>2. Low(a) = al /\ Low(m) = ml /\ High(a) = 16 * ah /\ High(m) = 16 * mh
    BY DEF Low, High, BCD, Digit
  <1>3. l \in Digit /\ h \in Digit /\ out \in {0, 1} /\ over \in {0, 1}
    BY <1>1 DEF Digit
  <1>4. low = 16 * out + l
    BY <1>1, <1>2 DEF AddDigits, Digit
  <1>5. fixed = 256 * over + 16 * h + l
    <2>1. sum = 16 * (ah + mh + out) + l
      BY <1>2, <1>3, <1>4 DEF Digit
    <2>2. sum >= 160 <=> ah + mh + out >= 10
      BY <1>3, <2>1 DEF Digit
    <2> HIDE DEF sum, l, out
    <2> QED
      BY <1>3, <2>1, <2>2 DEF Digit
  <1>6. fixed % 256 = BCD(h, l) /\ (fixed >= 256 <=> over = 1)
    <2> HIDE DEF fixed, h, l, over
    <2> QED BY <1>3, <1>5 DEF BCD, Digit
  <1>7. ("C" \in q <=> fixed >= 256) /\ "D" \in q
    BY DEF SetFlag
  <1>8. Adc(a, m, p) = [a |-> fixed % 256, p |-> q]
    BY DEF Adc, AddDecimal
  <1>9. Carry(q) = over
    <2> HIDE DEF q, fixed, over
    <2> QED BY <1>3, <1>6, <1>7 DEF Carry
  <1>10. 10 * h + l + 100 * over = (10 * ah + al) + (10 * mh + ml) + Carry(p)
    BY <1>1, <1>3 DEF Digit
  <1> HIDE DEF a, m, fixed, q, h, l, over
  <1>11. Adc(a, m, p).a = BCD(h, l) /\ Adc(a, m, p).p = q
    BY <1>6, <1>8
  <1> QED
    BY <1>3, <1>7, <1>9, <1>10, <1>11 DEF a, m

----------------------------------------------------------------------------
(* sbc in binary is subtraction of bytes, C telling that nothing had to be *)
(* borrowed; V tells that the signed difference does not fit (execute.go's *)
(* sbc without D).                                                         *)
THEOREM SbcBinary ==
    ASSUME NEW a \in UInt8, NEW m \in UInt8, NEW p, "D" \notin p
    PROVE  LET r == Sbc(a, m, p)
           IN  /\ r.a \in UInt8
               /\ r.a - 256 * Borrow(r.p) = a - m - Borrow(p)
               /\ "V" \in r.p <=> Signed8(a) - Signed8(m) - Borrow(p) \notin -128 .. 127
               /\ "Z" \in r.p <=> r.a = 0
               /\ "N" \in r.p <=> r.a >= 128
               /\ "D" \notin r.p
  <1> DEFINE inv == 255 - m
  <1>1. inv \in UInt8 /\ Signed8(inv) = -1 - Signed8(m)
    BY DEF UInt8, Signed8
  <1>2. Sbc(a, m, p) = Adc(a, inv, p)
    BY DEF Sbc, Adc
  <1>3. Carry(p) \in {0, 1} /\ Carry(Adc(a, inv, p).p) \in {0, 1}
    BY CarryType
  <1>4. Signed8(a) \in -128 .. 127 /\ Signed8(m) \in -128 .. 127
    BY DEF UInt8, Signed8
  <1>5. Signed8(a) + Signed8(inv) + Carry(p) = Signed8(a) - Signed8(m) - Borrow(p)
    <2> DEFINE sa == Signed8(a)
               sm == Signed8(m)
               c  == Carry(p)
    <2>1. sa \in Int /\ sm \in Int /\ c \in Int
      BY <1>3, <1>4
    <2> HIDE DEF sa, sm, c
    <2>2. sa + (-1 - sm) + c = sa - sm - (1 - c)
      BY <2>1
    <2> QED BY <1>1, <2>2 DEF sa, sm, c, Borrow
  <1>6. /\ Adc(a, inv, p).a \in UInt8
        /\ Adc(a, inv, p).a + 256 * Carry(Adc(a, inv, p).p) = a + inv + Carry(p)
        /\ "V" \in Adc(a, inv, p).p
               <=> Signed8(a) - Signed8(m) - Borrow(p) \notin -128 .. 127
        /\ "Z" \in Adc(a, inv, p).p <=> Adc(a, inv, p).a = 0
        /\ "N" \in Adc(a, inv, p).p <=> Adc(a, inv, p).a >= 128
        /\ "D" \notin Adc(a, inv, p).p
    <2> HIDE DEF inv
    <2> QED BY <1>1, <1>5, AdcBinary
  <1>7. Adc(a, inv, p).a - 256 * Borrow(Adc(a, inv, p).p) = a - m - Borrow(p)
    <2> DEFINE r == Adc(a, inv, p).a
               c == Carry(p)
               d == Carry(Adc(a, inv, p).p)
    <2>1. r \in UInt8 /\ c \in {0, 1} /\ d \in {0, 1} /\ r + 256 * d = a + inv + c
      BY <1>3, <1>6
    <2> HIDE DEF r, c, d
    <2>2. r - 256 * (1 - d) = a - m - (1 - c)
      BY <2>1 DEF UInt8
    <2> QED BY <2>2 DEF r, c, d, Borrow
  <1> HIDE DEF inv
  <1> QED
    BY <1>2, <1>6, <1>7

(* sbc in decimal, of two bytes of two decimal digits each, is subtraction *)
(* of the numbers they spell: its C, though taken from the binary          *)
(* difference, is the decimal borrow (execute.go's sbc with D).            *)
THEOREM SbcDecimal ==
    ASSUME NEW ah \in Digit, NEW al \in Digit, NEW mh \in Digit, NEW ml \in Digit,
           NEW p, "D" \in p
    PROVE  LET r == Sbc(BCD(ah, al), BCD(mh, ml), p)
           IN  /\ \E h, l \in Digit :
                     /\ r.a = BCD(h, l)
                     /\ 10 * h + l - 100 * Borrow(r.p)
                            = (10 * ah + al) - (10 * mh + ml) - Borrow(p)
               /\ "D" \in r.p
  <1> DEFINE a    == BCD(ah, al)
             m    == BCD(mh, ml)
             bin  == a + (255 - m) + Carry(p)
             q    == AddBinary(a, 255 - m, p).p
             low  == SubDigits(a, m, 1 - Carry(p))
             diff == High(a) - High(m) + low
             out  == IF al - ml - (1 - Carry(p)) < 0 THEN 1 ELSE 0
             l    == al - ml - (1 - Carry(p)) + 10 * out
             over == IF ah - mh - out < 0 THEN 1 ELSE 0
             h    == ah - mh - out + 10 * over
  <1>1. Carry(p) \in {0, 1}
    BY CarryType
  <1>2. Low(a) = al /\ Low(m) = ml /\ High(a) = 16 * ah /\ High(m) = 16 * mh
    BY DEF Low, High, BCD, Digit
  <1>3. l \in Digit /\ h \in Digit /\ out \in {0, 1} /\ over \in {0, 1}
    BY <1>1 DEF Digit
  <1>4. low = l - 16 * out
    BY <1>1, <1>2 DEF SubDigits, Digit
  <1>5. diff = 16 * (ah - mh - out) + l /\ (diff < 0 <=> over = 1)
    <2> HIDE DEF l, out, low
    <2> QED BY <1>2, <1>3, <1>4 DEF Digit
  <1>6. SubDecimal(a, m, 1 - Carry(p)) = BCD(h, l)
    <2>1. (IF diff < 0 THEN diff - 96 ELSE diff) = 16 * h + l - 256 * over
      <3> HIDE DEF diff, l, out
      <3> QED BY <1>3, <1>5 DEF Digit
    <2>2. 16 * h + l - 256 * over \in -256 .. 255
      <3> HIDE DEF h, l, over
      <3> QED BY <1>3 DEF Digit
    <2>3. (16 * h + l - 256 * over) % 256 = 16 * h + l
      <3> HIDE DEF h, l, over
      <3> QED BY <1>3, <2>2, DifferenceInEightBits DEF Digit
    <2>4. SubDecimal(a, m, 1 - Carry(p)) = (IF diff < 0 THEN diff - 96 ELSE diff) % 256
      BY DEF SubDecimal
    <2> HIDE DEF diff, h, l, over
    <2> QED BY <2>1, <2>3, <2>4 DEF BCD
  <1>7. "C" \in q <=> bin > 255
    <2> DEFINE r == bin % 256
               f == SetFlag(SetFlag(p, "V", Overflows(a, 255 - m, r)), "C", bin > 255)
    <2>1. r \in UInt8
      <3>1. bin \in 0 .. 511
        BY <1>1 DEF BCD, Digit
      <3> HIDE DEF bin
      <3> QED BY <3>1, SumInEightBits DEF UInt8
    <2>2. "C" \in f <=> bin > 255
      BY DEF SetFlag
    <2>3. q = SetZN(f, r)
      BY DEF AddBinary
    <2> HIDE DEF q, f, r, bin
    <2> QED BY <2>1, <2>2, <2>3, SetZNTold
  <1>8. "D" \in q
    BY DEF AddBinary, SetZN, SetFlag
  <1>9. bin > 255 <=> over = 0
    BY <1>1 DEF BCD, Digit
  <1>10. Borrow(q) = over
    <2> HIDE DEF q, over, bin
    <2> QED BY <1>3, <1>7, <1>9 DEF Borrow, Carry
  <1>11. 10 * h + l - 100 * over = (10 * ah + al) - (10 * mh + ml) - Borrow(p)
    BY <1>1, <1>3 DEF Digit, Borrow
  <1>12. Sbc(a, m, p).a = BCD(h, l) /\ Sbc(a, m, p).p = q
    BY <1>6 DEF Sbc
  <1> HIDE DEF a, m, q, h, l, over
  <1> QED
    BY <1>3, <1>8, <1>10, <1>11, <1>12 DEF a, m

(* compare tells the order of two bytes as unsigned numbers in C and Z     *)
(* (execute.go's compare).                                                 *)
THEOREM CompareTells ==
    ASSUME NEW reg \in UInt8, NEW m \in UInt8, NEW p
    PROVE  /\ "C" \in Compare(reg, m, p) <=> reg >= m
           /\ "Z" \in Compare(reg, m, p) <=> reg = m
  <1> DEFINE d == (reg - m) % 256
             q == SetFlag(p, "C", reg >= m)
  <1>1. d = IF reg - m < 0 THEN reg - m + 256 ELSE reg - m
    BY DifferenceInEightBits DEF UInt8
  <1>2. d \in UInt8 /\ (d = 0 <=> reg = m)
    BY <1>1 DEF UInt8
  <1>3. "C" \in q <=> reg >= m
    BY DEF SetFlag
  <1>4. Compare(reg, m, p) = SetZN(q, d)
    BY DEF Compare
  <1> HIDE DEF d, q
  <1> QED BY <1>2, <1>3, <1>4, SetZNTold

----------------------------------------------------------------------------
(* Two bytes added one after the other, the second time with the carry the *)
(* first left, are two words added, whatever else happened to the flags in *)
(* between: what the program "add" of Programs does, for all words.        *)
THEOREM WordSum ==
    ASSUME NEW ah \in UInt8, NEW al \in UInt8, NEW mh \in UInt8, NEW ml \in UInt8,
           NEW p, "D" \notin p, "C" \notin p,
           NEW q, "D" \notin q, "C" \in q <=> "C" \in Adc(al, ml, p).p
    PROVE  LET lo == Adc(al, ml, p)
               hi == Adc(ah, mh, q)
           IN  (256 * hi.a + lo.a) + 65536 * Carry(hi.p) = (256 * ah + al) + (256 * mh + ml)
  <1> DEFINE lo == Adc(al, ml, p)
             hi == Adc(ah, mh, q)
             x  == lo.a
             c  == Carry(lo.p)
             y  == hi.a
             d  == Carry(hi.p)
  <1>1. x \in UInt8 /\ x + 256 * c = al + ml + Carry(p)
    BY AdcBinary
  <1>2. y \in UInt8 /\ y + 256 * d = ah + mh + Carry(q)
    BY AdcBinary
  <1>3. Carry(p) = 0 /\ Carry(q) = c
    BY DEF Carry
  <1>4. c \in {0, 1} /\ d \in {0, 1}
    BY CarryType
  <1> HIDE DEF lo, hi, x, y, c, d
  <1>5. (256 * y + x) + 65536 * d = (256 * ah + al) + (256 * mh + ml)
    BY <1>1, <1>2, <1>3, <1>4 DEF UInt8
  <1> QED BY <1>5 DEF lo, hi, x, y, c, d

(* The same of two bytes of two decimal digits each: four-digit numbers.   *)
THEOREM DecimalWordSum ==
    ASSUME NEW a3 \in Digit, NEW a2 \in Digit, NEW a1 \in Digit, NEW a0 \in Digit,
           NEW m3 \in Digit, NEW m2 \in Digit, NEW m1 \in Digit, NEW m0 \in Digit,
           NEW p, "D" \in p, "C" \notin p,
           NEW q, "D" \in q, "C" \in q <=> "C" \in Adc(BCD(a1, a0), BCD(m1, m0), p).p
    PROVE  \E r3, r2, r1, r0 \in Digit :
               /\ Adc(BCD(a1, a0), BCD(m1, m0), p).a = BCD(r1, r0)
               /\ Adc(BCD(a3, a2), BCD(m3, m2), q).a = BCD(r3, r2)
               /\ 1000 * r3 + 100 * r2 + 10 * r1 + r0
                      + 10000 * Carry(Adc(BCD(a3, a2), BCD(m3, m2), q).p)
                      = (1000 * a3 + 100 * a2 + 10 * a1 + a0)
                        + (1000 * m3 + 100 * m2 + 10 * m1 + m0)
  <1> DEFINE lo == Adc(BCD(a1, a0), BCD(m1, m0), p)
             hi == Adc(BCD(a3, a2), BCD(m3, m2), q)
  <1>1. PICK r1 \in Digit, r0 \in Digit :
            /\ lo.a = BCD(r1, r0)
            /\ 10 * r1 + r0 + 100 * Carry(lo.p) = (10 * a1 + a0) + (10 * m1 + m0) + Carry(p)
    <2>1. /\ \E h, l \in Digit :
                /\ lo.a = BCD(h, l)
                /\ 10 * h + l + 100 * Carry(lo.p)
                       = (10 * a1 + a0) + (10 * m1 + m0) + Carry(p)
          /\ "D" \in lo.p
      BY AdcDecimal
    <2> QED BY <2>1, Zenon
  <1>2. PICK r3 \in Digit, r2 \in Digit :
            /\ hi.a = BCD(r3, r2)
            /\ 10 * r3 + r2 + 100 * Carry(hi.p) = (10 * a3 + a2) + (10 * m3 + m2) + Carry(q)
    <2>1. /\ \E h, l \in Digit :
                /\ hi.a = BCD(h, l)
                /\ 10 * h + l + 100 * Carry(hi.p)
                       = (10 * a3 + a2) + (10 * m3 + m2) + Carry(q)
          /\ "D" \in hi.p
      BY AdcDecimal
    <2> QED BY <2>1, Zenon
  <1>3. Carry(p) = 0 /\ Carry(q) = Carry(lo.p)
    BY DEF Carry
  <1>4. Carry(q) \in {0, 1} /\ Carry(hi.p) \in {0, 1}
    BY CarryType
  <1> HIDE DEF lo, hi
  <1>5. 1000 * r3 + 100 * r2 + 10 * r1 + r0 + 10000 * Carry(hi.p)
            = (1000 * a3 + 100 * a2 + 10 * a1 + a0) + (1000 * m3 + 100 * m2 + 10 * m1 + m0)
    BY <1>1, <1>2, <1>3, <1>4 DEF Digit
  <1> QED BY <1>1, <1>2, <1>5 DEF lo, hi

----------------------------------------------------------------------------
(* The stack page as a ring: what lies n bytes under the top.              *)
Place == 0 .. StackSize - 1
StackByte == 0 .. IF Page < 4 THEN 3 ELSE Page - 1
StackPage == [sp : Place, mem : [Place -> StackByte]]

Under(sp, n) == IF sp + 1 + n < StackSize THEN sp + 1 + n ELSE sp + 1 + n - StackSize

ByteAt(s, n) == s.mem[Under(s.sp, n)]
StackWord(s, n) == ByteAt(s, n + 1) * Page + ByteAt(s, n)

(* t is s with n more bytes on it. *)
Grown(s, t, n) == \A j \in 0 .. StackSize - 1 - n : ByteAt(t, j + n) = ByteAt(s, j)

LEMMA Neighbours ==
    ASSUME NEW sp \in Place
    PROVE  /\ Below(sp) = IF sp = 0 THEN StackSize - 1 ELSE sp - 1
           /\ Above(sp) = IF sp = StackSize - 1 THEN 0 ELSE sp + 1
           /\ Below(sp) \in Place /\ Above(sp) \in Place
           /\ Above(sp) = Under(sp, 0)
           /\ Under(Below(sp), 0) = sp
<1>1. StackSize \in Nat /\ StackSize > 0 /\ sp \in Nat /\ sp < StackSize
    BY StackAssumption DEF Place
<1>2. (sp + StackSize - 1) % StackSize = IF sp = 0 THEN StackSize - 1 ELSE sp - 1
  <2>1. CASE sp = 0
    BY <1>1, <2>1
  <2>2. CASE sp # 0
    <3>1. PICK q \in Nat : sp = q + 1
      BY <1>1, <2>2
    <3>2. (q + StackSize) % StackSize = q
      BY <1>1, <3>1
    <3>. QED BY <1>1, <3>1, <3>2
  <2>. QED BY <2>1, <2>2
<1>3. (sp + 1) % StackSize = IF sp = StackSize - 1 THEN 0 ELSE sp + 1
    BY <1>1
<1>. QED BY <1>1, <1>2, <1>3 DEF Below, Above, Under, Place

LEMMA Walking ==
    ASSUME NEW sp \in Place, NEW n \in Nat, n < StackSize
    PROVE  /\ Under(sp, n) \in Place
           /\ n + 1 < StackSize => /\ Under(Below(sp), n + 1) = Under(sp, n)
                                   /\ Under(Below(sp), n + 1) # sp
                                   /\ Under(Above(sp), n) = Under(sp, n + 1)
                                   /\ Under(Above(sp), n) # Above(sp)
<1>1. StackSize \in Nat /\ StackSize > 0 /\ sp \in Nat /\ sp < StackSize
    BY StackAssumption DEF Place
<1>2. PICK b, a : /\ b = Below(sp) /\ a = Above(sp)
                  /\ b = IF sp = 0 THEN StackSize - 1 ELSE sp - 1
                  /\ a = IF sp = StackSize - 1 THEN 0 ELSE sp + 1
    BY Neighbours
<1>3. Under(sp, n) \in Place
    BY <1>1 DEF Under, Place
<1>4. ASSUME n + 1 < StackSize
      PROVE  /\ Under(b, n + 1) = Under(sp, n) /\ Under(b, n + 1) # sp
             /\ Under(a, n) = Under(sp, n + 1) /\ Under(a, n) # a
    BY <1>1, <1>2, <1>4 DEF Under
<1>. QED BY <1>2, <1>3, <1>4

LEMMA Pushing ==
    ASSUME NEW s \in StackPage, NEW v \in StackByte
    PROVE  /\ Push(s, v) \in StackPage
           /\ ByteAt(Push(s, v), 0) = v
           /\ Grown(s, Push(s, v), 1)
<1>1. s.sp \in Place /\ s.mem \in [Place -> StackByte] /\ Below(s.sp) \in Place
    BY Neighbours DEF StackPage
<1>2. /\ Push(s, v).sp = Below(s.sp)
      /\ Push(s, v).mem = [s.mem EXCEPT ![s.sp] = v]
      /\ Push(s, v) \in StackPage
    BY <1>1 DEF Push, StackPage
<1>3. ByteAt(Push(s, v), 0) = v
    BY <1>1, <1>2, Neighbours DEF ByteAt
<1>4. ASSUME NEW j \in 0 .. StackSize - 1 - 1
      PROVE  ByteAt(Push(s, v), j + 1) = ByteAt(s, j)
  <2>1. j \in Nat /\ j + 1 < StackSize /\ j < StackSize
    BY StackAssumption
  <2>2. /\ Under(Below(s.sp), j + 1) = Under(s.sp, j) /\ Under(s.sp, j) \in Place
        /\ Under(Below(s.sp), j + 1) # s.sp
    BY <1>1, <2>1, Walking
  <2>. QED BY <1>1, <1>2, <2>2 DEF ByteAt
<1>. QED BY <1>2, <1>3, <1>4 DEF Grown

LEMMA Popping ==
    ASSUME NEW s \in StackPage
    PROVE  /\ Pop(s) \in StackPage
           /\ Top(s) = ByteAt(s, 0)
           /\ Grown(Pop(s), s, 1)
<1>1. s.sp \in Place /\ s.mem \in [Place -> StackByte] /\ Above(s.sp) \in Place
    BY Neighbours DEF StackPage
<1>2. 0 \in StackByte
    BY StackAssumption DEF StackByte
<1>3. /\ Pop(s).sp = Above(s.sp)
      /\ Pop(s).mem = [s.mem EXCEPT ![Above(s.sp)] = 0]
      /\ Pop(s) \in StackPage
    BY <1>1, <1>2 DEF Pop, StackPage
<1>4. Top(s) = ByteAt(s, 0)
    BY <1>1, Neighbours DEF Top, ByteAt
<1>5. ASSUME NEW j \in 0 .. StackSize - 1 - 1
      PROVE  ByteAt(s, j + 1) = ByteAt(Pop(s), j)
  <2>1. j \in Nat /\ j + 1 < StackSize /\ j < StackSize
    BY StackAssumption
  <2>2. /\ Under(Above(s.sp), j) = Under(s.sp, j + 1) /\ Under(Above(s.sp), j) \in Place
        /\ Under(Above(s.sp), j) # Above(s.sp)
    BY <1>1, <2>1, Walking
  <2>. QED BY <1>1, <1>3, <2>2 DEF ByteAt
<1>. QED BY <1>3, <1>4, <1>5 DEF Grown

LEMMA Growing ==
    ASSUME NEW s \in StackPage, NEW t \in StackPage, NEW u \in StackPage,
           NEW m \in Nat, NEW n \in Nat, Grown(s, t, m), Grown(t, u, n)
    PROVE  Grown(s, u, m + n)
<1> SUFFICES ASSUME NEW j \in 0 .. StackSize - 1 - (m + n)
             PROVE  ByteAt(u, j + (m + n)) = ByteAt(s, j)
    BY DEF Grown
<1>1. /\ j \in 0 .. StackSize - 1 - m /\ j + m \in 0 .. StackSize - 1 - n
      /\ (j + m) + n = j + (m + n)
    BY StackAssumption
<1>. QED BY <1>1 DEF Grown

(* The byte n under the top is one deeper once another is pushed.          *)
LEMMA Deeper ==
    ASSUME NEW s, NEW t, Grown(s, t, 1), NEW n \in Nat, n + 1 < StackSize
    PROVE  ByteAt(t, n + 1) = ByteAt(s, n)
<1>1. n \in 0 .. StackSize - 1 - 1
    BY StackAssumption
<1>. QED BY <1>1 DEF Grown

----------------------------------------------------------------------------
(* What is pushed and what is read of it.                                  *)
LEMMA TwoBytes ==
    ASSUME NEW a \in Addr
    PROVE  /\ a \div Page \in StackByte /\ a % Page \in StackByte
           /\ ((a \div Page) * Page) + (a % Page) = a
<1>1. /\ Page \in Nat /\ Page > 0 /\ Page * Page \in Nat
      /\ a \in Nat /\ a < Page * Page
    BY StackAssumption
<1>2. /\ a % Page \in Nat /\ a % Page < Page /\ a \div Page \in Nat
      /\ a = Page * (a \div Page) + (a % Page)
    BY <1>1
<1>3. PICK h \in Nat : h = a \div Page
    BY <1>2
<1>4. h < Page
  <2>1. SUFFICES ASSUME h >= Page
                 PROVE  FALSE
    BY <1>1, <1>3
  <2>2. Page * h >= Page * Page
    BY <1>1, <2>1
  <2>. QED BY <1>1, <1>2, <1>3, <2>2
<1>5. Page * h = h * Page
    BY <1>1
<1>. QED BY <1>1, <1>2, <1>3, <1>4, <1>5 DEF StackByte

LEMMA Flagged ==
    ASSUME NEW i \in BOOLEAN, NEW b \in BOOLEAN
    PROVE  /\ FlagByte(i, b) \in StackByte
           /\ IBit(FlagByte(i, b)) <=> i
           /\ BBit(FlagByte(i, b)) <=> b
<1>1. \A n \in Nat : n < 4 => n \in StackByte
    BY StackAssumption DEF StackByte
<1>2. PICK x \in Nat, y \in Nat : /\ x = IF i THEN 1 ELSE 0
                                  /\ y = IF b THEN 2 ELSE 0
    OBVIOUS
<1>3. FlagByte(i, b) = x + y
    BY <1>2 DEF FlagByte
<1>4. /\ x + y \in Nat /\ x + y < 4
      /\ (x + y) % 2 = 1 <=> x = 1
      /\ (x + y) \div 2 = 1 <=> y = 2
    BY <1>2
<1>5. FlagByte(i, b) \in StackByte
    BY <1>1, <1>3, <1>4
<1>6. IBit(FlagByte(i, b)) <=> i
    BY <1>2, <1>3, <1>4 DEF IBit
<1>7. BBit(FlagByte(i, b)) <=> b
    BY <1>2, <1>3, <1>4 DEF BBit
<1>. QED BY <1>5, <1>6, <1>7

LEMMA PushingWord ==
    ASSUME NEW s \in StackPage, NEW a \in Addr, StackSize >= 2
    PROVE  /\ Push16(s, a) \in StackPage
           /\ StackWord(Push16(s, a), 0) = a
           /\ Grown(s, Push16(s, a), 2)
<1> DEFINE t == Push(s, a \div Page)
           u == Push(t, a % Page)
<1>1. /\ t \in StackPage /\ u \in StackPage
      /\ ByteAt(t, 0) = a \div Page /\ ByteAt(u, 0) = a % Page
      /\ Grown(s, t, 1) /\ Grown(t, u, 1)
    BY TwoBytes, Pushing
<1>. HIDE DEF t, u
<1>2. ByteAt(u, 1) = a \div Page
  <2>1. 0 \in Nat /\ 0 + 1 < StackSize /\ 0 + 1 = 1
    BY StackAssumption
  <2>. QED BY <1>1, <2>1, Deeper
<1>3. Grown(s, u, 1 + 1)
    BY <1>1, Growing
<1>4. StackWord(u, 0) = a
    BY <1>1, <1>2, TwoBytes DEF StackWord
<1>. QED BY <1>1, <1>3, <1>4 DEF t, u, Push16

LEMMA PoppingWord ==
    ASSUME NEW s \in StackPage, StackSize >= 2
    PROVE  /\ Pop16(s) \in StackPage
           /\ Top16(s) = StackWord(s, 0)
           /\ Grown(Pop16(s), s, 2)
<1>1. /\ Pop(s) \in StackPage /\ Pop(Pop(s)) \in StackPage
      /\ Top(s) = ByteAt(s, 0) /\ Top(Pop(s)) = ByteAt(Pop(s), 0)
      /\ Grown(Pop(s), s, 1) /\ Grown(Pop(Pop(s)), Pop(s), 1)
    BY Popping
<1>2. ByteAt(s, 1) = ByteAt(Pop(s), 0)
  <2>1. 0 \in Nat /\ 0 + 1 < StackSize /\ 0 + 1 = 1
    BY StackAssumption
  <2>. QED BY <1>1, <2>1, Deeper
<1>3. Grown(Pop(Pop(s)), s, 1 + 1)
    BY <1>1, Growing
<1>. QED BY <1>1, <1>2, <1>3 DEF Top16, Pop16, StackWord

LEMMA PushingFrame ==
    ASSUME NEW s \in StackPage, NEW a \in Addr, NEW b \in BOOLEAN, flagI \in BOOLEAN,
           StackSize >= 3
    PROVE  /\ PushFrame(s, a, b) \in StackPage
           /\ ByteAt(PushFrame(s, a, b), 0) = FlagByte(flagI, b)
           /\ StackWord(PushFrame(s, a, b), 1) = a
           /\ Grown(s, PushFrame(s, a, b), 3)
<1> DEFINE t == Push16(s, a)
           u == Push(t, FlagByte(flagI, b))
<1>1. t \in StackPage /\ StackWord(t, 0) = a /\ Grown(s, t, 2)
    BY PushingWord, StackAssumption
<1>. HIDE DEF t
<1>2. u \in StackPage /\ ByteAt(u, 0) = FlagByte(flagI, b) /\ Grown(t, u, 1)
    BY <1>1, Flagged, Pushing
<1>. HIDE DEF u
<1>3. Grown(s, u, 2 + 1)
    BY <1>1, <1>2, Growing
<1>4. StackWord(u, 1) = a
  <2>1. ByteAt(u, 0 + 1) = ByteAt(t, 0) /\ ByteAt(u, 1 + 1) = ByteAt(t, 1)
    BY <1>2, Deeper, StackAssumption
  <2>2. ByteAt(u, 1) = ByteAt(t, 0) /\ ByteAt(u, 2) = ByteAt(t, 1)
    BY <2>1
  <2>. QED BY <1>1, <2>2 DEF StackWord
<1>. QED BY <1>2, <1>3, <1>4 DEF t, u, PushFrame

LEMMA PoppingFrame ==
    ASSUME NEW s \in StackPage, StackSize >= 3
    PROVE  /\ Pop16(Pop(s)) \in StackPage
           /\ Top(s) = ByteAt(s, 0)
           /\ Top16(Pop(s)) = StackWord(s, 1)
           /\ Grown(Pop16(Pop(s)), s, 3)
<1>1. Pop(s) \in StackPage /\ Top(s) = ByteAt(s, 0) /\ Grown(Pop(s), s, 1)
    BY Popping
<1>2. PICK t \in StackPage : t = Pop(s)
    BY <1>1
<1>3. /\ Pop16(t) \in StackPage /\ Top16(t) = StackWord(t, 0) /\ Grown(Pop16(t), t, 2)
    BY PoppingWord, StackAssumption
<1>4. Grown(Pop16(t), s, 2 + 1)
    BY <1>1, <1>2, <1>3, Growing
<1>5. ByteAt(s, 1) = ByteAt(t, 0) /\ ByteAt(s, 2) = ByteAt(t, 1)
  <2>1. ByteAt(s, 0 + 1) = ByteAt(t, 0) /\ ByteAt(s, 1 + 1) = ByteAt(t, 1)
    BY <1>1, <1>2, Deeper, StackAssumption
  <2>. QED BY <2>1
<1>6. StackWord(t, 0) = StackWord(s, 1)
    BY <1>5 DEF StackWord
<1>. QED BY <1>1, <1>2, <1>3, <1>4, <1>6

----------------------------------------------------------------------------
(* Frames: where each lies on the stack page, and what it holds.           *)
Kinds == {"nmi", "irq", "brk", "call", "flags"}
Frame == [kind : Kinds, return : Addr, mask : BOOLEAN, room : Nat]

(* f is intact, n bytes under the top of s. *)
Intact(s, n, f) ==
    /\ f.kind \in {"nmi", "irq", "brk"} =>
           /\ \E b \in BOOLEAN : /\ b <=> f.kind = "brk"
                                 /\ ByteAt(s, n) = FlagByte(f.mask, b)
           /\ StackWord(s, n + 1) = f.return
    /\ f.kind = "call" => Plus(StackWord(s, n), 1) = f.return
    /\ f.kind = "flags" => ByteAt(s, n) = FlagByte(f.mask, TRUE)

(* The frames lie one on the other, the last of them on the ground. *)
FramesFit ==
    /\ \A k \in 1 .. Len(frames) :
           /\ frames[k].room + Bytes[frames[k].kind] =
                  IF k = Len(frames) THEN StackSize ELSE frames[k + 1].room
           /\ frames[k].room + Bytes[frames[k].kind] <= StackSize
    /\ \A j, k \in 1 .. Len(frames) :
           j < k => frames[j].room + Bytes[frames[j].kind] <= frames[k].room

FramesIntact == \A k \in 1 .. Len(frames) : Intact(stack, frames[k].room - Room, frames[k])

StackInv ==
    /\ CpuTypeOK
    /\ stack \in StackPage
    /\ frames \in Seq(Frame)
    /\ FramesFit
    /\ FramesIntact

LEMMA Widths ==
    /\ Bytes["nmi"] = 3 /\ Bytes["irq"] = 3 /\ Bytes["brk"] = 3
    /\ Bytes["call"] = 2 /\ Bytes["flags"] = 1
    /\ \A kind \in Kinds : Bytes[kind] \in Nat /\ Bytes[kind] > 0
    BY DEF Bytes, Kinds

LEMMA Prepending ==
    ASSUME NEW S, NEW q \in Seq(S), NEW f \in S
    PROVE  /\ <<f>> \o q \in Seq(S) /\ <<f>> \o q # <<>>
           /\ Len(<<f>> \o q) = Len(q) + 1
           /\ Head(<<f>> \o q) = f /\ (<<f>> \o q)[1] = f
           /\ \A k \in 1 .. Len(q) : (<<f>> \o q)[k + 1] = q[k]
    OBVIOUS

LEMMA Dropping ==
    ASSUME NEW S, NEW q \in Seq(S), q # <<>>
    PROVE  /\ Tail(q) \in Seq(S) /\ Len(q) \in Nat /\ Len(q) > 0 /\ Len(Tail(q)) = Len(q) - 1
           /\ Head(q) = q[1] /\ q[1] \in S
           /\ \A k \in 1 .. Len(Tail(q)) : Tail(q)[k] = q[k + 1]
           /\ Tail(q) # <<>> => Head(Tail(q)) = q[2] /\ Len(q) > 1
           /\ Tail(q) = <<>> => Len(q) = 1
<1>1. Len(q) \in Nat /\ Len(q) > 0 /\ Len(q) # 0
    BY EmptySeq
<1>2. /\ Tail(q) \in Seq(S) /\ Len(Tail(q)) = Len(q) - 1
      /\ \A k \in 1 .. Len(Tail(q)) : Tail(q)[k] = q[k + 1]
      /\ Head(q) = q[1] /\ q[1] \in S
    BY <1>1, HeadTailProperties, ElementOfSeq
<1>3. Tail(q) # <<>> => Len(q) > 1 /\ Head(Tail(q)) = q[2]
  <2>1. SUFFICES ASSUME Tail(q) # <<>>
                 PROVE  Len(q) > 1 /\ Head(Tail(q)) = q[2]
    OBVIOUS
  <2>2. Len(Tail(q)) # 0
    BY <1>2, <2>1, EmptySeq
  <2>3. Len(q) > 1 /\ 1 \in 1 .. Len(Tail(q))
    BY <1>1, <1>2, <2>2
  <2>4. Tail(q)[1] = q[1 + 1] /\ Head(Tail(q)) = Tail(q)[1]
    BY <1>2, <2>1, <2>3
  <2>. QED BY <2>3, <2>4
<1>4. Tail(q) = <<>> => Len(q) = 1
  <2>1. SUFFICES ASSUME Tail(q) = <<>>
                 PROVE  Len(q) = 1
    OBVIOUS
  <2>2. \A z \in Seq(S) : z = <<>> => Len(z) = 0
    BY EmptySeq
  <2>3. Len(Tail(q)) = 0
    BY <1>2, <2>1, <2>2, Zenon
  <2>4. Len(q) \in Nat /\ Len(q) - 1 = 0
    BY <1>1, <1>2, <2>3, Zenon
  <2>. QED BY <2>4
<1>. QED BY <1>1, <1>2, <1>3, <1>4

(* A frame whose bytes all moved by as much is as intact as it was.        *)
LEMMA IntactMoves ==
    ASSUME NEW s, NEW t, NEW m \in Nat, NEW n \in Nat, NEW f \in Frame, Intact(s, m, f),
           \A i \in Nat : i < Bytes[f.kind] => ByteAt(t, n + i) = ByteAt(s, m + i)
    PROVE  Intact(t, n, f)
<1>1. f.kind \in Kinds
    BY DEF Frame
<1>2. ByteAt(t, n + 0) = ByteAt(s, m + 0) /\ n + 0 = n /\ m + 0 = m
    BY <1>1, Widths
<1>3. CASE f.kind \in {"nmi", "irq", "brk"}
  <2>1. ByteAt(t, n + 1) = ByteAt(s, m + 1) /\ ByteAt(t, n + 2) = ByteAt(s, m + 2)
    BY <1>3, Widths
  <2>2. (n + 1) + 1 = n + 2 /\ (m + 1) + 1 = m + 2
    OBVIOUS
  <2>3. StackWord(t, n + 1) = StackWord(s, m + 1)
    BY <2>1, <2>2 DEF StackWord
  <2>4. f.kind # "call" /\ f.kind # "flags"
    BY <1>3
  <2>. QED BY <1>2, <1>3, <2>3, <2>4, Zenon DEF Intact
<1>4. CASE f.kind = "call"
  <2>1. ByteAt(t, n + 1) = ByteAt(s, m + 1)
    BY <1>4, Widths
  <2>2. StackWord(t, n) = StackWord(s, m)
    BY <1>2, <2>1 DEF StackWord
  <2>3. f.kind \notin {"nmi", "irq", "brk"} /\ f.kind # "flags"
    BY <1>4
  <2>. QED BY <2>2, <2>3, Zenon DEF Intact
<1>5. CASE f.kind = "flags"
  <2>1. f.kind \notin {"nmi", "irq", "brk"} /\ f.kind # "call"
    BY <1>5
  <2>. QED BY <1>2, <2>1, Zenon DEF Intact
<1>. QED BY <1>1, <1>3, <1>4, <1>5 DEF Kinds

LEMMA Rooms ==
    ASSUME StackInv
    PROVE  /\ StackSize \in Nat /\ Room \in Nat /\ Room <= StackSize /\ Len(frames) \in Nat
           /\ \A k \in 1 .. Len(frames) :
                  /\ frames[k] \in Frame /\ frames[k].kind \in Kinds
                  /\ frames[k].room \in Nat /\ frames[k].room >= Room
                  /\ frames[k].room + Bytes[frames[k].kind] <= StackSize
<1>1. StackSize \in Nat /\ frames \in Seq(Frame) /\ Len(frames) \in Nat
    BY StackAssumption DEF StackInv
<1>2. ASSUME NEW k \in 1 .. Len(frames)
      PROVE  /\ frames[k] \in Frame /\ frames[k].kind \in Kinds /\ frames[k].room \in Nat
             /\ Bytes[frames[k].kind] \in Nat
             /\ frames[k].room + Bytes[frames[k].kind] <= StackSize
  <2>1. frames[k] \in Frame
    BY <1>1
  <2>. QED BY <2>1, Widths DEF StackInv, FramesFit, Frame
<1>3. CASE frames = <<>>
    BY <1>1, <1>3 DEF Room
<1>4. CASE frames # <<>>
  <2>1. Room = frames[1].room /\ 1 \in 1 .. Len(frames)
    BY <1>1, <1>4, Dropping DEF Room
  <2>2. ASSUME NEW k \in 1 .. Len(frames)
        PROVE  frames[k].room >= Room
    <3>1. CASE k = 1
      BY <1>2, <2>1, <3>1
    <3>2. CASE k # 1
      <4>1. frames[1].room + Bytes[frames[1].kind] <= frames[k].room
        BY <1>1, <2>1, <3>2 DEF StackInv, FramesFit
      <4>. QED BY <1>2, <2>1, <4>1
    <3>. QED BY <3>1, <3>2
  <2>. QED BY <1>1, <1>2, <2>1, <2>2
<1>. QED BY <1>3, <1>4

(* A frame pushed on top.                                                  *)
LEMMA PushKeeps ==
    ASSUME StackInv, NEW kind \in Kinds, NEW return \in Addr, NEW mask \in BOOLEAN,
           Pushes(kind, return, mask), stack' \in StackPage,
           Grown(stack, stack', Bytes[kind]),
           \A f \in Frame : f.kind = kind /\ f.return = return /\ f.mask = mask
                               => Intact(stack', 0, f)
    PROVE  frames' \in Seq(Frame) /\ FramesFit' /\ FramesIntact'
<1>1. PICK w \in Nat : w = Bytes[kind] /\ w > 0
    BY Widths
<1>2. w <= Room /\ Room - w \in Nat
    BY <1>1, Rooms DEF Pushes
<1>3. PICK f : f = [kind |-> kind, return |-> return, mask |-> mask, room |-> Room - w]
    OBVIOUS
<1>4. /\ f \in Frame /\ f.kind = kind /\ f.return = return /\ f.mask = mask
      /\ f.room = Room - w /\ Bytes[f.kind] = w
    BY <1>1, <1>2, <1>3 DEF Frame
<1>5. frames' = <<f>> \o frames /\ frames \in Seq(Frame)
    BY <1>1, <1>3 DEF Pushes, StackInv
<1>6. PICK n \in Nat : n = Len(frames)
    BY Rooms
<1>7. /\ frames' \in Seq(Frame) /\ frames' # <<>> /\ Len(frames') = n + 1
      /\ Head(frames') = f /\ frames'[1] = f
      /\ \A k \in 1 .. n : frames'[k + 1] = frames[k]
    BY <1>4, <1>5, <1>6, Prepending
<1>8. Room' = Room - w
    BY <1>4, <1>7 DEF Room
<1>9. n > 0 => Room = frames[1].room
    BY <1>5, <1>6, Dropping DEF Room
<1>10. n = 0 => Room = StackSize
    BY <1>5, <1>6, EmptySeq DEF Room
<1>11. ASSUME NEW k \in 1 .. n + 1, k # 1
       PROVE  k - 1 \in 1 .. n /\ frames'[k] = frames[k - 1]
  <2>1. k - 1 \in 1 .. n /\ (k - 1) + 1 = k
    BY <1>11
  <2>. QED BY <1>7, <2>1
<1>12. FramesFit'
  <2>1. ASSUME NEW k \in 1 .. n + 1
        PROVE  /\ frames'[k].room + Bytes[frames'[k].kind] =
                      IF k = n + 1 THEN StackSize ELSE frames'[k + 1].room
               /\ frames'[k].room + Bytes[frames'[k].kind] <= StackSize
    <3>1. CASE k = 1
      <4>1. frames'[k].room + Bytes[frames'[k].kind] = Room /\ Room <= StackSize
        BY <1>2, <1>4, <1>7, <3>1, Rooms
      <4>2. CASE n = 0
        BY <1>10, <3>1, <4>1, <4>2
      <4>3. CASE n # 0
        <5>1. frames'[k + 1] = frames[1] /\ k # n + 1
          BY <1>7, <3>1, <4>3
        <5>. QED BY <1>9, <4>1, <4>3, <5>1
      <4>. QED BY <4>2, <4>3
    <3>2. CASE k # 1
      <4>1. k - 1 \in 1 .. n /\ frames'[k] = frames[k - 1]
        BY <1>11, <3>2
      <4>2. /\ frames[k - 1].room + Bytes[frames[k - 1].kind] =
                   IF k - 1 = n THEN StackSize ELSE frames[(k - 1) + 1].room
            /\ frames[k - 1].room + Bytes[frames[k - 1].kind] <= StackSize
        BY <1>6, <4>1 DEF StackInv, FramesFit
      <4>3. k # n + 1 => frames'[k + 1] = frames[(k - 1) + 1]
        <5>1. k # n + 1 => k \in 1 .. n /\ (k - 1) + 1 = k
          BY <4>1
        <5>. QED BY <1>7, <5>1
      <4>. QED BY <4>1, <4>2, <4>3
    <3>. QED BY <3>1, <3>2
  <2>2. ASSUME NEW j \in 1 .. n + 1, NEW k \in 1 .. n + 1, j < k
        PROVE  frames'[j].room + Bytes[frames'[j].kind] <= frames'[k].room
    <3>1. k # 1 /\ k - 1 \in 1 .. n /\ frames'[k] = frames[k - 1]
      BY <1>11, <2>2
    <3>2. CASE j = 1
      <4>1. frames'[j].room + Bytes[frames'[j].kind] = Room
        BY <1>2, <1>4, <1>7, <3>2, Rooms
      <4>. QED BY <1>6, <3>1, <4>1, Rooms
    <3>3. CASE j # 1
      <4>1. j - 1 \in 1 .. n /\ frames'[j] = frames[j - 1] /\ j - 1 < k - 1
        BY <1>11, <2>2, <3>3
      <4>. QED BY <1>6, <3>1, <4>1 DEF StackInv, FramesFit
    <3>. QED BY <3>2, <3>3
  <2>. QED BY <1>7, <2>1, <2>2 DEF FramesFit
<1>13. ASSUME NEW k \in 1 .. n + 1
       PROVE  Intact(stack', frames'[k].room - Room', frames'[k])
  <2>1. CASE k = 1
    <3>1. frames'[k] = f /\ frames'[k].room - Room' = 0
      BY <1>2, <1>4, <1>7, <1>8, <2>1
    <3>2. Intact(stack', 0, f)
      BY <1>4
    <3>. QED BY <3>1, <3>2
  <2>2. CASE k # 1
    <3>1. PICK g \in Frame : /\ g = frames'[k] /\ g = frames[k - 1] /\ k - 1 \in 1 .. n
      BY <1>6, <1>11, <2>2, Rooms
    <3>2. /\ g.room \in Nat /\ g.room >= Room /\ g.room + Bytes[g.kind] <= StackSize
          /\ Bytes[g.kind] \in Nat /\ Room \in Nat /\ StackSize \in Nat
      BY <1>6, <3>1, Rooms, Widths
    <3>3. Intact(stack, g.room - Room, g)
      BY <1>6, <3>1 DEF StackInv, FramesIntact
    <3>4. PICK m \in Nat : m = g.room - Room
      BY <3>2
    <3>5. ASSUME NEW i \in Nat, i < Bytes[g.kind]
          PROVE  ByteAt(stack', (m + w) + i) = ByteAt(stack, m + i)
      <4>1. m + i \in 0 .. StackSize - 1 - w /\ (m + w) + i = (m + i) + w
        BY <1>2, <3>2, <3>4, <3>5
      <4>. QED BY <1>1, <4>1 DEF Grown
    <3>6. Intact(stack', m + w, g)
      BY <3>3, <3>4, <3>5, IntactMoves
    <3>7. g.room - Room' = m + w
      BY <1>8, <3>2, <3>4
    <3>. QED BY <3>1, <3>6, <3>7
  <2>. QED BY <2>1, <2>2
<1>. QED BY <1>7, <1>12, <1>13 DEF FramesIntact

(* The frame on top popped.                                                *)
LEMMA PopKeeps ==
    ASSUME StackInv, frames # <<>>, frames' = Tail(frames), stack' \in StackPage,
           Grown(stack', stack, Bytes[Head(frames).kind])
    PROVE  frames' \in Seq(Frame) /\ FramesFit' /\ FramesIntact'
<1>1. PICK n \in Nat : n = Len(frames)
    BY Rooms
<1>2. /\ frames' \in Seq(Frame) /\ n > 0 /\ Len(frames') = n - 1
      /\ Head(frames) = frames[1] /\ frames[1] \in Frame
      /\ \A k \in 1 .. n - 1 : frames'[k] = frames[k + 1]
      /\ frames' # <<>> => Head(frames') = frames[2] /\ n > 1
      /\ frames' = <<>> => n = 1
  <2>1. frames \in Seq(Frame)
    BY DEF StackInv
  <2>. QED BY <1>1, <2>1, Dropping
<1>3. PICK w \in Nat : w = Bytes[frames[1].kind]
    BY <1>2, Widths DEF Frame
<1>4. Room = frames[1].room /\ Room \in Nat
    BY <1>2, Rooms DEF Room
<1>5. Room' = Room + w
  <2>1. frames[1].room + w = IF n = 1 THEN StackSize ELSE frames[1 + 1].room
    BY <1>1, <1>2, <1>3 DEF StackInv, FramesFit
  <2>2. CASE frames' = <<>>
    BY <1>2, <1>4, <2>1, <2>2 DEF Room
  <2>3. CASE frames' # <<>>
    BY <1>2, <1>4, <2>1, <2>3 DEF Room
  <2>. QED BY <2>2, <2>3
<1>6. ASSUME NEW k \in 1 .. n - 1
      PROVE  k + 1 \in 1 .. n /\ frames'[k] = frames[k + 1]
    BY <1>2
<1>7. FramesFit'
  <2>1. ASSUME NEW k \in 1 .. n - 1
        PROVE  /\ frames'[k].room + Bytes[frames'[k].kind] =
                      IF k = n - 1 THEN StackSize ELSE frames'[k + 1].room
               /\ frames'[k].room + Bytes[frames'[k].kind] <= StackSize
    <3>1. /\ frames[k + 1].room + Bytes[frames[k + 1].kind] =
                 IF k + 1 = n THEN StackSize ELSE frames[(k + 1) + 1].room
          /\ frames[k + 1].room + Bytes[frames[k + 1].kind] <= StackSize
      BY <1>1, <1>6 DEF StackInv, FramesFit
    <3>2. k # n - 1 => k + 1 \in 1 .. n - 1
      OBVIOUS
    <3>3. k # n - 1 => frames'[k + 1] = frames[(k + 1) + 1]
      BY <1>6, <3>2
    <3>4. CASE k = n - 1
      <4>1. k + 1 = n
        BY <1>2, <3>4
      <4>. QED BY <1>6, <3>1, <3>4, <4>1
    <3>5. CASE k # n - 1
      <4>1. k + 1 # n
        BY <1>2, <3>5
      <4>. QED BY <1>6, <3>1, <3>3, <3>5, <4>1
    <3>. QED BY <3>4, <3>5
  <2>2. ASSUME NEW j \in 1 .. n - 1, NEW k \in 1 .. n - 1, j < k
        PROVE  frames'[j].room + Bytes[frames'[j].kind] <= frames'[k].room
    <3>1. /\ j + 1 \in 1 .. n /\ k + 1 \in 1 .. n /\ j + 1 < k + 1
          /\ frames'[j] = frames[j + 1] /\ frames'[k] = frames[k + 1]
      <4>1. j \in Int /\ k \in Int /\ j + 1 < k + 1
        BY <2>2
      <4>. QED BY <1>6, <4>1
    <3>. QED BY <1>1, <3>1 DEF StackInv, FramesFit
  <2>. QED BY <1>2, <2>1, <2>2 DEF FramesFit
<1>8. ASSUME NEW k \in 1 .. n - 1
      PROVE  Intact(stack', frames'[k].room - Room', frames'[k])
  <2>1. PICK g \in Frame : g = frames'[k] /\ g = frames[k + 1] /\ k + 1 \in 1 .. n
    BY <1>1, <1>6, Rooms
  <2>2. /\ g.room \in Nat /\ g.room + Bytes[g.kind] <= StackSize
        /\ Bytes[g.kind] \in Nat /\ StackSize \in Nat
    BY <1>1, <2>1, Rooms, Widths
  <2>3. Room + w <= g.room
    <3>1. frames[1].room + Bytes[frames[1].kind] <= frames[k + 1].room
      BY <1>1, <1>2, <2>1 DEF StackInv, FramesFit
    <3>. QED BY <1>3, <1>4, <2>1, <3>1
  <2>4. Intact(stack, g.room - Room, g)
    BY <1>1, <2>1 DEF StackInv, FramesIntact
  <2>5. PICK m \in Nat : g.room = (m + w) + Room /\ g.room - Room = m + w
    <3>1. PICK x \in Nat, y \in Nat : x = g.room /\ y = Room
      BY <1>4, <2>2
    <3>2. y + w <= x
      BY <2>3, <3>1
    <3>3. PICK z \in Nat : x = (z + w) + y
      <4>1. (x - (y + w)) \in Nat /\ x = ((x - (y + w)) + w) + y
        BY <3>2
      <4>. QED BY <4>1
    <3>4. x - y = z + w
      BY <3>3
    <3>. QED BY <3>1, <3>3, <3>4
  <2>6. ASSUME NEW i \in Nat, i < Bytes[g.kind]
        PROVE  ByteAt(stack', m + i) = ByteAt(stack, (m + w) + i)
    <3>1. PICK b \in Nat, x \in Nat, y \in Nat :
              b = Bytes[g.kind] /\ x = g.room /\ y = Room
      BY <1>4, <2>2
    <3>2. x + b <= StackSize /\ x = (m + w) + y /\ i < b
      BY <2>2, <2>5, <2>6, <3>1
    <3>3. m + i \in 0 .. StackSize - 1 - w /\ (m + w) + i = (m + i) + w
      BY <2>2, <3>2
    <3>. QED BY <1>2, <1>3, <3>3 DEF Grown
  <2>7. Intact(stack', m, g)
    BY <2>4, <2>5, <2>6, IntactMoves
  <2>8. g.room - Room' = m
    BY <1>4, <1>5, <2>5
  <2>. QED BY <2>1, <2>7, <2>8
<1>. QED BY <1>2, <1>7, <1>8 DEF FramesIntact

----------------------------------------------------------------------------
(* The machine's steps.                                                    *)
LEMMA StackStarts == InterruptsInit => StackInv
<1> SUFFICES ASSUME InterruptsInit
             PROVE  StackInv
    OBVIOUS
<1>1. CpuTypeOK
    BY VectorAssumption DEF InterruptsInit, CpuInit, CpuTypeOK
<1>2. 0 \in Place /\ 0 \in StackByte
    BY StackAssumption DEF Place, StackByte
<1>3. stack \in StackPage
    BY <1>2, Neighbours DEF InterruptsInit, StackPage, Place
<1>4. frames = <<>> /\ frames \in Seq(Frame) /\ Len(frames) = 0
    BY DEF InterruptsInit
<1>. QED BY <1>1, <1>3, <1>4 DEF StackInv, FramesFit, FramesIntact

LEMMA Addresses ==
    ASSUME NEW a \in Addr, NEW n \in Nat
    PROVE  Plus(a, n) \in Addr /\ 0 \in Addr
<1>1. Page * Page \in Nat /\ Page * Page > 0
    BY StackAssumption
<1>2. PICK all \in Nat : all = Page * Page /\ all > 0
    BY <1>1
<1>3. a \in Nat /\ Addr = 0 .. all - 1
    BY <1>2, StackAssumption
<1>4. (a + n) % all \in 0 .. all - 1
    BY <1>2, <1>3
<1>. QED BY <1>2, <1>3, <1>4 DEF Plus

LEMMA OneFurther ==
    ASSUME NEW a \in Addr
    PROVE  Plus(a, 3) = Plus(Plus(a, 2), 1)
<1>1. Page * Page \in Nat /\ Page * Page > 0
    BY StackAssumption
<1>2. PICK all \in Nat : all = Page * Page /\ all > 0
    BY <1>1
<1>3. a \in Nat
    BY StackAssumption, <1>1
<1>4. PICK q \in Nat, b \in Nat :
          q = (a + 2) \div all /\ b = (a + 2) % all /\ b < all /\ a + 2 = (all * q) + b
    BY <1>2, <1>3, Divided
<1>5. PICK y \in Nat : y = b + 1
    OBVIOUS
<1>6. PICK p \in Nat, c \in Nat :
          p = y \div all /\ c = y % all /\ c < all /\ y = (all * p) + c
    BY <1>2, Divided
<1>7. a + 3 = (all * (q + p)) + c
  <2>1. all * (q + p) = (all * q) + (all * p)
    OBVIOUS
  <2>2. PICK m \in Nat, n \in Nat : m = all * q /\ n = all * p
    OBVIOUS
  <2>. QED BY <1>3, <1>4, <1>5, <1>6, <2>1, <2>2
<1>8. (a + 3) % all = c
  <2>1. PICK x \in Nat, s \in Nat : x = a + 3 /\ s = q + p
    BY <1>3
  <2>. QED BY <1>6, <1>7, <2>1, Remainder
<1>. QED BY <1>2, <1>4, <1>5, <1>6, <1>8 DEF Plus

(* An interrupt or BRK pushed its frame. *)
LEMMA FramePushed ==
    ASSUME StackInv, NEW kind \in {"nmi", "irq", "brk"}, NEW a \in Addr, NEW b \in BOOLEAN,
           b <=> kind = "brk", stack' = PushFrame(stack, a, b), Pushes(kind, a, flagI)
    PROVE  /\ stack' \in StackPage
           /\ frames' \in Seq(Frame) /\ FramesFit' /\ FramesIntact'
<1>1. kind \in Kinds /\ Bytes[kind] = 3 /\ flagI \in BOOLEAN /\ stack \in StackPage
    BY Widths DEF Kinds, StackInv, CpuTypeOK
<1>2. StackSize >= 3
    BY <1>1, Rooms DEF Pushes
<1>3. /\ stack' \in StackPage
      /\ ByteAt(stack', 0) = FlagByte(flagI, b)
      /\ StackWord(stack', 1) = a
      /\ Grown(stack, stack', 3)
    BY <1>1, <1>2, PushingFrame
<1>4. ASSUME NEW f \in Frame, f.kind = kind /\ f.return = a /\ f.mask = flagI
      PROVE  Intact(stack', 0, f)
  <2>1. f.kind # "call" /\ f.kind # "flags" /\ 0 + 1 = 1 /\ (b <=> f.kind = "brk")
    BY <1>4
  <2>. QED BY <1>3, <1>4, <2>1, Zenon DEF Intact
<1>. QED BY <1>1, <1>3, <1>4, PushKeeps

(* The top of an interrupt's frame, and what is under it. *)
LEMMA FramePopped ==
    ASSUME StackInv, Pops({"nmi", "irq", "brk"})
    PROVE  /\ StackSize >= 3 /\ stack \in StackPage /\ Bytes[Head(frames).kind] = 3
           /\ Head(frames) \in Frame
           /\ Top16(Pop(stack)) = Head(frames).return
           /\ IBit(Top(stack)) <=> Head(frames).mask
           /\ BBit(Top(stack)) <=> Head(frames).kind = "brk"
<1>1. /\ frames # <<>> /\ Head(frames) = frames[1] /\ 1 \in 1 .. Len(frames)
      /\ frames[1] \in Frame /\ Room = frames[1].room
      /\ frames[1].kind \in {"nmi", "irq", "brk"}
    BY Rooms, Dropping DEF Pops, StackInv, Room
<1>2. Bytes[frames[1].kind] = 3 /\ stack \in StackPage /\ StackSize >= 3
  <2>1. Bytes[frames[1].kind] = 3
    BY <1>1, Widths
  <2>2. frames[1].room \in Nat /\ frames[1].room + 3 <= StackSize /\ StackSize \in Nat
    BY <1>1, <2>1, Rooms
  <2>. QED BY <2>1, <2>2 DEF StackInv
<1>3. Intact(stack, 0, frames[1])
  <2>1. frames[1].room - Room = 0
    BY <1>1, Rooms
  <2>. QED BY <1>1, <2>1 DEF StackInv, FramesIntact
<1>4. PICK b \in BOOLEAN : /\ b <=> frames[1].kind = "brk"
                           /\ ByteAt(stack, 0) = FlagByte(frames[1].mask, b)
    BY <1>1, <1>3, Zenon DEF Intact
<1>5. StackWord(stack, 0 + 1) = frames[1].return
    BY <1>1, <1>3, Zenon DEF Intact
<1>6. Top(stack) = ByteAt(stack, 0) /\ Top16(Pop(stack)) = StackWord(stack, 1)
    BY <1>2, PoppingFrame
<1>7. frames[1].mask \in BOOLEAN
    BY <1>1 DEF Frame
<1>8. /\ IBit(Top(stack)) <=> frames[1].mask
      /\ BBit(Top(stack)) <=> b
    BY <1>4, <1>6, <1>7, Flagged
<1>9. Top16(Pop(stack)) = frames[1].return
    BY <1>5, <1>6
<1>. QED BY <1>1, <1>2, <1>4, <1>8, <1>9, Zenon

LEMMA CallPopped ==
    ASSUME StackInv, Pops({"call"})
    PROVE  /\ StackSize >= 2 /\ stack \in StackPage /\ Bytes[Head(frames).kind] = 2
           /\ Head(frames) \in Frame
           /\ Plus(Top16(stack), 1) = Head(frames).return
<1>1. /\ frames # <<>> /\ Head(frames) = frames[1] /\ 1 \in 1 .. Len(frames)
      /\ frames[1] \in Frame /\ Room = frames[1].room /\ frames[1].kind = "call"
    BY Rooms, Dropping DEF Pops, StackInv, Room
<1>2. Bytes[frames[1].kind] = 2 /\ stack \in StackPage /\ StackSize >= 2
  <2>1. Bytes[frames[1].kind] = 2
    BY <1>1, Widths
  <2>2. frames[1].room \in Nat /\ frames[1].room + 2 <= StackSize /\ StackSize \in Nat
    BY <1>1, <2>1, Rooms
  <2>. QED BY <2>1, <2>2 DEF StackInv
<1>3. Intact(stack, 0, frames[1])
  <2>1. frames[1].room - Room = 0
    BY <1>1, Rooms
  <2>. QED BY <1>1, <2>1 DEF StackInv, FramesIntact
<1>4. Plus(StackWord(stack, 0), 1) = frames[1].return
    BY <1>1, <1>3, Zenon DEF Intact
<1>5. Top16(stack) = StackWord(stack, 0)
    BY <1>2, PoppingWord
<1>. QED BY <1>1, <1>2, <1>4, <1>5, Zenon

LEMMA FlagsPopped ==
    ASSUME StackInv, Pops({"flags"})
    PROVE  /\ stack \in StackPage /\ Bytes[Head(frames).kind] = 1
           /\ Head(frames) \in Frame
           /\ IBit(Top(stack)) <=> Head(frames).mask
<1>1. /\ frames # <<>> /\ Head(frames) = frames[1] /\ 1 \in 1 .. Len(frames)
      /\ frames[1] \in Frame /\ Room = frames[1].room /\ frames[1].kind = "flags"
    BY Rooms, Dropping DEF Pops, StackInv, Room
<1>2. Bytes[frames[1].kind] = 1 /\ stack \in StackPage
    BY <1>1, Widths DEF StackInv
<1>3. Intact(stack, 0, frames[1])
  <2>1. frames[1].room - Room = 0
    BY <1>1, Rooms
  <2>. QED BY <1>1, <2>1 DEF StackInv, FramesIntact
<1>4. ByteAt(stack, 0) = FlagByte(frames[1].mask, TRUE)
    BY <1>1, <1>3, Zenon DEF Intact
<1>5. Top(stack) = ByteAt(stack, 0)
    BY <1>2, Popping
<1>6. frames[1].mask \in BOOLEAN /\ TRUE \in BOOLEAN
    BY <1>1 DEF Frame
<1>7. IBit(FlagByte(frames[1].mask, TRUE)) <=> frames[1].mask
    BY <1>6, Flagged, Zenon
<1>8. IBit(Top(stack)) <=> frames[1].mask
    BY <1>4, <1>5, <1>7, Zenon
<1>. QED BY <1>1, <1>2, <1>8, Zenon

LEMMA StackKeeps ==
    ASSUME StackInv, [InterruptsNext]_interruptVars
    PROVE  StackInv'
<1>1. /\ CpuTypeOK /\ stack \in StackPage /\ frames \in Seq(Frame)
      /\ pc \in Addr /\ flagI \in BOOLEAN
    BY DEF StackInv, CpuTypeOK
<1>2. \A n \in Nat : Plus(pc, n) \in Addr /\ 0 \in Addr
    BY <1>1, Addresses
<1>3. CASE TakeNMI
  <2>1. stack' = PushFrame(stack, pc, FALSE) /\ Pushes("nmi", pc, flagI)
    BY <1>3 DEF TakeNMI
  <2>2. PICK kind \in {"nmi", "irq", "brk"}, b \in BOOLEAN : kind = "nmi" /\ b = FALSE
    OBVIOUS
  <2>3. (b <=> kind = "brk") /\ stack' = PushFrame(stack, pc, b) /\ Pushes(kind, pc, flagI)
    BY <2>1, <2>2
  <2>4. stack' \in StackPage /\ frames' \in Seq(Frame) /\ FramesFit' /\ FramesIntact'
    BY <1>1, <2>3, FramePushed
  <2>5. CpuTypeOK'
    BY <1>1, <1>3, VectorAssumption DEF TakeNMI, ServiceNMI, EnterHandler, CpuTypeOK
  <2>. QED BY <2>4, <2>5 DEF StackInv
<1>4. CASE TakeIRQ
  <2>1. stack' = PushFrame(stack, pc, FALSE) /\ Pushes("irq", pc, flagI)
    BY <1>4 DEF TakeIRQ
  <2>2. PICK kind \in {"nmi", "irq", "brk"}, b \in BOOLEAN : kind = "irq" /\ b = FALSE
    OBVIOUS
  <2>3. (b <=> kind = "brk") /\ stack' = PushFrame(stack, pc, b) /\ Pushes(kind, pc, flagI)
    BY <2>1, <2>2
  <2>4. stack' \in StackPage /\ frames' \in Seq(Frame) /\ FramesFit' /\ FramesIntact'
    BY <1>1, <2>3, FramePushed
  <2>5. CpuTypeOK'
    BY <1>1, <1>4, VectorAssumption DEF TakeIRQ, ServiceIRQ, EnterHandler, CpuTypeOK
  <2>. QED BY <2>4, <2>5 DEF StackInv
<1>5. CASE Break
  <2>1. stack' = PushFrame(stack, Plus(pc, 2), TRUE) /\ Pushes("brk", Plus(pc, 2), flagI)
    BY <1>5 DEF Break
  <2>2. PICK kind \in {"nmi", "irq", "brk"}, b \in BOOLEAN, a \in Addr :
            kind = "brk" /\ b = TRUE /\ a = Plus(pc, 2)
    BY <1>2
  <2>3. (b <=> kind = "brk") /\ stack' = PushFrame(stack, a, b) /\ Pushes(kind, a, flagI)
    BY <2>1, <2>2
  <2>4. stack' \in StackPage /\ frames' \in Seq(Frame) /\ FramesFit' /\ FramesIntact'
    BY <1>1, <2>3, FramePushed
  <2>5. CpuTypeOK'
    BY <1>1, <1>5, VectorAssumption
       DEF Break, Execute, NoInterrupt, EnterHandler, CpuTypeOK
  <2>. QED BY <2>4, <2>5 DEF StackInv
<1>6. ASSUME NEW target \in Targets, Call(target)
      PROVE  StackInv'
  <2>1. PICK a \in Addr, r \in Addr : a = Plus(pc, 2) /\ r = Plus(pc, 3) /\ r = Plus(a, 1)
    <3>1. Plus(pc, 3) = Plus(Plus(pc, 2), 1)
      BY <1>1, OneFurther
    <3>. QED BY <1>2, <3>1
  <2>2. stack' = Push16(stack, a) /\ Pushes("call", r, FALSE)
    BY <1>6, <2>1 DEF Call
  <2>3. StackSize >= 2 /\ "call" \in Kinds /\ Bytes["call"] = 2
    <3>1. Bytes["call"] <= Room
      BY <2>2 DEF Pushes
    <3>2. "call" \in Kinds /\ Bytes["call"] = 2
      BY Widths DEF Kinds
    <3>. QED BY <3>1, <3>2, Rooms
  <2>4. stack' \in StackPage /\ StackWord(stack', 0) = a /\ Grown(stack, stack', 2)
    BY <1>1, <2>2, <2>3, PushingWord
  <2>5. ASSUME NEW f \in Frame, f.kind = "call" /\ f.return = r /\ f.mask = FALSE
        PROVE  Intact(stack', 0, f)
    <3>1. f.kind \notin {"nmi", "irq", "brk"} /\ f.kind # "flags"
      BY <2>5
    <3>. QED BY <2>1, <2>4, <2>5, <3>1, Zenon DEF Intact
  <2>6. PICK mask \in BOOLEAN : mask = FALSE
    OBVIOUS
  <2>7. frames' \in Seq(Frame) /\ FramesFit' /\ FramesIntact'
    BY <2>2, <2>3, <2>4, <2>5, <2>6, PushKeeps
  <2>8. CpuTypeOK'
    BY <1>1, <1>6, StackAssumption DEF Call, Execute, NoInterrupt, CpuTypeOK
  <2>. QED BY <2>4, <2>7, <2>8 DEF StackInv
<1>7. CASE SaveFlags
  <2>1. stack' = Push(stack, FlagByte(flagI, TRUE)) /\ Pushes("flags", 0, flagI)
    BY <1>7 DEF SaveFlags
  <2>2. "flags" \in Kinds /\ Bytes["flags"] = 1 /\ 0 \in Addr
    BY <1>2, Widths DEF Kinds
  <2>3. PICK b \in BOOLEAN : b = TRUE
    OBVIOUS
  <2>4. FlagByte(flagI, b) \in StackByte
    BY <1>1, Flagged
  <2>5. /\ stack' \in StackPage /\ ByteAt(stack', 0) = FlagByte(flagI, TRUE)
        /\ Grown(stack, stack', 1)
    BY <1>1, <2>1, <2>3, <2>4, Pushing
  <2>6. ASSUME NEW f \in Frame, f.kind = "flags" /\ f.mask = flagI
        PROVE  Intact(stack', 0, f)
    <3>1. f.kind \notin {"nmi", "irq", "brk"} /\ f.kind # "call"
      BY <2>6
    <3>. QED BY <2>5, <2>6, <3>1, Zenon DEF Intact
  <2>7. frames' \in Seq(Frame) /\ FramesFit' /\ FramesIntact'
    <3>1. PICK kind \in Kinds, r \in Addr, m \in BOOLEAN :
              kind = "flags" /\ r = 0 /\ m = flagI
      BY <1>1, <2>2
    <3>2. Pushes(kind, r, m) /\ Grown(stack, stack', Bytes[kind])
      BY <2>1, <2>2, <2>5, <3>1
    <3>3. \A f \in Frame : f.kind = kind /\ f.return = r /\ f.mask = m => Intact(stack', 0, f)
      BY <2>6, <3>1, Zenon
    <3>. QED BY <2>5, <3>2, <3>3, PushKeeps
  <2>8. CpuTypeOK'
    BY <1>1, <1>2, <1>7 DEF SaveFlags, Execute, NoInterrupt, CpuTypeOK
  <2>. QED BY <2>5, <2>7, <2>8 DEF StackInv
<1>8. CASE ReturnFromInterrupt
  <2>1. /\ Pops({"nmi", "irq", "brk"}) /\ frames # <<>> /\ frames' = Tail(frames)
        /\ stack' = Pop16(Pop(stack))
    BY <1>8 DEF ReturnFromInterrupt, Pops
  <2>2. /\ StackSize >= 3 /\ Bytes[Head(frames).kind] = 3 /\ Head(frames) \in Frame
        /\ Top16(Pop(stack)) = Head(frames).return
    BY <2>1, FramePopped
  <2>3. stack' \in StackPage /\ Grown(stack', stack, 3)
    BY <1>1, <2>1, <2>2, PoppingFrame
  <2>4. frames' \in Seq(Frame) /\ FramesFit' /\ FramesIntact'
    BY <2>1, <2>2, <2>3, PopKeeps
  <2>5. Top16(Pop(stack)) \in Addr /\ IBit(Top(stack)) \in BOOLEAN
    BY <2>2 DEF Frame, IBit
  <2>6. CpuTypeOK'
    BY <1>1, <1>8, <2>5 DEF ReturnFromInterrupt, Execute, NoInterrupt, CpuTypeOK
  <2>. QED BY <2>3, <2>4, <2>6 DEF StackInv
<1>9. CASE ReturnFromCall
  <2>1. /\ Pops({"call"}) /\ frames # <<>> /\ frames' = Tail(frames)
        /\ stack' = Pop16(stack)
    BY <1>9 DEF ReturnFromCall, Pops
  <2>2. /\ StackSize >= 2 /\ Bytes[Head(frames).kind] = 2 /\ Head(frames) \in Frame
        /\ Plus(Top16(stack), 1) = Head(frames).return
    BY <2>1, CallPopped
  <2>3. stack' \in StackPage /\ Grown(stack', stack, 2)
    BY <1>1, <2>1, <2>2, PoppingWord
  <2>4. frames' \in Seq(Frame) /\ FramesFit' /\ FramesIntact'
    BY <2>1, <2>2, <2>3, PopKeeps
  <2>5. Plus(Top16(stack), 1) \in Addr
    BY <2>2 DEF Frame
  <2>6. CpuTypeOK'
    BY <1>1, <1>9, <2>5 DEF ReturnFromCall, Execute, NoInterrupt, CpuTypeOK
  <2>. QED BY <2>3, <2>4, <2>6 DEF StackInv
<1>10. CASE RestoreFlags
  <2>1. /\ Pops({"flags"}) /\ frames # <<>> /\ frames' = Tail(frames)
        /\ stack' = Pop(stack)
    BY <1>10 DEF RestoreFlags, Pops
  <2>2. Bytes[Head(frames).kind] = 1 /\ Head(frames) \in Frame
    BY <2>1, FlagsPopped
  <2>3. stack' \in StackPage /\ Grown(stack', stack, 1)
    BY <1>1, <2>1, Popping
  <2>4. frames' \in Seq(Frame) /\ FramesFit' /\ FramesIntact'
    BY <2>1, <2>2, <2>3, PopKeeps
  <2>5. IBit(Top(stack)) \in BOOLEAN /\ Plus(pc, 1) \in Addr
    BY <1>2 DEF IBit
  <2>6. CpuTypeOK'
    BY <1>1, <1>10, <2>5 DEF RestoreFlags, Execute, NoInterrupt, CpuTypeOK
  <2>. QED BY <2>3, <2>4, <2>6 DEF StackInv
<1>11. CASE ResetCore
  <2>1. CpuTypeOK'
    BY <1>1, <1>11, VectorAssumption DEF ResetCore, CpuReset, CpuTypeOK
  <2>2. stack' \in StackPage
    <3>1. stack.sp \in Place /\ DOMAIN stack.mem = Place /\ 0 \in StackByte
      BY <1>1, StackAssumption DEF StackPage, StackByte
    <3>. QED BY <1>11, <3>1, Neighbours DEF ResetCore, StackPage
  <2>3. frames' = <<>> /\ frames' \in Seq(Frame) /\ Len(frames') = 0
    BY <1>11 DEF ResetCore
  <2>. QED BY <2>1, <2>2, <2>3 DEF StackInv, FramesFit, FramesIntact
<1>12. CASE UNCHANGED <<stack, frames>> /\ CpuTypeOK'
  <2>1. Room' = Room /\ FramesFit' /\ FramesIntact'
    BY <1>12 DEF Room, StackInv, FramesFit, FramesIntact
  <2>. QED BY <1>1, <1>12, <2>1 DEF StackInv
<1>13. ASSUME NEW target \in Targets, NEW mask \in BOOLEAN, Elsewhere(target, mask)
       PROVE  StackInv'
    BY <1>1, <1>12, <1>13, StackAssumption DEF Elsewhere, Execute, NoInterrupt, CpuTypeOK
<1>14. CASE CallNMI
    BY <1>1, <1>12, <1>14 DEF CallNMI, RequestNMI, CpuTypeOK
<1>15. CASE CallIRQ
    BY <1>1, <1>12, <1>15 DEF CallIRQ, RequestIRQ, CpuTypeOK
<1>16. CASE UNCHANGED interruptVars
    BY <1>1, <1>12, <1>16 DEF interruptVars, cpuVars, CpuTypeOK
<1>. QED BY <1>3, <1>4, <1>5, <1>6, <1>7, <1>8, <1>9, <1>10, <1>11, <1>13, <1>14, <1>15, <1>16
         DEF InterruptsNext

LEMMA StackHolds == InterruptsSpec => []StackInv
    BY StackStarts, StackKeeps, PTL DEF InterruptsSpec

(* The stack pointer and every byte pushed keep their types, and what is   *)
(* pushed never exceeds the page (CPU.push, CPU.pop).                      *)
THEOREM StackTypesHold == InterruptsSpec => []StackTypeOK
<1>1. StackInv => StackTypeOK
    BY Rooms DEF StackInv, StackTypeOK, StackPage, Place, StackByte
<1>. QED BY <1>1, StackHolds, PTL

(* However interrupts, calls and saved flags are nested, on a stack page   *)
(* of any size and wherever in it the stack pointer started, each return   *)
(* finds its own frame (handleInterrupt, RTI, RTS, PLP).                   *)
THEOREM ResumesHolds == InterruptsSpec => Resumes
<1>1. StackInv => [/\ ReturnFromInterrupt => ResumedAt(Head(frames)) /\ MaskOf(Head(frames))
                   /\ ReturnFromCall => ResumedAt(Head(frames))
                   /\ RestoreFlags => MaskOf(Head(frames))]_interruptVars
  <2> SUFFICES ASSUME StackInv
               PROVE  /\ ReturnFromInterrupt => ResumedAt(Head(frames)) /\ MaskOf(Head(frames))
                      /\ ReturnFromCall => ResumedAt(Head(frames))
                      /\ RestoreFlags => MaskOf(Head(frames))
    OBVIOUS
  <2>1. ASSUME ReturnFromInterrupt
        PROVE  ResumedAt(Head(frames)) /\ MaskOf(Head(frames))
    <3>1. /\ Pops({"nmi", "irq", "brk"})
          /\ pc' = Top16(Pop(stack)) /\ flagI' = IBit(Top(stack))
      BY <2>1 DEF ReturnFromInterrupt, Execute
    <3>2. /\ Top16(Pop(stack)) = Head(frames).return
          /\ IBit(Top(stack)) <=> Head(frames).mask
          /\ Head(frames).mask \in BOOLEAN /\ IBit(Top(stack)) \in BOOLEAN
      BY <3>1, FramePopped DEF Frame, IBit
    <3>. QED BY <3>1, <3>2, Zenon DEF ResumedAt, MaskOf
  <2>2. ASSUME ReturnFromCall
        PROVE  ResumedAt(Head(frames))
    <3>1. Pops({"call"}) /\ pc' = Plus(Top16(stack), 1)
      BY <2>2 DEF ReturnFromCall, Execute
    <3>. QED BY <3>1, CallPopped DEF ResumedAt
  <2>3. ASSUME RestoreFlags
        PROVE  MaskOf(Head(frames))
    <3>1. Pops({"flags"}) /\ flagI' = IBit(Top(stack))
      BY <2>3 DEF RestoreFlags, Execute
    <3>2. /\ IBit(Top(stack)) <=> Head(frames).mask
          /\ Head(frames).mask \in BOOLEAN /\ IBit(Top(stack)) \in BOOLEAN
      BY <3>1, FlagsPopped DEF Frame, IBit
    <3>. QED BY <3>1, <3>2, Zenon DEF MaskOf
  <2>. QED BY <2>1, <2>2, <2>3
<1>. QED BY <1>1, StackHolds, PTL DEF Resumes

(* The handler that IRQ and BRK share tells them apart by the B bit on top *)
(* of the stack, whatever nested in between (handleInterrupt).             *)
THEOREM BreakToldHolds == InterruptsSpec => []BreakTold
<1>1. StackInv => BreakTold
  <2> SUFFICES ASSUME StackInv, frames # <<>>, Head(frames).kind \in {"nmi", "irq", "brk"}
               PROVE  BBit(Top(stack)) <=> Head(frames).kind = "brk"
    BY DEF BreakTold
  <2>1. Pops({"nmi", "irq", "brk"})
    BY DEF Pops
  <2>. QED BY <2>1, FramePopped
<1>. QED BY <1>1, StackHolds, PTL

----------------------------------------------------------------------------
(* KeepsPace is not inductive: that no more than one wake-up counts rests  *)
(* on every sleep ending exactly when what has been executed is due.       *)
AsleepUntilDue == wake > now /\ ~owing /\ ~halted => executed = wake
NeverAhead == now <= wake /\ executed <= wake

PaceInv == ThrottleTypeOK /\ NeverAhead /\ AsleepUntilDue /\ KeepsPace

(* At the start nothing has been executed and nothing is due.              *)
LEMMA PaceInvStarts == ThrottleInit => PaceInv
<1>. SUFFICES ASSUME ThrottleInit PROVE PaceInv
    OBVIOUS
<1>1. /\ now = 0 /\ executed = 0 /\ wake = 0 /\ halted = FALSE /\ owing = FALSE
      /\ lost = 0 /\ runningSince = 0 /\ executedBefore = 0
    BY DEF ThrottleInit
<1>2. Overshoot \in Nat /\ MaxLate \in Nat
    BY ThrottleAssumption DEF Overshoot
<1>3. ThrottleTypeOK BY <1>1 DEF ThrottleTypeOK
<1>4. KeepsPace BY <1>1, <1>2 DEF KeepsPace
<1>. QED BY <1>1, <1>3, <1>4 DEF PaceInv, NeverAhead, AsleepUntilDue

(* A batch loses the time it takes the host beyond what its cycles take    *)
(* the KIM-1, and the sleep behind it ends when it is due (the body of     *)
(* RunCPU's loop).                                                         *)
LEMMA PaceKeeps ==
    ASSUME NEW cost \in Nat, NEW spent \in Nat,
           PaceInv, wake = now, spent <= Overshoot,
           Pace(now + cost, cost, spent),
           halted' \in BOOLEAN,
           UNCHANGED <<runningSince, executedBefore>>,
           ~halted' => ~halted
    PROVE  PaceInv'
<1>. USE ThrottleAssumption
<1>1. /\ now \in Nat /\ executed \in Nat /\ owing \in BOOLEAN
      /\ lost \in Nat /\ runningSince \in Nat /\ executedBefore \in Nat
      /\ executed <= now
      /\ ~owing /\ ~halted => now - executed <= MaxLate + lost
    BY DEF PaceInv, ThrottleTypeOK, KeepsPace
<1>2. /\ now' = now + cost
      /\ executed' = executed + spent
      /\ wake' = IF executed + spent > now + cost THEN executed + spent ELSE now + cost
      /\ owing' = (owing /\ executed' < now')
      /\ lost' = IF executed + spent < now + cost THEN lost + Excess(cost, spent) ELSE 0
      /\ runningSince' = runningSince
      /\ executedBefore' = executedBefore
    BY DEF Pace, Due
<1>x. PICK x \in Nat : x = Excess(cost, spent) /\ cost <= spent + x
  <2>1. Excess(cost, spent) \in Nat /\ cost <= spent + Excess(cost, spent)
      BY DEF Excess
  <2>. QED BY <2>1, Zenon
<1>3. wake' \in Nat /\ now' <= wake' /\ executed' <= wake'
      /\ (wake' > now' => executed' = wake')
    BY <1>1, <1>2
<1>4. ThrottleTypeOK'
    BY <1>1, <1>2, <1>3, <1>x DEF ThrottleTypeOK
<1>5. executed' <= now' + Overshoot
    BY <1>1, <1>2 DEF Overshoot
<1>6. ~owing' /\ ~halted' => now' - executed' <= MaxLate + lost'
  <2>1. SUFFICES ASSUME ~owing', ~halted' PROVE now' - executed' <= MaxLate + lost'
      OBVIOUS
  <2>2. CASE executed' >= now'
      BY <1>1, <1>2, <1>4, <2>2 DEF ThrottleTypeOK
  <2>3. CASE executed' < now'
      <3>1. ~owing BY <1>2, <2>1, <2>3, Zenon
      <3>2. lost' = lost + x BY <1>2, <1>x, <2>3
      <3>. QED BY <1>1, <1>2, <1>x, <2>1, <3>1, <3>2
  <2>4. executed' >= now' \/ executed' < now'
      BY <1>4 DEF ThrottleTypeOK
  <2>. QED BY <2>2, <2>3, <2>4
<1>7. wake' = now' => executed' <= now'
    BY <1>1, <1>2, <1>3
<1>. QED BY <1>3, <1>4, <1>5, <1>6, <1>7 DEF PaceInv, NeverAhead, AsleepUntilDue, KeepsPace

(* Every step of RunCPU, of the host's clock and of the user keeps the     *)
(* invariant.                                                              *)
LEMMA PaceInvKept == PaceInv /\ [ThrottleNext]_throttleVars => PaceInv'
<1>. SUFFICES ASSUME PaceInv, [ThrottleNext]_throttleVars PROVE PaceInv'
    OBVIOUS
<1>. USE ThrottleAssumption
<1>t. /\ now \in Nat /\ executed \in Nat /\ wake \in Nat
      /\ lost \in Nat /\ runningSince \in Nat /\ executedBefore \in Nat
      /\ halted \in BOOLEAN /\ owing \in BOOLEAN
    BY DEF PaceInv, ThrottleTypeOK
<1>1. ASSUME NEW cost \in Costs, NEW spent \in BatchCycles .. BatchCycles + LongestStep - 1,
             RunBatch(spent, cost)
      PROVE  PaceInv'
  <2>1. /\ cost \in Nat /\ spent \in Nat /\ spent <= Overshoot
      BY DEF Overshoot
  <2>2. /\ wake = now /\ ~halted /\ halted' = halted
        /\ Pace(now + cost, cost, spent) /\ UNCHANGED <<runningSince, executedBefore>>
      BY <1>1 DEF RunBatch
  <2>3. halted' \in BOOLEAN BY <1>t, <2>2
  <2>. QED BY <2>1, <2>2, <2>3, PaceKeeps
<1>2. ASSUME NEW cost \in Costs, NEW spent \in 0 .. BatchCycles - 1, BatchPanics(spent, cost)
      PROVE  PaceInv'
  <2>1. cost \in Nat /\ spent \in Nat /\ spent <= Overshoot
      BY DEF Overshoot
  <2>2. /\ wake = now /\ halted' = TRUE /\ UNCHANGED <<runningSince, executedBefore>>
      BY <1>2 DEF BatchPanics
  <2>3. CASE spent > 0
      <3>1. Pace(now + cost, cost, spent) BY <1>2, <2>3 DEF BatchPanics
      <3>. QED BY <2>1, <2>2, <3>1, PaceKeeps
  <2>4. CASE ~(spent > 0)
      <3>1. /\ now' = now + cost /\ wake' = now' + HaltSleep
            /\ executed' = executed /\ owing' = owing /\ lost' = lost
          BY <1>2, <2>4 DEF BatchPanics
      <3>2. executed <= now BY <2>2 DEF PaceInv, KeepsPace
      <3>3. ThrottleTypeOK' BY <1>t, <2>1, <2>2, <3>1 DEF ThrottleTypeOK
      <3>4. NeverAhead' BY <1>t, <2>1, <3>1, <3>2 DEF NeverAhead
      <3>5. KeepsPace' BY <1>t, <2>1, <2>2, <3>1, <3>2 DEF KeepsPace, Overshoot
      <3>. QED BY <2>2, <3>3, <3>4, <3>5 DEF PaceInv, AsleepUntilDue
  <2>. QED BY <2>3, <2>4
<1>3. ASSUME NEW cost \in Costs, FindHalted(cost)
      PROVE  PaceInv'
  <2>1. /\ wake = now /\ halted /\ now' = now + cost /\ wake' = now' + HaltSleep
        /\ executed' = executed /\ halted' = halted /\ owing' = owing /\ lost' = lost
        /\ runningSince' = runningSince /\ executedBefore' = executedBefore
      BY <1>3 DEF FindHalted
  <2>2. cost \in Nat
      OBVIOUS
  <2>. QED BY <1>t, <2>1, <2>2
      DEF PaceInv, ThrottleTypeOK, NeverAhead, AsleepUntilDue, KeepsPace, Overshoot
<1>4. ASSUME NEW late \in 0 .. MaxLate, WakeUp(late)
      PROVE  PaceInv'
  <2>1. /\ wake > now /\ now' = wake + late /\ wake' = now' /\ owing' = (owing \/ halted)
        /\ executed' = executed /\ halted' = halted /\ lost' = lost
        /\ runningSince' = runningSince /\ executedBefore' = executedBefore
      BY <1>4 DEF WakeUp
  <2>2. late \in Nat /\ late <= MaxLate
      OBVIOUS
  <2>3. executed <= wake
      BY DEF PaceInv, NeverAhead
  <2>4. ~owing' /\ ~halted' => executed = wake
      BY <2>1 DEF PaceInv, AsleepUntilDue
  <2>5. ThrottleTypeOK'
    <3>1. owing' \in BOOLEAN BY <1>t, <2>1, Zenon
    <3>. QED BY <1>t, <2>1, <2>2, <3>1 DEF ThrottleTypeOK
  <2>6. KeepsPace'
      BY <1>t, <2>1, <2>2, <2>3, <2>4 DEF KeepsPace, Overshoot
  <2>. QED BY <1>t, <2>1, <2>2, <2>3, <2>5, <2>6 DEF PaceInv, NeverAhead, AsleepUntilDue
<1>5. ASSUME NEW t \in now .. wake, ResetAt(t)
      PROVE  PaceInv'
  <2>1. /\ halted' = FALSE /\ now' = t /\ owing' = TRUE
        /\ runningSince' = t /\ executedBefore' = executed
        /\ executed' = executed /\ wake' = wake /\ lost' = lost
      BY <1>5 DEF ResetAt
  <2>2. t \in Nat /\ now <= t /\ t <= wake
      BY <1>t
  <2>3. executed <= wake /\ executed <= now + Overshoot
      BY DEF PaceInv, NeverAhead, KeepsPace
  <2>4. ThrottleTypeOK'
      BY <1>t, <2>1, <2>2 DEF ThrottleTypeOK
  <2>. QED BY <1>t, <2>1, <2>2, <2>3, <2>4
      DEF PaceInv, NeverAhead, AsleepUntilDue, KeepsPace, Overshoot
<1>6. CASE ContextDone
  <2>1. /\ now' = 0 /\ executed' = 0 /\ wake' = 0 /\ halted' = FALSE /\ owing' = FALSE
        /\ lost' = 0 /\ runningSince' = 0 /\ executedBefore' = 0
      BY <1>6 DEF ContextDone
  <2>2. Overshoot \in Nat /\ MaxLate \in Nat
      BY DEF Overshoot
  <2>3. ThrottleTypeOK' BY <2>1 DEF ThrottleTypeOK
  <2>4. KeepsPace' BY <2>1, <2>2 DEF KeepsPace, Overshoot
  <2>. QED BY <2>1, <2>3, <2>4 DEF PaceInv, NeverAhead, AsleepUntilDue
<1>7. CASE UNCHANGED throttleVars
    BY <1>7
    DEF throttleVars, PaceInv, ThrottleTypeOK, NeverAhead, AsleepUntilDue, KeepsPace, Overshoot
<1>. QED BY <1>1, <1>2, <1>3, <1>4, <1>5, <1>6, <1>7 DEF ThrottleNext

(* RunCPU's variables stay in their types.                                 *)
THEOREM ThrottleTypesHold == ThrottleSpec => []ThrottleTypeOK
<1>1. PaceInv => ThrottleTypeOK BY DEF PaceInv
<1>. QED BY <1>1, PaceInvStarts, PaceInvKept, PTL DEF ThrottleSpec

(* The machine is never ahead of a real KIM-1 by more than one batch, and, *)
(* where no halt has to be made up for, behind it by no more than one late *)
(* wake-up and the time its batches took beyond their cycles since it last *)
(* had caught up -- for ever, and however long a batch may take (RunCPU).  *)
THEOREM KeepsPaceHolds == ThrottleSpec => []KeepsPace
<1>1. PaceInv => KeepsPace BY DEF PaceInv
<1>. QED BY <1>1, PaceInvStarts, PaceInvKept, PTL DEF ThrottleSpec

----------------------------------------------------------------------------
(* The processor and its memory. *)
CoreState == [A : UInt8, X : UInt8, Y : UInt8, SP : UInt8, PC : UInt16, P : SUBSET Flags,
              cycles : Nat, mem : RAM]

(* t is a state that has taken as many cycles as s. *)
AsLong(s, t) == t \in CoreState /\ t.cycles = s.cycles

LEMMA Ranges ==
    /\ \A x \in UInt8 : x \in Nat /\ x < 256
    /\ \A x \in UInt16 : x \in Nat /\ x < 65536
    /\ \A x \in Nat : (x < 256 => x \in UInt8) /\ (x < 65536 => x \in UInt16)
<1>1. PICK n \in Nat : n = 255
    OBVIOUS
<1>2. PICK m \in Nat : m = 65535
    OBVIOUS
<1>3. UInt8 = 0 .. n
    BY <1>1 DEF UInt8
<1>4. UInt16 = 0 .. m
    BY <1>2 DEF UInt16
<1>5. \A x \in 0 .. n : x \in Nat /\ x < 256
    BY <1>1
<1>6. \A x \in 0 .. m : x \in Nat /\ x < 65536
  <2>1. \A x \in 0 .. m : x \in Nat /\ x <= m
      OBVIOUS
  <2>2. PICK all \in Nat : all = 65536
      OBVIOUS
  <2>3. \A x \in Nat : x <= m => x < all
      BY <1>2, <2>2
  <2>4. \A x \in 0 .. m : x \in Nat /\ x < all
      BY <2>1, <2>3, Zenon
  <2>. QED BY <2>2, <2>4
<1>7. ASSUME NEW x \in Nat PROVE (x < 256 => x \in 0 .. n) /\ (x < 65536 => x \in 0 .. m)
  <2>1. (x < 256 => x <= n) /\ (x < 65536 => x <= m)
      BY <1>1, <1>2
  <2>. QED BY <2>1
<1>8. \A x \in UInt8 : x \in Nat /\ x < 256
    BY <1>3, <1>5
<1>9. \A x \in UInt16 : x \in Nat /\ x < 65536
    BY <1>4, <1>6
<1>10. ASSUME NEW x \in Nat PROVE (x < 256 => x \in UInt8) /\ (x < 65536 => x \in UInt16)
    BY <1>3, <1>4, <1>7
<1>. QED BY <1>8, <1>9, <1>10

LEMMA Bytes8 ==
    ASSUME NEW x \in Nat
    PROVE  x % 256 \in UInt8 /\ x % 65536 \in UInt16 /\ (x \in UInt16 => x \div 256 \in UInt8)
<1>1. x % 256 \in Nat /\ x % 256 < 256 /\ x % 65536 \in Nat /\ x % 65536 < 65536
    OBVIOUS
<1>2. x < 65536 => x \div 256 \in Nat /\ x \div 256 < 256
    OBVIOUS
<1>. QED BY <1>1, <1>2, Ranges

LEMMA WordTyped ==
    ASSUME NEW lo \in UInt8, NEW hi \in UInt8
    PROVE  Word(lo, hi) \in UInt16
BY Ranges DEF Word

LEMMA PeekTyped ==
    ASSUME NEW s \in CoreState, NEW a
    PROVE  Peek(s, a) \in UInt8
<1>1. s.mem \in [Cells -> UInt8]
    BY DEF CoreState, RAM
<1>. QED BY <1>1 DEF Peek, UInt8

LEMMA CoreParts ==
    ASSUME NEW s \in CoreState
    PROVE  \E a \in UInt8, x \in UInt8, y \in UInt8, sp \in UInt8, counter \in UInt16,
              p \in SUBSET Flags, n \in Nat, m \in RAM :
               s = [A |-> a, X |-> x, Y |-> y, SP |-> sp, PC |-> counter, P |-> p, cycles |-> n, mem |-> m]
BY DEF CoreState

LEMMA CoreChanged ==
    ASSUME NEW s \in CoreState, NEW a \in UInt8, NEW x \in UInt8, NEW y \in UInt8,
           NEW sp \in UInt8, NEW counter \in UInt16, NEW p \in SUBSET Flags, NEW m \in RAM
    PROVE  AsLong(s, [A |-> a, X |-> x, Y |-> y, SP |-> sp, PC |-> counter, P |-> p,
                      cycles |-> s.cycles, mem |-> m])
BY DEF CoreState, AsLong

LEMMA PokeTyped ==
    ASSUME NEW s \in CoreState, NEW a, NEW v \in UInt8
    PROVE  AsLong(s, Poke(s, a, v)) /\ Poke(s, a, v).SP = s.SP
<1>1. s.mem \in [Cells -> UInt8]
    BY DEF CoreState, RAM
<1>2. PICK m \in RAM : m = [s.mem EXCEPT ![a] = v]
    BY <1>1 DEF RAM
<1>3. CASE a \in DOMAIN s.mem
  <2>1. Poke(s, a, v) = [s EXCEPT !.mem = m]
      BY <1>2, <1>3 DEF Poke
  <2>. QED BY <2>1 DEF CoreState, AsLong
<1>4. CASE a \notin DOMAIN s.mem
    BY <1>4 DEF Poke, AsLong
<1>. QED BY <1>3, <1>4

LEMMA SetTyped ==
    ASSUME NEW s \in CoreState, NEW v \in UInt8, NEW w \in UInt16, NEW p \in SUBSET Flags
    PROVE  /\ AsLong(s, [s EXCEPT !.A = v]) /\ AsLong(s, [s EXCEPT !.X = v])
           /\ AsLong(s, [s EXCEPT !.Y = v]) /\ AsLong(s, [s EXCEPT !.SP = v])
           /\ AsLong(s, [s EXCEPT !.PC = w]) /\ AsLong(s, [s EXCEPT !.P = p])
           /\ AsLong(s, [s EXCEPT !.A = v, !.P = p])
BY DEF CoreState, AsLong

LEMMA RegisterSet ==
    ASSUME NEW s \in CoreState, NEW reg \in {"A", "X", "Y", "SP"}, NEW v \in UInt8,
           NEW p \in SUBSET Flags
    PROVE  AsLong(s, [s EXCEPT ![reg] = v, !.P = p]) /\ s[reg] \in UInt8
BY DEF CoreState, AsLong

----------------------------------------------------------------------------
(* The opcode table. *)
AllModes == {"imp", "acc", "imm", "rel", "zp", "zpx", "zpy", "abs", "absx", "absy", "ind",
             "indx", "indy"}

LEMMA ModesKnown ==
    ASSUME NEW name, NEW mode \in Modes(name)
    PROVE  mode \in AllModes
BY DEF Modes, AllModes, Reading, Indexed, Shifts

(* No instruction takes fewer than two cycles or, with what a page         *)
(* crossing may add, more than seven.                                      *)
LEMMA CyclesBounded ==
    ASSUME NEW name, NEW mode \in Modes(name)
    PROVE  /\ Cycles(name, mode) \in Nat
           /\ 2 <= Cycles(name, mode) /\ Cycles(name, mode) <= 7
           /\ PageCycle(name, mode) => Cycles(name, mode) <= 6
           /\ name \in DOMAIN Branches => Cycles(name, mode) = 2 /\ mode = "rel"
           /\ name = "BRK" => mode = "imp"
<1>1. name \in DOMAIN Branches => Modes(name) = {"rel"} /\ name \notin DOMAIN OwnCycles /\ name # "JMP"
  <2>. SUFFICES ASSUME name \in DOMAIN Branches
                PROVE  Modes(name) = {"rel"} /\ name \notin DOMAIN OwnCycles /\ name # "JMP"
      OBVIOUS
  <2>1. name \in {"BPL", "BMI", "BVC", "BVS", "BCC", "BCS", "BNE", "BEQ"}
      BY DEF Branches
  <2>2. Modes(name) = {"rel"}
      BY <2>1 DEF Modes, Shifts
  <2>. QED BY <2>1, <2>2 DEF OwnCycles
<1>2. name = "BRK" => mode = "imp"
  <2>1. Modes("BRK") = {"imp"}
      BY DEF Modes, Shifts
  <2>. QED BY <2>1
<1>3. CASE name \in DOMAIN OwnCycles
  <2>1. Cycles(name, mode) \in {3, 4, 6, 7} /\ ~PageCycle(name, mode)
      BY <1>3 DEF Cycles, OwnCycles, PageCycle, Reads
  <2>. QED BY <1>1, <1>2, <1>3, <2>1
<1>4. CASE name \notin DOMAIN OwnCycles /\ name = "JMP"
  <2>1. Cycles(name, mode) \in {3, 5} /\ ~PageCycle(name, mode)
      BY <1>4 DEF Cycles, PageCycle, Reads
  <2>. QED BY <1>1, <1>4, <2>1
<1>5. CASE name \notin DOMAIN OwnCycles /\ name # "JMP" /\ mode \notin DOMAIN AccessCycles
  <2>1. Cycles(name, mode) = 2
      BY <1>5 DEF Cycles
  <2>. QED BY <1>1, <1>2, <2>1
<1>6. CASE name \notin DOMAIN OwnCycles /\ name # "JMP" /\ mode \in DOMAIN AccessCycles
  <2>1. PICK access : access = AccessCycles[mode]
      OBVIOUS
  <2>2. access \in {3, 4, 5, 6} /\ (mode \in Indexed => access \in {3, 4})
        /\ (mode \in {"absx", "absy", "indy"} => access \in {4, 5})
      BY <1>6, <2>1 DEF AccessCycles, Indexed
  <2>3. PICK modify : modify = (IF name \in Modifies THEN 2 ELSE 0)
      OBVIOUS
  <2>4. PICK page : page = (IF mode \in {"absx", "absy", "indy"} /\ name \in Modifies \cup DOMAIN Stores
                           THEN 1 ELSE 0)
      OBVIOUS
  <2>5. Cycles(name, mode) = access + modify + page
      BY <1>6, <2>1, <2>3, <2>4 DEF Cycles
  <2>6. name \in Modifies => mode \in Indexed
    <3>1. name \in Modifies => Modes(name) \subseteq Indexed \cup {"acc"}
        BY DEF Modes, Modifies, Shifts
    <3>. QED BY <1>6, <3>1 DEF AccessCycles
  <2>7. PageCycle(name, mode) => mode \in {"absx", "absy", "indy"} /\ modify = 0 /\ page = 0
      BY <2>3, <2>4 DEF PageCycle, Reads, Modifies, Shifts, Stores
  <2>8. PICK n : n = Cycles(name, mode)
      OBVIOUS
  <2>9. n \in Nat /\ 2 <= n /\ n <= 7 /\ (PageCycle(name, mode) => n <= 6)
      BY <2>2, <2>3, <2>4, <2>5, <2>6, <2>7, <2>8
  <2>10. name \notin DOMAIN Branches /\ name # "BRK"
      BY <1>1, <1>6 DEF AccessCycles, OwnCycles
  <2>. QED BY <2>8, <2>9, <2>10
<1>. QED BY <1>3, <1>4, <1>5, <1>6

(* The instruction at an address of the program. *)
LEMMA DecodedTyped ==
    ASSUME NEW at \in DOMAIN Decoded
    PROVE  LET d == Decoded[at]
           IN  /\ d.mode \in Modes(d.name) /\ d.mode \in AllModes
               /\ d.arg \in UInt16 /\ (Length(d.mode) # 3 => d.arg \in UInt8)
               /\ d.next \in UInt16
               /\ d.cycles = Cycles(d.name, d.mode)
               /\ d.pageCycle = PageCycle(d.name, d.mode)
<1>1. at \in DOMAIN Code /\ at \in UInt16
    BY CodeAssumption DEF Decoded
<1>2. PICK mode, name, arg : mode = Code[at].mode /\ name = Code[at].name /\ arg = Code[at].arg
    OBVIOUS
<1>3. mode \in Modes(name) /\ arg \in IF Length(mode) = 3 THEN UInt16 ELSE UInt8
    BY <1>1, <1>2, CodeAssumption
<1>4. arg \in UInt16
    BY <1>3, Ranges
<1>5. (at + Length(mode)) % 65536 \in UInt16
  <2>1. Length(mode) \in {1, 2, 3}
      BY DEF Length
  <2>2. PICK n \in Nat : n = at + Length(mode)
      BY <1>1, <2>1, Ranges
  <2>. QED BY <2>2, Bytes8
<1>6. Decoded[at] = [name |-> name, mode |-> mode, arg |-> arg, next |-> (at + Length(mode)) % 65536,
                     cycles |-> Cycles(name, mode), pageCycle |-> PageCycle(name, mode)]
    BY <1>1, <1>2 DEF Decoded
<1>. QED BY <1>3, <1>4, <1>5, <1>6, ModesKnown

----------------------------------------------------------------------------
(* Bits: what is said of the eight bits of a byte is said of it.           *)
Weighed(b0, b1, b2, b3, b4, b5, b6, b7) ==
    b0 + 2 * b1 + 4 * b2 + 8 * b3 + 16 * b4 + 32 * b5 + 64 * b6 + 128 * b7

LEMMA BitsRead ==
    ASSUME NEW b0 \in {0, 1}, NEW b1 \in {0, 1}, NEW b2 \in {0, 1}, NEW b3 \in {0, 1},
           NEW b4 \in {0, 1}, NEW b5 \in {0, 1}, NEW b6 \in {0, 1}, NEW b7 \in {0, 1},
           NEW v, v = Weighed(b0, b1, b2, b3, b4, b5, b6, b7)
    PROVE  /\ v \in UInt8
           /\ (HasBit(v, 1) <=> b0 = 1) /\ (HasBit(v, 2) <=> b1 = 1)
           /\ (HasBit(v, 4) <=> b2 = 1) /\ (HasBit(v, 8) <=> b3 = 1)
           /\ (HasBit(v, 16) <=> b4 = 1) /\ (HasBit(v, 32) <=> b5 = 1)
           /\ (HasBit(v, 64) <=> b6 = 1) /\ (HasBit(v, 128) <=> b7 = 1)
<1>1. v \in Nat /\ v < 256
    BY DEF Weighed
<1>2. v \in UInt8
    BY <1>1, Ranges
<1>3. v = b0 + 2 * (b1 + 2 * (b2 + 2 * (b3 + 2 * (b4 + 2 * (b5 + 2 * (b6 + 2 * b7))))))
    BY DEF Weighed
<1>4. PICK v1 \in Nat : v1 = b1 + 2 * (b2 + 2 * (b3 + 2 * (b4 + 2 * (b5 + 2 * (b6 + 2 * b7)))))
    OBVIOUS
<1>5. PICK v2 \in Nat : v2 = b2 + 2 * (b3 + 2 * (b4 + 2 * (b5 + 2 * (b6 + 2 * b7))))
    OBVIOUS
<1>6. PICK v3 \in Nat : v3 = b3 + 2 * (b4 + 2 * (b5 + 2 * (b6 + 2 * b7)))
    OBVIOUS
<1>7. PICK v4 \in Nat : v4 = b4 + 2 * (b5 + 2 * (b6 + 2 * b7))
    OBVIOUS
<1>8. PICK v5 \in Nat : v5 = b5 + 2 * (b6 + 2 * b7)
    OBVIOUS
<1>9. PICK v6 \in Nat : v6 = b6 + 2 * b7
    OBVIOUS
<1>10. /\ v = b0 + 2 * v1 /\ v1 = b1 + 2 * v2 /\ v2 = b2 + 2 * v3 /\ v3 = b3 + 2 * v4
       /\ v4 = b4 + 2 * v5 /\ v5 = b5 + 2 * v6 /\ v6 = b6 + 2 * b7
    BY <1>3, <1>4, <1>5, <1>6, <1>7, <1>8, <1>9
<1>11. /\ v \div 2 = v1 /\ v \div 4 = v2 /\ v \div 8 = v3 /\ v \div 16 = v4 /\ v \div 32 = v5
       /\ v \div 64 = v6 /\ v \div 128 = b7 /\ v \div 1 = v
    BY <1>10
<1>12. /\ v % 2 = b0 /\ v1 % 2 = b1 /\ v2 % 2 = b2 /\ v3 % 2 = b3 /\ v4 % 2 = b4 /\ v5 % 2 = b5
       /\ v6 % 2 = b6 /\ b7 % 2 = b7
    BY <1>10
<1>. QED BY <1>2, <1>11, <1>12 DEF HasBit

LEMMA ByteOfBits ==
    ASSUME NEW v \in UInt8
    PROVE  \E b0 \in {0, 1}, b1 \in {0, 1}, b2 \in {0, 1}, b3 \in {0, 1},
              b4 \in {0, 1}, b5 \in {0, 1}, b6 \in {0, 1}, b7 \in {0, 1} :
               v = Weighed(b0, b1, b2, b3, b4, b5, b6, b7)
<1>1. v \in Nat /\ v < 256
    BY Ranges
<1>2. \A n \in Nat : n % 2 \in {0, 1} /\ n \div 2 \in Nat /\ n = (n % 2) + 2 * (n \div 2)
    OBVIOUS
<1>3. PICK b0 \in {0, 1}, v1 \in Nat : v = b0 + 2 * v1
    BY <1>1, <1>2
<1>4. PICK b1 \in {0, 1}, v2 \in Nat : v1 = b1 + 2 * v2
    BY <1>2
<1>5. PICK b2 \in {0, 1}, v3 \in Nat : v2 = b2 + 2 * v3
    BY <1>2
<1>6. PICK b3 \in {0, 1}, v4 \in Nat : v3 = b3 + 2 * v4
    BY <1>2
<1>7. PICK b4 \in {0, 1}, v5 \in Nat : v4 = b4 + 2 * v5
    BY <1>2
<1>8. PICK b5 \in {0, 1}, v6 \in Nat : v5 = b5 + 2 * v6
    BY <1>2
<1>9. PICK b6 \in {0, 1}, b7 \in Nat : v6 = b6 + 2 * b7
    BY <1>2
<1>10. b7 \in {0, 1}
    BY <1>1, <1>3, <1>4, <1>5, <1>6, <1>7, <1>8, <1>9
<1>11. v = Weighed(b0, b1, b2, b3, b4, b5, b6, b7)
    BY <1>3, <1>4, <1>5, <1>6, <1>7, <1>8, <1>9, <1>10 DEF Weighed
<1>. QED BY <1>10, <1>11

BitWeights == {1, 2, 4, 8, 16, 32, 64, 128}

(* AND, ORA and EOR combine bytes bit by bit, and leave bytes.             *)
THEOREM LogicExact ==
    ASSUME NEW a \in UInt8, NEW m \in UInt8, NEW w \in BitWeights
    PROVE  /\ And(a, m) \in UInt8 /\ (HasBit(And(a, m), w) <=> HasBit(a, w) /\ HasBit(m, w))
           /\ Or(a, m) \in UInt8 /\ (HasBit(Or(a, m), w) <=> HasBit(a, w) \/ HasBit(m, w))
           /\ Xor(a, m) \in UInt8 /\ (HasBit(Xor(a, m), w) <=> ~(HasBit(a, w) <=> HasBit(m, w)))
<1>1. PICK a0 \in {0, 1}, a1 \in {0, 1}, a2 \in {0, 1}, a3 \in {0, 1},
           a4 \in {0, 1}, a5 \in {0, 1}, a6 \in {0, 1}, a7 \in {0, 1} :
               a = Weighed(a0, a1, a2, a3, a4, a5, a6, a7)
    BY ByteOfBits
<1>2. PICK m0 \in {0, 1}, m1 \in {0, 1}, m2 \in {0, 1}, m3 \in {0, 1},
           m4 \in {0, 1}, m5 \in {0, 1}, m6 \in {0, 1}, m7 \in {0, 1} :
               m = Weighed(m0, m1, m2, m3, m4, m5, m6, m7)
    BY ByteOfBits
<1>3. \A x \in {0, 1}, y \in {0, 1} : \E b \in {0, 1}, o \in {0, 1}, d \in {0, 1} :
          /\ b = (IF x = 1 /\ y = 1 THEN 1 ELSE 0)
          /\ o = x + y - b /\ d = x + y - 2 * b
          /\ (b = 1 <=> x = 1 /\ y = 1) /\ (o = 1 <=> x = 1 \/ y = 1) /\ (d = 1 <=> ~(x = 1 <=> y = 1))
    OBVIOUS
<1>. DEFINE Combined(x, y, b, o, d) ==
          /\ b = (IF x = 1 /\ y = 1 THEN 1 ELSE 0)
          /\ o = x + y - b /\ d = x + y - 2 * b
          /\ (b = 1 <=> x = 1 /\ y = 1) /\ (o = 1 <=> x = 1 \/ y = 1) /\ (d = 1 <=> ~(x = 1 <=> y = 1))
<1>4. \A x \in {0, 1}, y \in {0, 1} : \E b \in {0, 1}, o \in {0, 1}, d \in {0, 1} : Combined(x, y, b, o, d)
    BY <1>3
<1>5. PICK b0 \in {0, 1}, o0 \in {0, 1}, d0 \in {0, 1} : Combined(a0, m0, b0, o0, d0)
    BY <1>4
<1>6. PICK b1 \in {0, 1}, o1 \in {0, 1}, d1 \in {0, 1} : Combined(a1, m1, b1, o1, d1)
    BY <1>4
<1>7. PICK b2 \in {0, 1}, o2 \in {0, 1}, d2 \in {0, 1} : Combined(a2, m2, b2, o2, d2)
    BY <1>4
<1>8. PICK b3 \in {0, 1}, o3 \in {0, 1}, d3 \in {0, 1} : Combined(a3, m3, b3, o3, d3)
    BY <1>4
<1>9. PICK b4 \in {0, 1}, o4 \in {0, 1}, d4 \in {0, 1} : Combined(a4, m4, b4, o4, d4)
    BY <1>4
<1>10. PICK b5 \in {0, 1}, o5 \in {0, 1}, d5 \in {0, 1} : Combined(a5, m5, b5, o5, d5)
    BY <1>4
<1>11. PICK b6 \in {0, 1}, o6 \in {0, 1}, d6 \in {0, 1} : Combined(a6, m6, b6, o6, d6)
    BY <1>4
<1>12. PICK b7 \in {0, 1}, o7 \in {0, 1}, d7 \in {0, 1} : Combined(a7, m7, b7, o7, d7)
    BY <1>4
<1>13. /\ (HasBit(a, 1) <=> a0 = 1) /\ (HasBit(a, 2) <=> a1 = 1)
       /\ (HasBit(a, 4) <=> a2 = 1) /\ (HasBit(a, 8) <=> a3 = 1)
       /\ (HasBit(a, 16) <=> a4 = 1) /\ (HasBit(a, 32) <=> a5 = 1)
       /\ (HasBit(a, 64) <=> a6 = 1) /\ (HasBit(a, 128) <=> a7 = 1)
    BY <1>1, BitsRead
<1>14. /\ (HasBit(m, 1) <=> m0 = 1) /\ (HasBit(m, 2) <=> m1 = 1)
       /\ (HasBit(m, 4) <=> m2 = 1) /\ (HasBit(m, 8) <=> m3 = 1)
       /\ (HasBit(m, 16) <=> m4 = 1) /\ (HasBit(m, 32) <=> m5 = 1)
       /\ (HasBit(m, 64) <=> m6 = 1) /\ (HasBit(m, 128) <=> m7 = 1)
    BY <1>2, BitsRead
<1>15. And(a, m) = Weighed(b0, b1, b2, b3, b4, b5, b6, b7)
  <2>. DEFINE both(w_) == IF HasBit(a, w_) /\ HasBit(m, w_) THEN w_ ELSE 0
  <2>1. both(1) = b0 /\ both(2) = 2 * b1 /\ both(4) = 4 * b2 /\ both(8) = 8 * b3
      BY <1>5, <1>6, <1>7, <1>8, <1>13, <1>14
  <2>2. both(16) = 16 * b4 /\ both(32) = 32 * b5 /\ both(64) = 64 * b6 /\ both(128) = 128 * b7
      BY <1>9, <1>10, <1>11, <1>12, <1>13, <1>14
  <2>3. And(a, m) = both(1) + both(2) + both(4) + both(8) + both(16) + both(32) + both(64) + both(128)
      BY DEF And
  <2>. HIDE DEF both
  <2>. QED BY <2>1, <2>2, <2>3 DEF Weighed
<1>16. PICK n : n = And(a, m)
    OBVIOUS
<1>17. Or(a, m) = a + m - n /\ Xor(a, m) = a + m - 2 * n
    BY <1>16 DEF Or, Xor
<1>18. Or(a, m) = Weighed(o0, o1, o2, o3, o4, o5, o6, o7)
    BY <1>1, <1>2, <1>5, <1>6, <1>7, <1>8, <1>9, <1>10, <1>11, <1>12, <1>15, <1>16, <1>17 DEF Weighed
<1>19. Xor(a, m) = Weighed(d0, d1, d2, d3, d4, d5, d6, d7)
    BY <1>1, <1>2, <1>5, <1>6, <1>7, <1>8, <1>9, <1>10, <1>11, <1>12, <1>15, <1>16, <1>17 DEF Weighed
<1>20. PICK q, r : q = Or(a, m) /\ r = Xor(a, m)
    OBVIOUS
<1>21. /\ n \in UInt8
       /\ (HasBit(n, 1) <=> b0 = 1) /\ (HasBit(n, 2) <=> b1 = 1)
       /\ (HasBit(n, 4) <=> b2 = 1) /\ (HasBit(n, 8) <=> b3 = 1)
       /\ (HasBit(n, 16) <=> b4 = 1) /\ (HasBit(n, 32) <=> b5 = 1)
       /\ (HasBit(n, 64) <=> b6 = 1) /\ (HasBit(n, 128) <=> b7 = 1)
    BY <1>15, <1>16, BitsRead
<1>22. /\ q \in UInt8
       /\ (HasBit(q, 1) <=> o0 = 1) /\ (HasBit(q, 2) <=> o1 = 1)
       /\ (HasBit(q, 4) <=> o2 = 1) /\ (HasBit(q, 8) <=> o3 = 1)
       /\ (HasBit(q, 16) <=> o4 = 1) /\ (HasBit(q, 32) <=> o5 = 1)
       /\ (HasBit(q, 64) <=> o6 = 1) /\ (HasBit(q, 128) <=> o7 = 1)
    BY <1>18, <1>20, BitsRead
<1>23. /\ r \in UInt8
       /\ (HasBit(r, 1) <=> d0 = 1) /\ (HasBit(r, 2) <=> d1 = 1)
       /\ (HasBit(r, 4) <=> d2 = 1) /\ (HasBit(r, 8) <=> d3 = 1)
       /\ (HasBit(r, 16) <=> d4 = 1) /\ (HasBit(r, 32) <=> d5 = 1)
       /\ (HasBit(r, 64) <=> d6 = 1) /\ (HasBit(r, 128) <=> d7 = 1)
    BY <1>19, <1>20, BitsRead
<1>24. /\ HasBit(n, w) <=> HasBit(a, w) /\ HasBit(m, w)
       /\ HasBit(q, w) <=> HasBit(a, w) \/ HasBit(m, w)
       /\ HasBit(r, w) <=> ~(HasBit(a, w) <=> HasBit(m, w))
    BY <1>5, <1>6, <1>7, <1>8, <1>9, <1>10, <1>11, <1>12, <1>13, <1>14, <1>21, <1>22, <1>23 DEF BitWeights
<1>. QED BY <1>16, <1>20, <1>21, <1>22, <1>23, <1>24

(* The status byte PHP, BRK and the interrupts push is a byte with bit 5   *)
(* set and B as they mean it, and PLP and RTI read the flags out of it     *)
(* that went in.                                                           *)
THEOREM StatusByteExact ==
    ASSUME NEW p \in SUBSET Flags, NEW brk \in BOOLEAN
    PROVE  /\ FlagByte8(p, brk) \in UInt8
           /\ FlagsOf(FlagByte8(p, brk)) = p
           /\ HasBit(FlagByte8(p, brk), 32)
           /\ HasBit(FlagByte8(p, brk), 16) <=> brk
<1>1. \A f : \E b \in {0, 1} : b = (IF f \in p THEN 1 ELSE 0) /\ (b = 1 <=> f \in p)
    OBVIOUS
<1>2. PICK c \in {0, 1} : c = (IF "C" \in p THEN 1 ELSE 0) /\ (c = 1 <=> "C" \in p)
    BY <1>1
<1>3. PICK z \in {0, 1} : z = (IF "Z" \in p THEN 1 ELSE 0) /\ (z = 1 <=> "Z" \in p)
    BY <1>1
<1>4. PICK i \in {0, 1} : i = (IF "I" \in p THEN 1 ELSE 0) /\ (i = 1 <=> "I" \in p)
    BY <1>1
<1>5. PICK d \in {0, 1} : d = (IF "D" \in p THEN 1 ELSE 0) /\ (d = 1 <=> "D" \in p)
    BY <1>1
<1>6. PICK v \in {0, 1} : v = (IF "V" \in p THEN 1 ELSE 0) /\ (v = 1 <=> "V" \in p)
    BY <1>1
<1>7. PICK n \in {0, 1} : n = (IF "N" \in p THEN 1 ELSE 0) /\ (n = 1 <=> "N" \in p)
    BY <1>1
<1>8. PICK b \in {0, 1} : b = (IF brk THEN 1 ELSE 0) /\ (b = 1 <=> brk)
    OBVIOUS
<1>9. PICK one \in {0, 1} : one = 1
    OBVIOUS
<1>10. PICK byte : byte = FlagByte8(p, brk)
    OBVIOUS
<1>11. byte = Weighed(c, z, i, d, b, one, v, n)
  <2>. DEFINE on(f) == IF f \in p THEN Weights[f] ELSE 0
  <2>1. on("C") = c /\ on("Z") = 2 * z /\ on("I") = 4 * i
      BY <1>2, <1>3, <1>4 DEF Weights
  <2>2. on("D") = 8 * d /\ on("V") = 64 * v /\ on("N") = 128 * n
      BY <1>5, <1>6, <1>7 DEF Weights
  <2>3. byte = on("C") + on("Z") + on("I") + on("D") + on("V") + on("N") + 32
               + (IF brk THEN 16 ELSE 0)
      BY <1>10 DEF FlagByte8
  <2>4. PICK sixteen : sixteen = (IF brk THEN 16 ELSE 0)
      OBVIOUS
  <2>5. sixteen = 16 * b
      BY <1>8, <2>4
  <2>6. byte = on("C") + on("Z") + on("I") + on("D") + on("V") + on("N") + 32 + sixteen
      BY <2>3, <2>4
  <2>. HIDE DEF on
  <2>. QED BY <1>9, <2>1, <2>2, <2>5, <2>6 DEF Weighed
<1>12. /\ byte \in UInt8
       /\ (HasBit(byte, 1) <=> c = 1) /\ (HasBit(byte, 2) <=> z = 1)
       /\ (HasBit(byte, 4) <=> i = 1) /\ (HasBit(byte, 8) <=> d = 1)
       /\ (HasBit(byte, 16) <=> b = 1) /\ (HasBit(byte, 32) <=> one = 1)
       /\ (HasBit(byte, 64) <=> v = 1) /\ (HasBit(byte, 128) <=> n = 1)
    BY <1>11, BitsRead
<1>13. FlagsOf(byte) = p
  <2>1. \A f \in Flags : HasBit(byte, Weights[f]) <=> f \in p
      BY <1>2, <1>3, <1>4, <1>5, <1>6, <1>7, <1>12 DEF Flags, Weights
  <2>. QED BY <2>1 DEF FlagsOf
<1>. QED BY <1>8, <1>9, <1>10, <1>12, <1>13

----------------------------------------------------------------------------
(* Flags and arithmetic leave flags and bytes.                             *)
LEMMA FlagsTyped ==
    ASSUME NEW p \in SUBSET Flags, NEW v
    PROVE  /\ SetZN(p, v) \in SUBSET Flags
           /\ \A f \in Flags, on \in BOOLEAN : SetFlag(p, f, on) \in SUBSET Flags
           /\ \A b : FlagsOf(b) \in SUBSET Flags
<1>1. \A q \in SUBSET Flags, f \in Flags : \A on : SetFlag(q, f, on) \in SUBSET Flags
    BY DEF SetFlag
<1>2. "Z" \in Flags /\ "N" \in Flags
    BY DEF Flags
<1>3. SetZN(p, v) \in SUBSET Flags
    BY <1>1, <1>2 DEF SetZN
<1>4. \A b : FlagsOf(b) \in SUBSET Flags
    BY DEF FlagsOf
<1>. QED BY <1>1, <1>3, <1>4

LEMMA FlagSet ==
    ASSUME NEW p \in SUBSET Flags, NEW f \in Flags, NEW on
    PROVE  SetFlag(p, f, on) \in SUBSET Flags
BY DEF SetFlag

LEMMA IntBytes ==
    ASSUME NEW x \in Int
    PROVE  x % 256 \in UInt8
<1>1. x % 256 \in Nat /\ x % 256 < 256
    OBVIOUS
<1>. QED BY <1>1, Ranges

LEMMA DigitsTyped ==
    ASSUME NEW a \in UInt8, NEW m \in UInt8, NEW c \in {0, 1}
    PROVE  High(a) \in Int /\ AddDigits(a, m, c) \in Int /\ SubDigits(a, m, c) \in Int
<1>1. a \in Nat /\ m \in Nat
    BY Ranges
<1>2. PICK l \in Int, k \in Int : l = Low(a) /\ k = Low(m)
    BY <1>1 DEF Low
<1>3. AddDigits(a, m, c) = (IF l + k + c >= 10 THEN ((l + k + c + 6) % 16) + 16 ELSE l + k + c)
    BY <1>2 DEF AddDigits
<1>4. SubDigits(a, m, c) = (IF l - k - c < 0 THEN ((l - k - c - 6) % 16) - 16 ELSE l - k - c)
    BY <1>2 DEF SubDigits
<1>5. PICK s \in Int, d \in Int : s = l + k + c /\ d = l - k - c
    BY <1>2
<1>6. (s + 6) % 16 \in Int /\ (d - 6) % 16 \in Int
    BY <1>5
<1>7. AddDigits(a, m, c) \in Int /\ SubDigits(a, m, c) \in Int
    BY <1>3, <1>4, <1>5, <1>6
<1>. QED BY <1>1, <1>7 DEF High

(* Whatever the digits, and in either mode. *)
LEMMA ArithmeticTyped ==
    ASSUME NEW a \in UInt8, NEW m \in UInt8, NEW p \in SUBSET Flags
    PROVE  /\ Adc(a, m, p).a \in UInt8 /\ Adc(a, m, p).p \in SUBSET Flags
           /\ Sbc(a, m, p).a \in UInt8 /\ Sbc(a, m, p).p \in SUBSET Flags
           /\ Compare(a, m, p) \in SUBSET Flags
<1>1. a \in Nat /\ m \in Nat /\ m < 256
    BY Ranges
<1>2. PICK i \in UInt8 : i = 255 - m
    BY <1>1, Ranges
<1>3. PICK c \in {0, 1} : c = Carry(p)
    BY DEF Carry
<1>4. "C" \in Flags /\ "Z" \in Flags /\ "V" \in Flags /\ "N" \in Flags
    BY DEF Flags
<1>5. ASSUME NEW n \in UInt8
      PROVE  AddBinary(a, n, p).a \in UInt8 /\ AddBinary(a, n, p).p \in SUBSET Flags
  <2>1. n \in Nat
      BY Ranges
  <2>2. PICK r : r = (a + n + Carry(p)) % 256
      OBVIOUS
  <2>3. PICK on : on = (a + n + Carry(p) > 255)
      OBVIOUS
  <2>4. AddBinary(a, n, p) =
            [a |-> r, p |-> SetZN(SetFlag(SetFlag(p, "V", Overflows(a, n, r)), "C", on), r)]
      BY <2>2, <2>3, Zenon DEF AddBinary
  <2>5. r \in UInt8
      BY <1>1, <1>3, <2>1, <2>2, IntBytes
  <2>6. SetFlag(p, "V", Overflows(a, n, r)) \in SUBSET Flags
      BY <1>4, FlagSet
  <2>7. SetFlag(SetFlag(p, "V", Overflows(a, n, r)), "C", on) \in SUBSET Flags
      BY <1>4, <2>6, FlagSet
  <2>8. SetZN(SetFlag(SetFlag(p, "V", Overflows(a, n, r)), "C", on), r) \in SUBSET Flags
      BY <2>7, FlagsTyped
  <2>. QED BY <2>4, <2>5, <2>8
<1>6. AddDecimal(a, m, p).a \in UInt8 /\ AddDecimal(a, m, p).p \in SUBSET Flags
  <2>1. High(a) \in Int /\ High(m) \in Int /\ AddDigits(a, m, c) \in Int
      BY DigitsTyped
  <2>2. PICK sum \in Int : sum = High(a) + High(m) + AddDigits(a, m, c)
      BY <2>1
  <2>3. PICK fixed \in Int : fixed = (IF sum >= 160 THEN sum + 96 ELSE sum)
      OBVIOUS
  <2>4. PICK n, v, s, z : /\ n = Bit7(sum % 256) /\ v = Overflows(a, m, sum % 256)
                          /\ s = (fixed >= 256) /\ z = ((a + m + c) % 256 = 0)
      OBVIOUS
  <2>5. AddDecimal(a, m, p) =
            [a |-> fixed % 256,
             p |-> SetFlag(SetFlag(SetFlag(SetFlag(p, "N", n), "V", v), "C", s), "Z", z)]
    <3>1. /\ sum = High(a) + High(m) + AddDigits(a, m, Carry(p))
          /\ z = ((a + m + Carry(p)) % 256 = 0)
        BY <1>3, <2>2, <2>4
    <3>. DEFINE all == High(a) + High(m) + AddDigits(a, m, Carry(p))
                all2 == IF all >= 160 THEN all + 96 ELSE all
                nv == SetFlag(SetFlag(p, "N", Bit7(all % 256)), "V", Overflows(a, m, all % 256))
    <3>2. AddDecimal(a, m, p) =
              [a |-> all2 % 256,
               p |-> SetFlag(SetFlag(nv, "C", all2 >= 256), "Z", (a + m + Carry(p)) % 256 = 0)]
        BY Zenon DEF AddDecimal
    <3>3. all = sum
        BY <3>1
    <3>. HIDE DEF all
    <3>4. all2 = fixed /\ Bit7(all % 256) = n /\ Overflows(a, m, all % 256) = v
        BY <2>3, <2>4, <3>3
    <3>5. (all2 >= 256) = s
        BY <2>4, <3>4
    <3>. HIDE DEF all2
    <3>6. nv = SetFlag(SetFlag(p, "N", n), "V", v)
        BY <3>4
    <3>. HIDE DEF nv
    <3>. QED BY <3>1, <3>2, <3>4, <3>5, <3>6, Zenon, SMTT(30)
  <2>6. SetFlag(p, "N", n) \in SUBSET Flags
      BY <1>4, FlagSet
  <2>7. SetFlag(SetFlag(p, "N", n), "V", v) \in SUBSET Flags
      BY <1>4, <2>6, FlagSet
  <2>8. SetFlag(SetFlag(SetFlag(p, "N", n), "V", v), "C", s) \in SUBSET Flags
      BY <1>4, <2>7, FlagSet
  <2>9. SetFlag(SetFlag(SetFlag(SetFlag(p, "N", n), "V", v), "C", s), "Z", z) \in SUBSET Flags
      BY <1>4, <2>8, FlagSet
  <2>. QED BY <2>5, <2>9, IntBytes
<1>7. SubDecimal(a, m, 1 - c) \in UInt8
  <2>1. PICK b \in {0, 1} : b = 1 - c
      OBVIOUS
  <2>2. High(a) \in Int /\ High(m) \in Int /\ SubDigits(a, m, b) \in Int
      BY DigitsTyped
  <2>3. PICK diff \in Int : diff = High(a) - High(m) + SubDigits(a, m, b)
      BY <2>2
  <2>4. PICK fixed \in Int : fixed = (IF diff < 0 THEN diff - 96 ELSE diff)
      OBVIOUS
  <2>5. SubDecimal(a, m, 1 - c) = fixed % 256
    <3>1. SubDecimal(a, m, b) = fixed % 256
        BY <2>3, <2>4, Zenon DEF SubDecimal
    <3>. QED BY <2>1, <3>1
  <2>. QED BY <2>5, IntBytes
<1>8. Adc(a, m, p).a \in UInt8 /\ Adc(a, m, p).p \in SUBSET Flags
    BY <1>5, <1>6, Zenon DEF Adc
<1>9. Sbc(a, m, p).a \in UInt8 /\ Sbc(a, m, p).p \in SUBSET Flags
  <2>1. PICK binary : binary = AddBinary(a, i, p) /\ binary.a \in UInt8 /\ binary.p \in SUBSET Flags
      BY <1>5
  <2>2. Sbc(a, m, p) = (IF "D" \in p THEN [a |-> SubDecimal(a, m, 1 - c), p |-> binary.p] ELSE binary)
      BY <1>2, <1>3, <2>1 DEF Sbc
  <2>3. PICK d : d = SubDecimal(a, m, 1 - c)
      OBVIOUS
  <2>. QED BY <1>7, <2>1, <2>2, <2>3
<1>10. Compare(a, m, p) \in SUBSET Flags
  <2>1. SetFlag(p, "C", a >= m) \in SUBSET Flags
      BY <1>4, FlagSet
  <2>. QED BY <2>1, FlagsTyped DEF Compare
<1>. QED BY <1>8, <1>9, <1>10

----------------------------------------------------------------------------
(* Operands and the cost of the instruction at PC.                         *)
Fetched == core \in CoreState /\ core.PC \in DOMAIN Decoded

(* t is a state that has taken two to seven cycles more than s. *)
Lasts(s, t) == t \in CoreState /\ s.cycles + 2 <= t.cycles /\ t.cycles <= s.cycles + 7

LEMMA OperandTyped ==
    ASSUME Fetched
    PROVE  /\ core.A \in UInt8 /\ core.X \in UInt8 /\ core.Y \in UInt8 /\ core.SP \in UInt8
           /\ core.P \in SUBSET Flags
           /\ inst.next \in UInt16
           /\ inst.mode \in Modes(inst.name)
           /\ Value \in UInt8 /\ Old \in UInt8
<1>1. /\ core.A \in UInt8 /\ core.X \in UInt8 /\ core.Y \in UInt8 /\ core.SP \in UInt8
      /\ core.P \in SUBSET Flags
    BY DEF Fetched, CoreState
<1>2. /\ inst.next \in UInt16
      /\ inst.mode \in Modes(inst.name)
      /\ Length(inst.mode) # 3 => inst.arg \in UInt8
    BY DecodedTyped DEF Fetched, inst
<1>3. Length("imm") = 2
    BY DEF Length
<1>4. Peek(core, Address) \in UInt8
    BY PeekTyped DEF Fetched
<1>5. Value \in UInt8
    BY <1>2, <1>3, <1>4 DEF Value
<1>6. Old \in UInt8
    BY <1>1, <1>4 DEF Old
<1>. QED BY <1>1, <1>2, <1>5, <1>6

LEMMA TargetTyped ==
    ASSUME Fetched, inst.mode \in {"abs", "ind", "rel"}
    PROVE  Address \in UInt16
<1>1. inst.arg \in UInt16 /\ inst.next \in UInt16 /\ (Length(inst.mode) # 3 => inst.arg \in UInt8)
    BY DecodedTyped DEF Fetched, inst
<1>2. CASE inst.mode = "abs"
    BY <1>1, <1>2 DEF Address
<1>3. CASE inst.mode = "ind"
  <2>1. Address = ReadBug16(inst.arg)
      BY <1>3 DEF Address
  <2>2. \A a : Peek(core, a) \in UInt8
      BY PeekTyped DEF Fetched
  <2>3. ReadBug16(inst.arg) \in UInt16
      BY <2>2, WordTyped DEF ReadBug16
  <2>. QED BY <2>1, <2>3
<1>4. CASE inst.mode = "rel"
  <2>1. Address = (inst.next + (IF inst.arg < 128 THEN inst.arg ELSE inst.arg - 256)) % 65536
      BY <1>4 DEF Address
  <2>2. PICK n \in Int : n = inst.next + (IF inst.arg < 128 THEN inst.arg ELSE inst.arg - 256)
      BY <1>1, Ranges
  <2>3. n % 65536 \in Nat /\ n % 65536 < 65536
      BY <2>2
  <2>. QED BY <2>1, <2>2, <2>3, Ranges
<1>. QED BY <1>2, <1>3, <1>4

LEMMA ExecutedTyped ==
    ASSUME Fetched, NEW cost \in {0, 1, 2}, cost = 0 \/ inst.name \in DOMAIN Branches
    PROVE  Lasts(core, Executed(cost))
<1>1. PICK name, mode : name = inst.name /\ mode = inst.mode
    OBVIOUS
<1>2. /\ inst.next \in UInt16 /\ mode \in Modes(name)
      /\ inst.cycles = Cycles(name, mode) /\ inst.pageCycle = PageCycle(name, mode)
    BY <1>1, DecodedTyped DEF Fetched, inst
<1>3. PICK n \in Nat : /\ n = Cycles(name, mode) /\ 2 <= n /\ n <= 7
                       /\ PageCycle(name, mode) => n <= 6
                       /\ name \in DOMAIN Branches => n = 2
    BY <1>2, CyclesBounded
<1>4. PICK page : page = (IF inst.pageCycle /\ PageCrossed THEN 1 ELSE 0)
    OBVIOUS
<1>5. page \in {0, 1} /\ (page = 1 => n <= 6)
    BY <1>2, <1>3, <1>4
<1>6. PICK more : more = inst.cycles + cost + page
    OBVIOUS
<1>7. more \in Nat /\ 2 <= more /\ more <= 7
    BY <1>1, <1>2, <1>3, <1>5, <1>6
<1>8. core.cycles \in Nat
    BY DEF Fetched, CoreState
<1>9. PICK total \in Nat : total = core.cycles + more
    BY <1>7, <1>8
<1>10. total = core.cycles + inst.cycles + cost + (IF inst.pageCycle /\ PageCrossed THEN 1 ELSE 0)
    BY <1>2, <1>3, <1>4, <1>5, <1>6, <1>8, <1>9
<1>11. Executed(cost) = [core EXCEPT !.PC = inst.next, !.cycles = total]
    BY <1>10 DEF Executed
<1>12. Executed(cost) \in CoreState /\ Executed(cost).cycles = total
    BY <1>2, <1>11 DEF Fetched, CoreState
<1>. QED BY <1>7, <1>8, <1>9, <1>12 DEF Lasts

LEMMA LastsAsLong ==
    ASSUME NEW s \in CoreState, NEW t, NEW u, Lasts(s, t), AsLong(t, u)
    PROVE  Lasts(s, u)
BY DEF Lasts, AsLong

LEMMA AsLongTwice ==
    ASSUME NEW s, NEW t, NEW u, AsLong(s, t), AsLong(t, u)
    PROVE  AsLong(s, u)
BY DEF AsLong

----------------------------------------------------------------------------
(* Pushing and pulling.                                                    *)
LEMMA PushByteTyped ==
    ASSUME NEW s \in CoreState, NEW v \in UInt8
    PROVE  AsLong(s, PushByte(s, v))
<1>1. PICK t : t = Poke(s, 256 + s.SP, v)
    OBVIOUS
<1>2. AsLong(s, t) /\ t \in CoreState
    BY <1>1, PokeTyped DEF AsLong
<1>3. PICK sp : sp = (t.SP + 255) % 256
    OBVIOUS
<1>4. sp \in UInt8
  <2>1. t.SP \in Nat
      BY <1>2, Ranges DEF CoreState
  <2>2. PICK n \in Nat : n = t.SP + 255
      BY <2>1
  <2>. QED BY <1>3, <2>2, Bytes8
<1>5. PushByte(s, v) = [t EXCEPT !.SP = sp]
    BY <1>1, <1>3 DEF PushByte
<1>6. AsLong(t, PushByte(s, v))
    BY <1>2, <1>4, <1>5 DEF CoreState, AsLong
<1>. QED BY <1>2, <1>6, AsLongTwice

LEMMA PullByteTyped ==
    ASSUME NEW s \in CoreState
    PROVE  AsLong(s, PullByte(s)) /\ Pulled(s) \in UInt8
<1>1. PICK sp : sp = (s.SP + 1) % 256
    OBVIOUS
<1>2. sp \in UInt8
  <2>1. s.SP \in Nat
      BY Ranges DEF CoreState
  <2>2. PICK n \in Nat : n = s.SP + 1
      BY <2>1
  <2>. QED BY <1>1, <2>2, Bytes8
<1>3. PullByte(s) = [s EXCEPT !.SP = sp]
    BY <1>1 DEF PullByte
<1>4. PullByte(s) \in CoreState /\ PullByte(s).cycles = s.cycles
    BY <1>2, <1>3 DEF CoreState
<1>5. Pulled(s) \in UInt8
    BY PeekTyped DEF Pulled
<1>. QED BY <1>4, <1>5 DEF AsLong

LEMMA PushWordTyped ==
    ASSUME NEW s \in CoreState, NEW w \in UInt16
    PROVE  AsLong(s, PushWord(s, w))
<1>1. PICK hi \in UInt8, lo \in UInt8 : hi = w \div 256 /\ lo = w % 256
    BY Ranges, Bytes8
<1>2. PICK t : t = PushByte(s, hi)
    OBVIOUS
<1>3. AsLong(s, t) /\ t \in CoreState
    BY <1>2, PushByteTyped DEF AsLong
<1>4. AsLong(t, PushByte(t, lo))
    BY <1>3, PushByteTyped
<1>5. PushWord(s, w) = PushByte(t, lo)
    BY <1>1, <1>2 DEF PushWord
<1>. QED BY <1>3, <1>4, <1>5, AsLongTwice

LEMMA SetPC ==
    ASSUME NEW s \in CoreState, NEW w \in UInt16
    PROVE  AsLong(s, [s EXCEPT !.PC = w])
BY DEF CoreState, AsLong

LEMMA SetP ==
    ASSUME NEW s \in CoreState, NEW p \in SUBSET Flags
    PROVE  AsLong(s, [s EXCEPT !.P = p])
BY DEF CoreState, AsLong

LEMMA InterruptedTyped ==
    ASSUME NEW s \in CoreState, NEW entry \in UInt16, NEW brk \in BOOLEAN
    PROVE  AsLong(s, Interrupted(s, entry, brk))
<1>1. s.PC \in UInt16 /\ s.P \in SUBSET Flags
    BY DEF CoreState
<1>2. PICK t : t = PushWord(s, s.PC)
    OBVIOUS
<1>3. AsLong(s, t) /\ t \in CoreState
    BY <1>1, <1>2, PushWordTyped DEF AsLong
<1>4. PICK f \in UInt8 : f = FlagByte8(s.P, brk)
    BY <1>1, StatusByteExact
<1>5. PICK u : u = PushByte(t, f)
    OBVIOUS
<1>6. AsLong(t, u) /\ u \in CoreState
    BY <1>3, <1>5, PushByteTyped DEF AsLong
<1>7. PICK p \in SUBSET Flags : p = u.P \cup {"I"}
    BY <1>6 DEF CoreState, Flags
<1>8. Interrupted(s, entry, brk) = [u EXCEPT !.P = p, !.PC = entry]
    BY <1>2, <1>4, <1>5, <1>7 DEF Interrupted
<1>9. AsLong(u, Interrupted(s, entry, brk))
    BY <1>6, <1>7, <1>8 DEF CoreState, AsLong
<1>10. AsLong(s, u)
    BY <1>3, <1>6, AsLongTwice
<1>. QED BY <1>9, <1>10, AsLongTwice

LEMMA PulledPCTyped ==
    ASSUME NEW s \in CoreState, NEW plus \in {0, 1}
    PROVE  AsLong(s, PulledPC(s, plus))
<1>1. PICK t : t = PullByte(s)
    OBVIOUS
<1>2. AsLong(s, t) /\ t \in CoreState
    BY <1>1, PullByteTyped DEF AsLong
<1>3. PICK u : u = PullByte(t)
    OBVIOUS
<1>4. AsLong(t, u) /\ u \in CoreState
    BY <1>2, <1>3, PullByteTyped DEF AsLong
<1>5. PICK lo \in UInt8, hi \in UInt8 : lo = Pulled(s) /\ hi = Pulled(t)
    BY <1>2, PullByteTyped
<1>6. PICK w \in UInt16 : w = (Word(lo, hi) + plus) % 65536
  <2>1. Word(lo, hi) \in Nat
      BY WordTyped, Ranges
  <2>2. PICK n \in Nat : n = Word(lo, hi) + plus
      BY <2>1
  <2>. QED BY <2>2, Bytes8
<1>7. PulledPC(s, plus) = [u EXCEPT !.PC = w]
    BY <1>1, <1>3, <1>5, <1>6 DEF PulledPC
<1>8. AsLong(u, PulledPC(s, plus))
    BY <1>4, <1>7, SetPC
<1>. QED BY <1>2, <1>4, <1>8, AsLongTwice

----------------------------------------------------------------------------
(* Instruction by instruction.                                             *)
LEMMA Runs ==
    ASSUME Fetched
    PROVE  Executed(0) \in CoreState /\ Lasts(core, Executed(0))
BY ExecutedTyped DEF Lasts

LEMMA SetRegTyped ==
    ASSUME Fetched, NEW reg \in {"A", "X", "Y", "SP"}, NEW v \in UInt8
    PROVE  SetReg(reg, v) \in CoreState /\ Lasts(core, SetReg(reg, v))
<1>1. PICK e \in CoreState : e = Executed(0) /\ Lasts(core, e)
    BY Runs
<1>2. PICK p \in SUBSET Flags : p = SetZN(e.P, v)
    BY FlagsTyped DEF CoreState
<1>3. [e EXCEPT ![reg] = v, !.P = p] = [e EXCEPT ![reg] = v, !.P = SetZN(@, v)]
    BY <1>2
<1>4. SetReg(reg, v) = [e EXCEPT ![reg] = v, !.P = p]
    BY <1>1, <1>3 DEF SetReg
<1>5. AsLong(e, SetReg(reg, v))
  <2>1. AsLong(e, [e EXCEPT ![reg] = v, !.P = p])
      BY <1>1, <1>2, RegisterSet, Zenon
  <2>. QED BY <1>4, <2>1
<1>. QED BY <1>1, <1>5, LastsAsLong DEF Fetched, AsLong

LEMMA MovingRuns ==
    ASSUME Fetched, Load \/ Store \/ Transfer \/ SetStack
    PROVE  Lasts(core, core')
<1>1. PICK e \in CoreState : e = Executed(0) /\ Lasts(core, e)
    BY Runs
<1>2. CASE Load
  <2>1. PICK reg \in {"A", "X", "Y"} : reg = Loads[inst.name] /\ core' = SetReg(reg, Value)
      BY <1>2 DEF Load, Loads, Done
  <2>2. PICK v \in UInt8 : v = Value
      BY OperandTyped
  <2>. QED BY <2>1, <2>2, SetRegTyped
<1>3. CASE Store
  <2>1. PICK reg \in {"A", "X", "Y"} :
            reg = Stores[inst.name] /\ core' = Poke(Executed(0), Address, core[reg])
      BY <1>3 DEF Store, Stores, Done
  <2>2. PICK v \in UInt8 : v = core[reg]
      BY OperandTyped
  <2>3. PICK a : a = Address
      OBVIOUS
  <2>4. AsLong(e, core')
      BY <1>1, <2>1, <2>2, <2>3, PokeTyped
  <2>. QED BY <1>1, <2>4, LastsAsLong DEF Fetched
<1>4. CASE Transfer
  <2>1. PICK move : move = Moves[inst.name]
      OBVIOUS
  <2>2. core' = SetReg(move[2], core[move[1]]) /\ inst.name \in DOMAIN Moves
      BY <1>4, <2>1, Zenon DEF Transfer, Done
  <2>3. move \in {<<"A", "X">>, <<"A", "Y">>, <<"X", "A">>, <<"Y", "A">>, <<"SP", "X">>}
      BY <2>1, <2>2 DEF Moves
  <2>4. move[1] \in {"A", "X", "Y", "SP"} /\ move[2] \in {"A", "X", "Y", "SP"}
      BY <2>3
  <2>5. core[move[1]] \in UInt8
      BY <2>4, OperandTyped
  <2>. QED BY <2>2, <2>4, <2>5, SetRegTyped
<1>5. CASE SetStack
  <2>1. core' = [e EXCEPT !.SP = core.X]
      BY <1>1, <1>5 DEF SetStack, Done
  <2>2. AsLong(e, core')
      BY <2>1, OperandTyped DEF CoreState, AsLong
  <2>. QED BY <1>1, <2>2, LastsAsLong DEF Fetched
<1>. QED BY <1>2, <1>3, <1>4, <1>5

LEMMA StackRuns ==
    ASSUME Fetched, PushA \/ PushP \/ PullA \/ PullP
    PROVE  Lasts(core, core')
<1>1. PICK e \in CoreState : e = Executed(0) /\ Lasts(core, e)
    BY Runs
<1>2. CASE PushA
  <2>1. AsLong(e, core')
      BY <1>1, <1>2, OperandTyped, PushByteTyped DEF PushA, Done
  <2>. QED BY <1>1, <2>1, LastsAsLong DEF Fetched
<1>3. CASE PushP
  <2>1. PICK f \in UInt8 : f = FlagByte8(core.P, TRUE)
      BY OperandTyped, StatusByteExact
  <2>2. AsLong(e, core')
      BY <1>1, <1>3, <2>1, PushByteTyped DEF PushP, Done
  <2>. QED BY <1>1, <2>2, LastsAsLong DEF Fetched
<1>4. CASE PullA
  <2>1. PICK v \in UInt8 : v = Pulled(core)
      BY PullByteTyped DEF Fetched
  <2>2. PICK t \in CoreState : t = SetReg("A", v) /\ Lasts(core, t)
      BY SetRegTyped
  <2>3. core' = PullByte(t)
      BY <1>4, <2>1, <2>2 DEF PullA, Done
  <2>4. AsLong(t, core')
      BY <2>3, PullByteTyped
  <2>. QED BY <2>2, <2>4, LastsAsLong DEF Fetched
<1>5. CASE PullP
  <2>1. PICK p \in SUBSET Flags : p = FlagsOf(Pulled(core))
      BY DEF FlagsOf
  <2>2. PICK t \in CoreState : t = PullByte(e) /\ AsLong(e, t)
      BY PullByteTyped DEF AsLong
  <2>3. core' = [t EXCEPT !.P = p]
      BY <1>1, <1>5, <2>1, <2>2 DEF PullP, Done
  <2>4. AsLong(t, core')
      BY <2>3, SetP
  <2>5. AsLong(e, core')
      BY <2>2, <2>4, AsLongTwice
  <2>. QED BY <1>1, <2>5, LastsAsLong DEF Fetched
<1>. QED BY <1>2, <1>3, <1>4, <1>5

LEMMA ComputingRuns ==
    ASSUME Fetched, Logic \/ TestBits \/ Arithmetic \/ CompareReg
    PROVE  Lasts(core, core')
<1>1. PICK e \in CoreState : e = Executed(0) /\ Lasts(core, e)
    BY Runs
<1>2. PICK a \in UInt8, v \in UInt8, p \in SUBSET Flags : a = core.A /\ v = Value /\ p = core.P
    BY OperandTyped
<1>3. 1 \in BitWeights
    BY DEF BitWeights
<1>4. CASE Logic
  <2>1. PICK r \in UInt8 : core' = SetReg("A", r)
      BY <1>2, <1>3, <1>4, LogicExact DEF Logic, Done
  <2>. QED BY <2>1, SetRegTyped
<1>5. CASE TestBits
  <2>1. PICK z, o, n : z = (And(core.A, Value) = 0) /\ o = HasBit(Value, 64) /\ n = Bit7(Value)
      OBVIOUS
  <2>2. PICK f : f = SetFlag(SetFlag(SetFlag(e.P, "Z", z), "V", o), "N", n)
      OBVIOUS
  <2>3. core' = [e EXCEPT !.P = f]
      BY <1>1, <1>5, <2>1, <2>2, Zenon DEF TestBits, Done
  <2>4. f \in SUBSET Flags
    <3>1. "Z" \in Flags /\ "V" \in Flags /\ "N" \in Flags /\ e.P \in SUBSET Flags
        BY DEF Flags, CoreState
    <3>2. SetFlag(e.P, "Z", z) \in SUBSET Flags
        BY <3>1, FlagSet
    <3>3. SetFlag(SetFlag(e.P, "Z", z), "V", o) \in SUBSET Flags
        BY <3>1, <3>2, FlagSet
    <3>. QED BY <2>2, <3>1, <3>3, FlagSet
  <2>5. AsLong(e, core')
      BY <2>3, <2>4, SetP
  <2>. QED BY <1>1, <2>5, LastsAsLong DEF Fetched
<1>6. CASE Arithmetic
  <2>1. PICK r : core' = [e EXCEPT !.A = r.a, !.P = r.p] /\ (r = Adc(a, v, p) \/ r = Sbc(a, v, p))
      BY <1>1, <1>2, <1>6 DEF Arithmetic, Sum, Done
  <2>2. r.a \in UInt8 /\ r.p \in SUBSET Flags
      BY <2>1, ArithmeticTyped
  <2>3. AsLong(e, core')
      BY <2>1, <2>2 DEF CoreState, AsLong
  <2>. QED BY <1>1, <2>3, LastsAsLong DEF Fetched
<1>7. CASE CompareReg
  <2>1. PICK reg \in {"A", "X", "Y"} : reg = Compares[inst.name]
      BY <1>7 DEF CompareReg, Compares
  <2>2. PICK x \in UInt8, q \in SUBSET Flags : x = core[reg] /\ q = e.P
      BY OperandTyped DEF CoreState
  <2>3. PICK f \in SUBSET Flags : f = Compare(x, v, q)
      BY ArithmeticTyped
  <2>4. core' = [e EXCEPT !.P = Compare(core[reg], Value, e.P)]
      BY <1>1, <1>7, <2>1, Zenon DEF CompareReg, Done
  <2>5. AsLong(e, core')
      BY <1>2, <2>2, <2>3, <2>4, SetP
  <2>. QED BY <1>1, <2>5, LastsAsLong DEF Fetched
<1>. QED BY <1>4, <1>5, <1>6, <1>7

LEMMA ReplacedTyped ==
    ASSUME Fetched, NEW v \in UInt8, NEW p \in SUBSET Flags
    PROVE  Lasts(core, Replaced(v, p))
<1>1. PICK e \in CoreState : e = Executed(0) /\ Lasts(core, e)
    BY Runs
<1>2. PICK f \in SUBSET Flags : f = SetZN(p, v)
    BY FlagsTyped
<1>3. PICK t : t = [e EXCEPT !.P = f]
    OBVIOUS
<1>4. t \in CoreState /\ AsLong(e, t)
    BY <1>3 DEF CoreState, AsLong
<1>5. PICK a : a = Address
    OBVIOUS
<1>6. Replaced(v, p) = (IF inst.mode = "acc" THEN [t EXCEPT !.A = v] ELSE Poke(t, a, v))
    BY <1>1, <1>2, <1>3, <1>5 DEF Replaced
<1>7. AsLong(t, [t EXCEPT !.A = v])
    BY <1>4 DEF CoreState, AsLong
<1>8. AsLong(t, Poke(t, a, v))
    BY <1>4, PokeTyped
<1>9. AsLong(t, Replaced(v, p))
    BY <1>6, <1>7, <1>8
<1>10. AsLong(e, Replaced(v, p))
    BY <1>4, <1>9, AsLongTwice
<1>. QED BY <1>1, <1>10, LastsAsLong DEF Fetched

LEMMA ModifyRuns ==
    ASSUME Fetched, Modify \/ Count
    PROVE  Lasts(core, core')
<1>1. PICK old \in UInt8 : old = Old
    BY OperandTyped
<1>2. old \in Nat /\ old < 256
    BY Ranges
<1>3. PICK c \in {0, 1}, p \in SUBSET Flags : c = Carry(core.P) /\ p = core.P
    BY OperandTyped DEF Carry
<1>4. /\ (2 * old) % 256 \in UInt8 /\ (2 * old + c) % 256 \in UInt8
      /\ (old + 1) % 256 \in UInt8 /\ (old + 255) % 256 \in UInt8
    BY <1>2, IntBytes
<1>5. old \div 2 \in UInt8 /\ (old \div 2) + 128 * c \in UInt8
  <2>1. old \div 2 \in Nat /\ old \div 2 < 128
      BY <1>2
  <2>. QED BY <2>1, Ranges
<1>6. ASSUME NEW v \in UInt8, NEW out, core' = Shifted(v, out)
      PROVE  Lasts(core, core')
  <2>1. PICK q \in SUBSET Flags : q = SetFlag(core.P, "C", out)
      BY <1>3, FlagSet DEF Flags
  <2>. QED BY <1>6, <2>1, ReplacedTyped DEF Shifted
<1>7. ASSUME NEW v \in UInt8, core' = Replaced(v, core.P)
      PROVE  Lasts(core, core')
    BY <1>3, <1>7, ReplacedTyped
<1>8. CASE Count
  <2>1. PICK step : step = Counts[inst.name]
      OBVIOUS
  <2>2. core' = SetReg(step[1], (core[step[1]] + step[2]) % 256) /\ inst.name \in DOMAIN Counts
      BY <1>8, <2>1, Zenon DEF Count, Done
  <2>3. step \in {<<"X", 1>>, <<"Y", 1>>, <<"X", 255>>, <<"Y", 255>>}
      BY <2>1, <2>2 DEF Counts
  <2>4. step[1] \in {"X", "Y"} /\ step[2] \in {1, 255}
      BY <2>3
  <2>5. PICK x \in Nat : x = core[step[1]]
      BY <2>4, OperandTyped, Ranges
  <2>6. (core[step[1]] + step[2]) % 256 \in UInt8
      BY <2>4, <2>5, IntBytes
  <2>. QED BY <2>2, <2>4, <2>6, SetRegTyped
<1>9. CASE inst.name = "ASL" /\ Done(Shifted((2 * Old) % 256, Bit7(Old)))
    BY <1>1, <1>4, <1>6, <1>9 DEF Done
<1>10. CASE inst.name = "LSR" /\ Done(Shifted(Old \div 2, Bit0(Old)))
    BY <1>1, <1>5, <1>6, <1>10 DEF Done
<1>11. CASE inst.name = "ROL" /\ Done(Shifted((2 * Old + Carry(core.P)) % 256, Bit7(Old)))
    BY <1>1, <1>3, <1>4, <1>6, <1>11 DEF Done
<1>12. CASE inst.name = "ROR" /\ Done(Shifted((Old \div 2) + 128 * Carry(core.P), Bit0(Old)))
    BY <1>1, <1>3, <1>5, <1>6, <1>12 DEF Done
<1>13. CASE inst.name = "INC" /\ Done(Replaced((Old + 1) % 256, core.P))
    BY <1>1, <1>4, <1>7, <1>13 DEF Done
<1>14. CASE inst.name = "DEC" /\ Done(Replaced((Old + 255) % 256, core.P))
    BY <1>1, <1>4, <1>7, <1>14 DEF Done
<1>. QED BY <1>8, <1>9, <1>10, <1>11, <1>12, <1>13, <1>14 DEF Modify

LEMMA JumpingRuns ==
    ASSUME Fetched, Jump \/ JumpSub \/ ReturnSub \/ ReturnInt \/ Branch
    PROVE  Lasts(core, core')
<1>1. PICK e \in CoreState : e = Executed(0) /\ Lasts(core, e)
    BY Runs
<1>2. CASE Jump
  <2>1. inst.mode \in {"abs", "ind"}
    <3>1. Modes("JMP") = {"abs", "ind"}
        BY DEF Modes, Shifts
    <3>. QED BY <1>2, <3>1, OperandTyped DEF Jump
  <2>2. PICK to \in UInt16 : to = Address
      BY <2>1, TargetTyped
  <2>3. AsLong(e, core')
      BY <1>1, <1>2, <2>2, SetPC DEF Jump, Done
  <2>. QED BY <1>1, <2>3, LastsAsLong DEF Fetched
<1>3. CASE JumpSub
  <2>1. inst.mode = "abs"
    <3>1. Modes("JSR") = {"abs"}
        BY DEF Modes, Shifts
    <3>. QED BY <1>3, <3>1, OperandTyped DEF JumpSub
  <2>2. PICK to \in UInt16 : to = Address
      BY <2>1, TargetTyped
  <2>3. PICK from \in UInt16 : from = (inst.next + 65535) % 65536
    <3>1. inst.next \in Nat
        BY OperandTyped, Ranges
    <3>2. PICK n \in Nat : n = inst.next + 65535
        BY <3>1
    <3>. QED BY <3>2, Bytes8
  <2>4. PICK t \in CoreState : t = PushWord(e, from) /\ AsLong(e, t)
      BY PushWordTyped DEF AsLong
  <2>5. core' = [t EXCEPT !.PC = to]
      BY <1>1, <1>3, <2>2, <2>3, <2>4 DEF JumpSub, Done
  <2>6. AsLong(e, core')
      BY <2>4, <2>5, SetPC, AsLongTwice
  <2>. QED BY <1>1, <2>6, LastsAsLong DEF Fetched
<1>4. CASE ReturnSub
  <2>1. AsLong(e, core')
      BY <1>1, <1>4, PulledPCTyped DEF ReturnSub, Done
  <2>. QED BY <1>1, <2>1, LastsAsLong DEF Fetched
<1>5. CASE ReturnInt
  <2>1. PICK p \in SUBSET Flags : p = FlagsOf(Pulled(core))
      BY DEF FlagsOf
  <2>2. PICK t \in CoreState : t = PullByte(e) /\ AsLong(e, t)
      BY PullByteTyped DEF AsLong
  <2>3. PICK u \in CoreState : u = [t EXCEPT !.P = p] /\ AsLong(t, u)
      BY SetP DEF AsLong
  <2>4. core' = PulledPC(u, 0)
      BY <1>1, <1>5, <2>1, <2>2, <2>3 DEF ReturnInt, Done
  <2>5. AsLong(u, core')
      BY <2>4, PulledPCTyped
  <2>6. AsLong(e, core')
      BY <2>2, <2>3, <2>5, AsLongTwice
  <2>. QED BY <1>1, <2>6, LastsAsLong DEF Fetched
<1>6. CASE Branch
  <2>1. inst.mode = "rel"
      BY <1>6, OperandTyped, CyclesBounded DEF Branch
  <2>2. PICK to \in UInt16 : to = Address
      BY <2>1, TargetTyped
  <2>3. PICK taken : taken = ((Branches[inst.name][1] \in core.P) = Branches[inst.name][2])
      OBVIOUS
  <2>4. core' = [Executed(BranchCost(taken)) EXCEPT !.PC = IF taken THEN Address ELSE @]
      BY <1>6, <2>3, Zenon DEF Branch, Done
  <2>5. PICK cost \in {0, 1, 2} : cost = BranchCost(taken)
      BY DEF BranchCost
  <2>6. Lasts(core, Executed(cost))
      BY <1>6, ExecutedTyped DEF Branch
  <2>7. PICK b \in CoreState : b = Executed(cost) /\ Lasts(core, b)
      BY <2>6 DEF Lasts
  <2>8. core' = (IF taken THEN [b EXCEPT !.PC = to] ELSE [b EXCEPT !.PC = b.PC])
      BY <2>2, <2>4, <2>5, <2>7
  <2>9. AsLong(b, core')
      BY <2>8 DEF AsLong, CoreState
  <2>. QED BY <2>7, <2>9, LastsAsLong DEF Fetched
<1>. QED BY <1>2, <1>3, <1>4, <1>5, <1>6

LEMMA OtherRuns ==
    ASSUME Fetched, SetOrClear \/ Nothing \/ BreakIn
    PROVE  Lasts(core, core')
<1>1. PICK e \in CoreState : e = Executed(0) /\ Lasts(core, e)
    BY Runs
<1>2. CASE SetOrClear
  <2>1. PICK f \in Flags, on \in BOOLEAN : core' = [e EXCEPT !.P = SetFlag(e.P, f, on)]
    <3>1. \A name \in DOMAIN FlagOps : FlagOps[name][1] \in Flags /\ FlagOps[name][2] \in BOOLEAN
      <4>1. \A name \in DOMAIN FlagOps :
                name \in {"CLC", "SEC", "CLI", "SEI", "CLV", "CLD", "SED"}
          BY DEF FlagOps
      <4>. DEFINE Typed(op) == op[1] \in Flags /\ op[2] \in BOOLEAN
      <4>2. /\ Typed(FlagOps["CLC"]) /\ Typed(FlagOps["SEC"]) /\ Typed(FlagOps["CLI"])
            /\ Typed(FlagOps["SEI"]) /\ Typed(FlagOps["CLV"]) /\ Typed(FlagOps["CLD"])
            /\ Typed(FlagOps["SED"])
          BY DEF FlagOps, Flags
      <4>. HIDE DEF Typed
      <4>3. \A name \in DOMAIN FlagOps : Typed(FlagOps[name])
          BY <4>1, <4>2
      <4>. QED BY <4>3 DEF Typed
    <3>2. inst.name \in DOMAIN FlagOps
        BY <1>2 DEF SetOrClear
    <3>3. core' = [e EXCEPT !.P = SetFlag(e.P, FlagOps[inst.name][1], FlagOps[inst.name][2])]
        BY <1>1, <1>2 DEF SetOrClear, Done
    <3>. QED BY <3>1, <3>2, <3>3
  <2>2. PICK p \in SUBSET Flags : p = SetFlag(e.P, f, on)
      BY FlagSet DEF CoreState
  <2>3. AsLong(e, core')
      BY <2>1, <2>2, SetP
  <2>. QED BY <1>1, <2>3, LastsAsLong DEF Fetched
<1>3. CASE Nothing
    BY <1>1, <1>3 DEF Nothing, Done
<1>4. CASE BreakIn
  <2>1. PICK w \in UInt16 : w = (e.PC + 1) % 65536
    <3>1. e.PC \in Nat
        BY Ranges DEF CoreState
    <3>2. PICK n \in Nat : n = e.PC + 1
        BY <3>1
    <3>. QED BY <3>2, Bytes8
  <2>2. PICK t \in CoreState : t = [e EXCEPT !.PC = w] /\ AsLong(e, t)
      BY SetPC DEF AsLong
  <2>3. core' = Interrupted(t, IrqEntry, TRUE)
      BY <1>1, <1>4, <2>1, <2>2 DEF BreakIn, Done
  <2>4. AsLong(t, core')
      BY <2>3, InterruptedTyped, CodeAssumption
  <2>5. AsLong(e, core')
      BY <2>2, <2>4, AsLongTwice
  <2>. QED BY <1>1, <2>5, LastsAsLong DEF Fetched
<1>. QED BY <1>2, <1>3, <1>4

LEMMA CoreTyped == CoreTypeOK <=> core \in CoreState
BY DEF CoreTypeOK, CoreState

(* Whatever the program, an instruction leaves bytes in the registers and  *)
(* in memory, an address in PC and flags in P, writes nowhere but in RAM,  *)
(* and takes two to seven cycles, pages crossed and branches taken         *)
(* included; an interrupt takes seven (cpu.go's Step, execute.go).         *)
THEOREM InstructionsKeepCore ==
    /\ CoreTypeOK /\ ExecuteInstruction =>
           CoreTypeOK' /\ core'.cycles - core.cycles \in 2 .. 7
    /\ CoreTypeOK /\ ServeNMI => CoreTypeOK' /\ core'.cycles = core.cycles + 7
<1>1. ASSUME CoreTypeOK, ExecuteInstruction
      PROVE  CoreTypeOK' /\ core'.cycles - core.cycles \in 2 .. 7
  <2>1. Fetched
      BY <1>1, CoreTyped DEF Fetched, ExecuteInstruction
  <2>2. Lasts(core, core')
      BY <1>1, <2>1, MovingRuns, StackRuns, ComputingRuns, ModifyRuns, JumpingRuns, OtherRuns
         DEF ExecuteInstruction
  <2>3. core \in CoreState /\ core' \in CoreState
      BY <2>1, <2>2 DEF Fetched, Lasts
  <2>4. PICK n \in Nat, m \in Nat : n = core.cycles /\ m = core'.cycles
      BY <2>3 DEF CoreState
  <2>5. n + 2 <= m /\ m <= n + 7
      BY <2>2, <2>4 DEF Lasts
  <2>6. m - n \in 2 .. 7
      BY <2>5
  <2>7. CoreTypeOK'
      BY <2>3 DEF CoreTypeOK, CoreState
  <2>. QED BY <2>4, <2>6, <2>7
<1>2. ASSUME CoreTypeOK, ServeNMI
      PROVE  CoreTypeOK' /\ core'.cycles = core.cycles + 7
  <2>1. PICK t \in CoreState : t = Interrupted(core, NmiEntry, FALSE) /\ AsLong(core, t)
      BY <1>2, CoreTyped, InterruptedTyped, CodeAssumption DEF AsLong
  <2>2. core' = [t EXCEPT !.cycles = t.cycles + 7]
      BY <1>2, <2>1 DEF ServeNMI, Done
  <2>3. core' \in CoreState /\ core'.cycles = t.cycles + 7
      BY <2>2 DEF CoreState
  <2>. QED BY <2>1, <2>3 DEF AsLong, CoreTypeOK, CoreState
<1>. QED BY <1>1, <1>2

----------------------------------------------------------------------------
(* An interrupt and its return, register by register.                      *)
Lower(sp) == (sp + 255) % 256
Higher(sp) == (sp + 1) % 256

LEMMA UpAndDown ==
    ASSUME NEW sp \in UInt8
    PROVE  /\ Lower(sp) \in UInt8 /\ Higher(sp) \in UInt8
           /\ Higher(Lower(sp)) = sp
           /\ Lower(sp) # sp /\ Lower(Lower(sp)) # sp
<1>1. sp \in Nat /\ sp < 256
    BY Ranges
<1>2. PICK n \in Nat : n = Lower(sp) /\ n < 256 /\ (IF sp = 0 THEN n = 255 ELSE n = sp - 1)
    BY <1>1 DEF Lower
<1>3. PICK k \in Nat : k = Lower(n) /\ k < 256 /\ (IF n = 0 THEN k = 255 ELSE k = n - 1)
    BY <1>2 DEF Lower
<1>4. (n + 1) % 256 = sp
    BY <1>1, <1>2
<1>5. PICK h \in Nat : h = Higher(sp) /\ h < 256
    BY <1>1 DEF Higher
<1>6. n # sp /\ k # sp
    BY <1>1, <1>2, <1>3
<1>. QED BY <1>2, <1>3, <1>4, <1>5, <1>6, Ranges DEF Higher

LEMMA WordSplit ==
    ASSUME NEW w \in Nat, w < 65536
    PROVE  Word(w % 256, w \div 256) = w
BY DEF Word

LEMMA BytePushed ==
    ASSUME NEW s \in CoreState, NEW v \in UInt8, NEW at \in Cells, at = 256 + s.SP,
           NEW t, t = PushByte(s, v)
    PROVE  /\ t \in CoreState /\ t.SP = Lower(s.SP) /\ t.PC = s.PC /\ t.P = s.P
           /\ t.mem[at] = v
           /\ \A a \in Cells : a # at => t.mem[a] = s.mem[a]
<1>1. s.mem \in [Cells -> UInt8] /\ DOMAIN s.mem = Cells
    BY DEF CoreState, RAM
<1>2. PICK m : m = [s.mem EXCEPT ![at] = v]
    OBVIOUS
<1>3. m[at] = v /\ \A a \in Cells : a # at => m[a] = s.mem[a]
    BY <1>1, <1>2
<1>4. PICK sp : sp = Lower(s.SP)
    OBVIOUS
<1>5. t = [s EXCEPT !.mem = m, !.SP = sp]
    BY <1>1, <1>2, <1>4 DEF PushByte, Poke, Lower, CoreState
<1>6. t.SP = sp /\ t.PC = s.PC /\ t.P = s.P /\ t.mem = m
    BY <1>5 DEF CoreState
<1>7. t \in CoreState
    BY PushByteTyped DEF AsLong
<1>. QED BY <1>3, <1>4, <1>6, <1>7

LEMMA BytePulled ==
    ASSUME NEW s \in CoreState, NEW at \in Cells, at = 256 + Higher(s.SP),
           NEW t, t = PullByte(s)
    PROVE  /\ Pulled(s) = s.mem[at]
           /\ t \in CoreState /\ t.SP = Higher(s.SP) /\ t.PC = s.PC /\ t.P = s.P /\ t.mem = s.mem
<1>1. DOMAIN s.mem = Cells
    BY DEF CoreState, RAM
<1>2. Pulled(s) = s.mem[at]
    BY <1>1 DEF Pulled, Peek, Higher
<1>3. PICK sp : sp = Higher(s.SP)
    OBVIOUS
<1>4. t = [s EXCEPT !.SP = sp]
    BY <1>3 DEF PullByte, Higher
<1>5. t.SP = sp /\ t.PC = s.PC /\ t.P = s.P /\ t.mem = s.mem
    BY <1>4 DEF CoreState
<1>6. t \in CoreState
    BY PullByteTyped DEF AsLong
<1>. QED BY <1>2, <1>3, <1>5, <1>6

(* RTI takes back the very address, flags and stack pointer an interrupt   *)
(* or BRK found, wherever the stack pointer stood and whatever state t the *)
(* handler leaves, so long as it puts the stack pointer back and keeps the *)
(* three bytes above it (handleInterrupt, RTI).                            *)
THEOREM ReturnsToInterrupted ==
    ASSUME NEW s \in CoreState, NEW entry \in UInt16, NEW brk \in BOOLEAN,
           NEW t \in CoreState,
           t.SP = Interrupted(s, entry, brk).SP,
           \A sp \in {s.SP, Lower(s.SP), Lower(Lower(s.SP))} :
               /\ 256 + sp \in Cells
               /\ t.mem[256 + sp] = Interrupted(s, entry, brk).mem[256 + sp]
    PROVE  LET r == PulledPC([PullByte(t) EXCEPT !.P = FlagsOf(Pulled(t))], 0)
           IN  r.PC = s.PC /\ r.P = s.P /\ r.SP = s.SP
<1>1. s.PC \in UInt16 /\ s.P \in SUBSET Flags /\ s.SP \in UInt8
    BY DEF CoreState
<1>2. PICK counter \in Nat : counter = s.PC /\ counter < 65536 /\ counter \in UInt16
    BY <1>1, Ranges
<1>3. PICK hi \in UInt8, lo \in UInt8 : hi = counter \div 256 /\ lo = counter % 256
    BY <1>2, Bytes8
<1>4. PICK f \in UInt8 : f = FlagByte8(s.P, brk) /\ FlagsOf(f) = s.P
    BY <1>1, StatusByteExact
<1>5. PICK sp0 \in UInt8, sp1 \in UInt8, sp2 \in UInt8, sp3 \in UInt8 :
          /\ sp0 = s.SP /\ sp1 = Lower(sp0) /\ sp2 = Lower(sp1) /\ sp3 = Lower(sp2)
          /\ Higher(sp3) = sp2 /\ Higher(sp2) = sp1 /\ Higher(sp1) = sp0
          /\ sp0 # sp1 /\ sp0 # sp2 /\ sp1 # sp2
    BY <1>1, UpAndDown
<1>6. PICK a0 \in Cells, a1 \in Cells, a2 \in Cells :
          a0 = 256 + sp0 /\ a1 = 256 + sp1 /\ a2 = 256 + sp2
    BY <1>5
<1>7. a0 # a1 /\ a0 # a2 /\ a1 # a2
    BY <1>5, <1>6, Ranges
<1>8. PICK u : u = PushByte(s, hi)
    OBVIOUS
<1>9. u \in CoreState /\ u.SP = sp1 /\ u.P = s.P /\ u.mem[a0] = hi
    BY <1>5, <1>6, <1>8, BytePushed
<1>10. PICK v : v = PushByte(u, lo)
    OBVIOUS
<1>11. v \in CoreState /\ v.SP = sp2 /\ v.P = s.P /\ v.mem[a0] = hi /\ v.mem[a1] = lo
  <2>1. a1 = 256 + u.SP
      BY <1>6, <1>9
  <2>2. /\ v \in CoreState /\ v.SP = Lower(u.SP) /\ v.P = u.P /\ v.mem[a1] = lo
        /\ \A a \in Cells : a # a1 => v.mem[a] = u.mem[a]
      BY <1>9, <1>10, <2>1, BytePushed
  <2>3. v.mem[a0] = hi
      BY <1>7, <1>9, <2>2
  <2>. QED BY <1>5, <1>9, <2>2, <2>3
<1>12. PICK w : w = PushByte(v, f)
    OBVIOUS
<1>13. w \in CoreState /\ w.SP = sp3 /\ w.mem[a0] = hi /\ w.mem[a1] = lo /\ w.mem[a2] = f
  <2>1. a2 = 256 + v.SP
      BY <1>6, <1>11
  <2>2. /\ w \in CoreState /\ w.SP = Lower(v.SP) /\ w.mem[a2] = f
        /\ \A a \in Cells : a # a2 => w.mem[a] = v.mem[a]
      BY <1>11, <1>12, <2>1, BytePushed
  <2>3. w.mem[a0] = hi /\ w.mem[a1] = lo
      BY <1>7, <1>11, <2>2
  <2>. QED BY <1>5, <1>11, <2>2, <2>3
<1>14. PICK i : i = Interrupted(s, entry, brk)
    OBVIOUS
<1>15. i.SP = w.SP /\ i.mem = w.mem
  <2>1. i = [w EXCEPT !.P = w.P \cup {"I"}, !.PC = entry]
      BY <1>2, <1>3, <1>4, <1>8, <1>10, <1>11, <1>12, <1>14 DEF Interrupted, PushWord
  <2>. QED BY <1>13, <2>1 DEF CoreState
<1>16. t.SP = sp3 /\ t.mem[a0] = hi /\ t.mem[a1] = lo /\ t.mem[a2] = f
    BY <1>5, <1>6, <1>13, <1>14, <1>15
<1>17. PICK p0 : p0 = PullByte(t)
    OBVIOUS
<1>18. Pulled(t) = f /\ p0 \in CoreState /\ p0.SP = sp2 /\ p0.mem = t.mem
    BY <1>5, <1>6, <1>16, <1>17, BytePulled
<1>19. PICK p : p = [p0 EXCEPT !.P = FlagsOf(Pulled(t))]
    OBVIOUS
<1>20. p \in CoreState /\ p.SP = sp2 /\ p.mem = t.mem /\ p.P = s.P
    BY <1>1, <1>4, <1>18, <1>19 DEF CoreState
<1>21. PICK q : q = PullByte(p)
    OBVIOUS
<1>22. Pulled(p) = lo /\ q \in CoreState /\ q.SP = sp1 /\ q.mem = t.mem /\ q.P = s.P
    BY <1>5, <1>6, <1>16, <1>20, <1>21, BytePulled
<1>23. PICK z : z = PullByte(q)
    OBVIOUS
<1>24. Pulled(q) = hi /\ z \in CoreState /\ z.SP = sp0 /\ z.P = s.P
    BY <1>5, <1>6, <1>16, <1>22, <1>23, BytePulled
<1>25. (Word(lo, hi) + 0) % 65536 = counter
  <2>1. Word(lo, hi) = counter
      BY <1>2, <1>3, WordSplit
  <2>2. (counter + 0) % 65536 = counter
      BY <1>2
  <2>. QED BY <2>1, <2>2
<1>26. PulledPC(p, 0) = [z EXCEPT !.PC = counter]
    BY <1>21, <1>22, <1>23, <1>24, <1>25 DEF PulledPC
<1>27. PulledPC(p, 0).PC = counter /\ PulledPC(p, 0).P = s.P /\ PulledPC(p, 0).SP = sp0
    BY <1>24, <1>26 DEF CoreState
<1>. QED BY <1>2, <1>5, <1>17, <1>19, <1>27

(* RTS goes on behind the JSR that called it and puts the stack pointer    *)
(* back, on the same terms, also across the ends of the stack page and of  *)
(* the address space (JSR, RTS).                                           *)
THEOREM ReturnsToCaller ==
    ASSUME NEW s \in CoreState, NEW next \in UInt16,
           NEW t \in CoreState,
           t.SP = PushWord(s, (next + 65535) % 65536).SP,
           \A sp \in {s.SP, Lower(s.SP)} :
               /\ 256 + sp \in Cells
               /\ t.mem[256 + sp] = PushWord(s, (next + 65535) % 65536).mem[256 + sp]
    PROVE  PulledPC(t, 1).PC = next /\ PulledPC(t, 1).SP = s.SP
<1>1. s.SP \in UInt8
    BY DEF CoreState
<1>2. PICK n \in Nat : n = next /\ n < 65536
    BY Ranges
<1>3. PICK last \in Nat : last = (next + 65535) % 65536 /\ last < 65536 /\ (last + 1) % 65536 = n
  <2>1. PICK l \in Nat : l = (n + 65535) % 65536 /\ l < 65536
      BY <1>2
  <2>2. (l + 1) % 65536 = n
      BY <1>2, <2>1
  <2>. QED BY <1>2, <2>1, <2>2
<1>4. last \in UInt16
    BY <1>3, Ranges
<1>5. PICK hi \in UInt8, lo \in UInt8 : hi = last \div 256 /\ lo = last % 256
    BY <1>3, <1>4, Bytes8
<1>6. PICK sp0 \in UInt8, sp1 \in UInt8, sp2 \in UInt8 :
          /\ sp0 = s.SP /\ sp1 = Lower(sp0) /\ sp2 = Lower(sp1)
          /\ Higher(sp2) = sp1 /\ Higher(sp1) = sp0 /\ sp0 # sp1
    BY <1>1, UpAndDown
<1>7. PICK a0 \in Cells, a1 \in Cells : a0 = 256 + sp0 /\ a1 = 256 + sp1
    BY <1>6
<1>8. a0 # a1
    BY <1>6, <1>7, Ranges
<1>9. PICK u : u = PushByte(s, hi)
    OBVIOUS
<1>10. u \in CoreState /\ u.SP = sp1 /\ u.mem[a0] = hi
    BY <1>6, <1>7, <1>9, BytePushed
<1>11. PICK v : v = PushByte(u, lo)
    OBVIOUS
<1>12. v \in CoreState /\ v.SP = sp2 /\ v.mem[a0] = hi /\ v.mem[a1] = lo
  <2>1. a1 = 256 + u.SP
      BY <1>7, <1>10
  <2>2. /\ v \in CoreState /\ v.SP = Lower(u.SP) /\ v.mem[a1] = lo
        /\ \A a \in Cells : a # a1 => v.mem[a] = u.mem[a]
      BY <1>10, <1>11, <2>1, BytePushed
  <2>3. v.mem[a0] = hi
      BY <1>8, <1>10, <2>2
  <2>. QED BY <1>6, <1>10, <2>2, <2>3
<1>13. PushWord(s, last) = v
    BY <1>5, <1>9, <1>11 DEF PushWord
<1>14. t.SP = sp2 /\ t.mem[a0] = hi /\ t.mem[a1] = lo
    BY <1>3, <1>6, <1>7, <1>12, <1>13
<1>15. PICK p : p = PullByte(t)
    OBVIOUS
<1>16. Pulled(t) = lo /\ p \in CoreState /\ p.SP = sp1 /\ p.mem = t.mem
    BY <1>6, <1>7, <1>14, <1>15, BytePulled
<1>17. PICK z : z = PullByte(p)
    OBVIOUS
<1>18. Pulled(p) = hi /\ z \in CoreState /\ z.SP = sp0
    BY <1>6, <1>7, <1>14, <1>16, <1>17, BytePulled
<1>19. Word(lo, hi) = last
    BY <1>3, <1>5, WordSplit
<1>20. PulledPC(t, 1) = [z EXCEPT !.PC = n]
    BY <1>3, <1>15, <1>16, <1>17, <1>18, <1>19 DEF PulledPC
<1>21. PulledPC(t, 1).PC = n /\ PulledPC(t, 1).SP = sp0
    BY <1>18, <1>20 DEF CoreState
<1>. QED BY <1>2, <1>6, <1>21

----------------------------------------------------------------------------
(* All benches. *)
LEMMA LoadedTyped ==
    ASSUME NEW a \in UInt16, NEW b \in UInt16
    PROVE  Loaded(a, b) \in RAM
<1>1. a \div 256 \in UInt8 /\ a % 256 \in UInt8 /\ b \div 256 \in UInt8 /\ b % 256 \in UInt8
  <2>1. a \in Nat /\ b \in Nat
    BY Ranges
  <2>. QED BY <2>1, Bytes8
<1>2. 0 \in UInt8
    BY Ranges
<1>. DEFINE OfBytes(set) == \A d \in set : d[2] \in UInt8
<1>3. OfBytes(Bytes16(A, a)) /\ OfBytes(Bytes16(B, b)) /\ OfBytes(LowFirst(Pointer, a))
    BY <1>1 DEF Bytes16, LowFirst
<1>4. OfBytes(Fixed)
    BY Ranges DEF Fixed
<1>5. OfBytes({<<c, c % 256>> : c \in Source})
  <2>1. \A c \in Source : c \in Nat
      BY DEF Source
  <2>2. \A c \in Source : c % 256 \in UInt8
      BY <2>1, Bytes8
  <2>. QED BY <2>2
<1>. DEFINE told == Bytes16(A, a) \cup Bytes16(B, b) \cup LowFirst(Pointer, a) \cup Fixed
                        \cup {<<c, c % 256>> : c \in Source}
<1>6. OfBytes(told)
    BY <1>3, <1>4, <1>5
<1>7. Loaded(a, b) = [c \in Cells |-> IF \E d \in told : d[1] = c
                                     THEN (CHOOSE d \in told : d[1] = c)[2] ELSE 0]
    BY Zenon DEF Loaded
<1>. HIDE DEF told
<1>8. ASSUME NEW c \in Cells, \E d \in told : d[1] = c
      PROVE  (CHOOSE d \in told : d[1] = c)[2] \in UInt8
  <2>1. PICK e : e = (CHOOSE d \in told : d[1] = c)
      OBVIOUS
  <2>2. e \in told
      BY <1>8, <2>1, Zenon
  <2>. QED BY <1>6, <2>1, <2>2
<1>. QED BY <1>2, <1>7, <1>8 DEF RAM

LEMMA OriginsTyped ==
    ASSUME NEW prog \in DOMAIN Origins
    PROVE  Origins[prog] \in UInt16
<1>1. Origins[prog] \in Nat /\ Origins[prog] < 65536
    BY DEF Origins, IrqAt, NmiAt
<1>. QED BY <1>1, Ranges

JobType == [prog : DOMAIN Origins \cup {"none"}, a : UInt16, b : UInt16, p : SUBSET Flags,
            nmi : {"none", "due", "served"}]

LEMMA JobsTyped ==
    ASSUME NEW nmi \in {"none", "due"}, NEW j \in Jobs(nmi)
    PROVE  j \in JobType /\ j.prog \in DOMAIN Origins
<1>1. /\ Binary \in SUBSET DOMAIN Origins /\ Decimal \in SUBSET DOMAIN Origins
      /\ {"multiply"} \in SUBSET DOMAIN Origins /\ {"double"} \in SUBSET DOMAIN Origins
      /\ {"copy"} \in SUBSET DOMAIN Origins /\ {"delay"} \in SUBSET DOMAIN Origins
      /\ {"call"} \in SUBSET DOMAIN Origins /\ {"trap"} \in SUBSET DOMAIN Origins
    BY DEF Origins, Binary, Decimal
<1>2. Words \in SUBSET UInt16 /\ Decimals \in SUBSET UInt16
    BY OperandsAssumption
<1>3. {w % 256 : w \in Words} \in SUBSET UInt16
  <2>1. ASSUME NEW w \in Words PROVE w % 256 \in UInt16
    <3>1. w \in Nat
        BY <1>2, Ranges
    <3>2. w % 256 \in Nat /\ w % 256 < 256
        BY <3>1
    <3>. QED BY <3>2, Ranges
  <2>. QED BY <2>1
<1>4. /\ {0} \in SUBSET UInt16 /\ {764, 766} \in SUBSET UInt16
      /\ {1, 2, 9} \in SUBSET UInt16 /\ {0, 129} \in SUBSET UInt16
    BY Ranges
<1>5. /\ {{}} \in SUBSET SUBSET Flags /\ {{}, {"D"}} \in SUBSET SUBSET Flags
      /\ {{}, {"C", "D", "V"}, {"I"}} \in SUBSET SUBSET Flags
    BY DEF Flags
<1>6. PICK low \in SUBSET UInt16 : low = {w % 256 : w \in Words}
    BY <1>3
<1>7. PICK s1 : s1 = [prog : Binary, a : Words, b : Words, p : {{}}, nmi : {nmi}]
    BY Zenon
<1>8. PICK s2 : s2 = [prog : Decimal, a : Decimals, b : Decimals, p : {{}}, nmi : {nmi}]
    BY Zenon
<1>9. PICK s3 : s3 = [prog : {"multiply"}, a : low, b : low, p : {{}}, nmi : {nmi}]
    BY Zenon
<1>10. PICK s4 : s4 = [prog : {"double"}, a : Words, b : {0}, p : {{}}, nmi : {nmi}]
    BY Zenon
<1>11. PICK places \in SUBSET UInt16 : places = {764, 766}
  <2>1. PICK x \in UInt16, y \in UInt16 : x = 764 /\ y = 766
      BY Ranges
  <2>2. {x, y} \in SUBSET UInt16
      BY Zenon
  <2>3. {x, y} = {764, 766}
      BY <2>1
  <2>4. PICK s \in SUBSET UInt16 : s = {x, y}
      BY <2>2, Zenon
  <2>. QED BY <2>3, <2>4
<1>12. PICK s5 : s5 = [prog : {"copy"}, a : places, b : {0}, p : {{}}, nmi : {nmi}]
    BY Zenon
<1>13. PICK s6 : s6 = [prog : {"delay"}, a : {1, 2, 9}, b : {0}, p : {{}}, nmi : {nmi}]
    BY Zenon
<1>14. PICK s7 : s7 = [prog : {"call"}, a : {0, 129}, b : {0}, p : {{}, {"C", "D", "V"}, {"I"}}, nmi : {nmi}]
    BY Zenon
<1>15. PICK s8 : s8 = [prog : {"trap"}, a : {0}, b : {0}, p : {{}, {"D"}}, nmi : {nmi}]
    BY Zenon
<1>16. j \in s1 \cup s2 \cup s3 \cup s4 \cup s5 \cup s6 \cup s7 \cup s8
    BY <1>6, <1>7, <1>8, <1>9, <1>10, <1>12, <1>13, <1>14, <1>15, <1>11 DEF Jobs
<1>17. j \in s1 => j \in JobType /\ j.prog \in DOMAIN Origins
    BY <1>1, <1>2, <1>4, <1>5, <1>6, <1>7 DEF JobType
<1>18. j \in s2 => j \in JobType /\ j.prog \in DOMAIN Origins
    BY <1>1, <1>2, <1>4, <1>5, <1>6, <1>8 DEF JobType
<1>19. j \in s3 => j \in JobType /\ j.prog \in DOMAIN Origins
    BY <1>1, <1>2, <1>4, <1>5, <1>6, <1>9 DEF JobType
<1>20. j \in s4 => j \in JobType /\ j.prog \in DOMAIN Origins
    BY <1>1, <1>2, <1>4, <1>5, <1>6, <1>10 DEF JobType
<1>21. j \in s5 => j \in JobType /\ j.prog \in DOMAIN Origins
    BY <1>1, <1>2, <1>4, <1>5, <1>6, <1>12 DEF JobType
<1>22. j \in s6 => j \in JobType /\ j.prog \in DOMAIN Origins
    BY <1>1, <1>2, <1>4, <1>5, <1>6, <1>13 DEF JobType
<1>23. j \in s7 => j \in JobType /\ j.prog \in DOMAIN Origins
    BY <1>1, <1>2, <1>4, <1>5, <1>6, <1>14 DEF JobType
<1>24. j \in s8 => j \in JobType /\ j.prog \in DOMAIN Origins
    BY <1>1, <1>2, <1>4, <1>5, <1>6, <1>15 DEF JobType
<1>. QED BY <1>16, <1>17, <1>18, <1>19, <1>20, <1>21, <1>22, <1>23, <1>24

LEMMA ProgramsStart == ProgramsInit => ProgramsTypeOK
<1>1. 0 \in UInt16 /\ 0 \in UInt8 /\ 255 \in UInt8 /\ StopAt \in UInt16
    BY Ranges DEF StopAt
<1>2. PICK m \in RAM : m = Loaded(0, 0)
    BY <1>1, LoadedTyped
<1>3. AtRest \in CoreState
    BY <1>1, <1>2 DEF AtRest, CoreState
<1>4. Idle \in JobType
    BY <1>1 DEF Idle, JobType
<1>. QED BY <1>3, <1>4, CoreTyped DEF ProgramsInit, ProgramsTypeOK, JobType

LEMMA ProgramsKeep ==
    ASSUME ProgramsTypeOK, [ProgramsNext]_programVars
    PROVE  ProgramsTypeOK'
<1>1. core \in CoreState /\ job \in JobType
    BY CoreTyped DEF ProgramsTypeOK, JobType
<1>2. SUFFICES core' \in CoreState /\ job' \in JobType
    BY <1>2 DEF ProgramsTypeOK, CoreTypeOK, CoreState, JobType
<1>3. AtRest \in CoreState /\ Idle \in JobType
  <2>1. 0 \in UInt16 /\ 0 \in UInt8 /\ 255 \in UInt8 /\ StopAt \in UInt16
      BY Ranges DEF StopAt
  <2>2. PICK m \in RAM : m = Loaded(0, 0)
      BY <2>1, LoadedTyped
  <2>. QED BY <2>1, <2>2 DEF AtRest, CoreState, Idle, JobType
<1>4. ASSUME NEW nmi \in {"none", "due"}, NEW j \in Jobs(nmi), Start(j)
      PROVE  core' \in CoreState /\ job' \in JobType
  <2>1. j \in JobType /\ j.prog \in DOMAIN Origins
      BY JobsTyped
  <2>2. j.a \in UInt16 /\ j.b \in UInt16 /\ j.p \in SUBSET Flags
      BY <2>1 DEF JobType
  <2>3. PICK at \in UInt16, m \in RAM : at = Origins[j.prog] /\ m = Loaded(j.a, j.b)
      BY <2>1, <2>2, OriginsTyped, LoadedTyped
  <2>4. PICK s \in CoreState : s = AtRest
      BY <1>3
  <2>5. core' = [s EXCEPT !.PC = at, !.P = j.p, !.mem = m] /\ job' = j
      BY <1>4, <2>3, <2>4 DEF Start
  <2>. QED BY <2>1, <2>2, <2>5 DEF CoreState
<1>5. CASE RunInstruction
    BY <1>1, <1>5, InstructionsKeepCore, CoreTyped DEF RunInstruction, CoreTypeOK, CoreState
<1>6. CASE Interrupt
  <2>1. core' \in CoreState
      BY <1>1, <1>6, InstructionsKeepCore, CoreTyped DEF Interrupt, CoreTypeOK, CoreState
  <2>2. job' = [job EXCEPT !.nmi = "served"]
      BY <1>6 DEF Interrupt
  <2>. QED BY <1>1, <2>1, <2>2 DEF JobType
<1>7. CASE Collect
    BY <1>3, <1>7 DEF Collect
<1>8. CASE UNCHANGED programVars
    BY <1>1, <1>8 DEF programVars
<1>. QED BY <1>4, <1>5, <1>6, <1>7, <1>8 DEF ProgramsNext

(* The stack page, the registers, memory and jobs of every program, and    *)
(* the variables of RunCPU keep their types, whatever the program, the     *)
(* operands, the sizes and the durations.                                  *)
THEOREM CpuTypesHold == Spec => []CpuBenchesTypeOK
<1>. DEFINE Inv == StackInv /\ ProgramsTypeOK /\ PaceInv
<1>1. Init => Inv
    BY StackStarts, ProgramsStart, PaceInvStarts DEF Init
<1>2. Inv /\ [Next]_<<bench, interruptVars, programVars, throttleVars>> => Inv'
  <2>. SUFFICES ASSUME Inv, [Next]_<<bench, interruptVars, programVars, throttleVars>>
                PROVE  Inv'
      OBVIOUS
  <2>1. /\ [InterruptsNext]_interruptVars
        /\ [ProgramsNext]_programVars
        /\ [ThrottleNext]_throttleVars
      BY DEF Next
  <2>. QED BY <2>1, StackKeeps, ProgramsKeep, PaceInvKept
<1>3. Inv => CpuBenchesTypeOK
  <2>1. StackInv => StackTypeOK
      BY Rooms DEF StackInv, StackTypeOK, StackPage, Place, StackByte
  <2>. QED BY <2>1 DEF CpuBenchesTypeOK, PaceInv
<1>. HIDE DEF Inv
<1>. QED BY <1>1, <1>2, <1>3, PTL DEF Spec

----------------------------------------------------------------------------
(* What an instruction does to the processor, exactly: the state it leaves *)
(* and the cycles it takes.                                                *)

(* A processor and its memory. *)
St(a, x, y, sp, at, p, n, m) ==
    [A |-> a, X |-> x, Y |-> y, SP |-> sp, PC |-> at, P |-> p, cycles |-> n, mem |-> m]

(* The processor executes this instruction. *)
Doing(name, mode, arg) ==
    /\ core \in CoreState
    /\ ExecuteInstruction
    /\ core.PC \in DOMAIN Code
    /\ Code[core.PC] = [name |-> name, mode |-> mode, arg |-> arg]
    /\ core.PC + 3 < 65536

(* It leaves these registers and goes on there, n cycles later. *)
GoesTo(a, x, y, sp, to, p, n, m) ==
    /\ core'.A = a /\ core'.X = x /\ core'.Y = y /\ core'.SP = sp /\ core'.P = p
    /\ core'.PC = to
    /\ core'.cycles = core.cycles + n
    /\ core'.mem = m

(* It leaves these registers, len bytes on and n cycles later. *)
Goes(a, x, y, sp, len, p, n, m) == GoesTo(a, x, y, sp, core.PC + len, p, n, m)

----------------------------------------------------------------------------
LEMMA Lengths ==
    /\ Length("imp") = 1 /\ Length("acc") = 1 /\ Length("imm") = 2 /\ Length("rel") = 2
    /\ Length("zp") = 2 /\ Length("zpx") = 2 /\ Length("indx") = 2 /\ Length("indy") = 2
    /\ Length("abs") = 3 /\ Length("absy") = 3 /\ Length("ind") = 3
<1>1. Length("imp") = 1 /\ Length("acc") = 1
    BY DEF Length
<1>2. Length("abs") = 3 /\ Length("absy") = 3 /\ Length("ind") = 3
    BY DEF Length
<1>3. Length("imm") = 2 /\ Length("rel") = 2 /\ Length("zp") = 2
    BY DEF Length
<1>4. Length("zpx") = 2 /\ Length("indx") = 2 /\ Length("indy") = 2
    BY DEF Length
<1>. QED BY <1>1, <1>2, <1>3, <1>4

(* Most of the table: two cycles without memory, three and more with.      *)
LEMMA OwnCosts ==
    /\ Cycles("BRK", "imp") = 7 /\ Cycles("JSR", "abs") = 6
    /\ Cycles("RTS", "imp") = 6 /\ Cycles("RTI", "imp") = 6
    /\ Cycles("PLA", "imp") = 4 /\ Cycles("PLP", "imp") = 4
    /\ Cycles("PHA", "imp") = 3 /\ Cycles("PHP", "imp") = 3
    /\ Cycles("JMP", "abs") = 3 /\ Cycles("JMP", "ind") = 5
BY DEF Cycles, OwnCycles

LEMMA PlainCosts ==
    ASSUME NEW name, name \notin DOMAIN OwnCycles, name # "JMP"
    PROVE  /\ \A mode \in {"imp", "acc", "imm", "rel"} : Cycles(name, mode) = 2
           /\ name \notin Modifies =>
                  /\ Cycles(name, "zp") = 3 /\ Cycles(name, "zpx") = 4 /\ Cycles(name, "abs") = 4
                  /\ Cycles(name, "indx") = 6
           /\ name \in Modifies =>
                  /\ Cycles(name, "zp") = 5 /\ Cycles(name, "zpx") = 6 /\ Cycles(name, "abs") = 6
<1>1. ASSUME NEW mode \in {"imp", "acc", "imm", "rel"}
      PROVE  Cycles(name, mode) = 2
  <2>1. mode \notin DOMAIN AccessCycles
      BY <1>1 DEF AccessCycles
  <2>. QED BY <2>1 DEF Cycles
<1>. DEFINE more == IF name \in Modifies THEN 2 ELSE 0
<1>2. ASSUME NEW mode \in {"zp", "zpx", "abs", "indx"}
      PROVE  Cycles(name, mode) = AccessCycles[mode] + more
  <2>1. mode \in DOMAIN AccessCycles /\ mode \notin {"absx", "absy", "indy"}
      BY <1>2 DEF AccessCycles
  <2>2. PICK access, extra : access = AccessCycles[mode] /\ extra = more
      OBVIOUS
  <2>3. access \in Nat /\ extra \in Nat
      BY <1>2, <2>2 DEF AccessCycles
  <2>4. Cycles(name, mode) = access + extra + 0
      BY <2>1, <2>2 DEF Cycles
  <2>. QED BY <2>2, <2>3, <2>4
<1>3. /\ AccessCycles["zp"] = 3 /\ AccessCycles["zpx"] = 4 /\ AccessCycles["abs"] = 4
      /\ AccessCycles["indx"] = 6
    BY DEF AccessCycles
<1>. HIDE DEF more
<1>4. /\ Cycles(name, "zp") = 3 + more /\ Cycles(name, "zpx") = 4 + more
      /\ Cycles(name, "abs") = 4 + more /\ Cycles(name, "indx") = 6 + more
    BY <1>2, <1>3
<1>5. (name \notin Modifies => more = 0) /\ (name \in Modifies => more = 2)
    BY DEF more
<1>. QED BY <1>1, <1>4, <1>5

LEMMA IndexedCosts == Cycles("LDA", "indy") = 5 /\ Cycles("STA", "absy") = 5
<1>1. Cycles("LDA", "indy") = 5 + 0 + 0
    BY DEF Cycles, OwnCycles, AccessCycles, Modifies, Shifts, Stores
<1>2. Cycles("STA", "absy") = 4 + 0 + 1
    BY DEF Cycles, OwnCycles, AccessCycles, Modifies, Shifts, Stores
<1>. QED BY <1>1, <1>2

----------------------------------------------------------------------------
LEMMA Parts ==
    ASSUME core \in CoreState
    PROVE  /\ core = St(core.A, core.X, core.Y, core.SP, core.PC, core.P, core.cycles, core.mem)
           /\ core.A \in UInt8 /\ core.X \in UInt8 /\ core.Y \in UInt8 /\ core.SP \in UInt8
           /\ core.PC \in UInt16 /\ core.P \in SUBSET Flags /\ core.cycles \in Nat
           /\ core.mem \in RAM
BY DEF CoreState, St

LEMMA Decoding ==
    ASSUME NEW name, NEW mode, NEW arg, Doing(name, mode, arg)
    PROVE  /\ inst.name = name /\ inst.mode = mode /\ inst.arg = arg
           /\ inst.next = core.PC + Length(mode)
           /\ inst.cycles = Cycles(name, mode)
           /\ inst.pageCycle = PageCycle(name, mode)
           /\ Cycles(name, mode) \in Nat /\ Length(mode) \in {1, 2, 3}
<1>1. core.PC \in Nat /\ core.PC + 3 < 65536
    BY Ranges DEF Doing, CoreState
<1>2. PICK len \in {1, 2, 3} : len = Length(mode)
    BY DEF Length
<1>3. (core.PC + len) % 65536 = core.PC + len
    BY <1>1
<1>4. PICK at \in DOMAIN Code : at = core.PC
    BY DEF Doing
<1>5. PICK n, c : n = Cycles(name, mode) /\ c = PageCycle(name, mode)
    OBVIOUS
<1>6. Code[at] = [name |-> name, mode |-> mode, arg |-> arg]
    BY <1>4 DEF Doing
<1>7. Decoded[at] = [name |-> name, mode |-> mode, arg |-> arg, next |-> (at + len) % 65536,
                     cycles |-> n, pageCycle |-> c]
    BY <1>2, <1>5, <1>6 DEF Decoded
<1>8. mode \in Modes(name)
    BY <1>6, CodeAssumption
<1>9. n \in Nat
    BY <1>5, <1>8, CyclesBounded
<1>. QED BY <1>2, <1>3, <1>4, <1>5, <1>7, <1>9 DEF inst

(* Which action an instruction is. *)
Kind ==
    [LDA |-> 1, LDX |-> 1, LDY |-> 1, STA |-> 2, STX |-> 2, STY |-> 2, TAX |-> 3,
     TAY |-> 3, TXA |-> 3, TYA |-> 3, TSX |-> 3, TXS |-> 4, PHA |-> 5, PHP |-> 6,
     PLA |-> 7, PLP |-> 8, AND |-> 9, ORA |-> 9, EOR |-> 9, BIT |-> 10, ADC |-> 11,
     SBC |-> 11, CMP |-> 12, CPX |-> 12, CPY |-> 12, ASL |-> 13, LSR |-> 13, ROL |-> 13,
     ROR |-> 13, INC |-> 13, DEC |-> 13, INX |-> 14, INY |-> 14, DEX |-> 14, DEY |-> 14,
     JMP |-> 15, JSR |-> 16, RTS |-> 17, RTI |-> 18, BPL |-> 19, BMI |-> 19, BVC |-> 19,
     BVS |-> 19, BCC |-> 19, BCS |-> 19, BNE |-> 19, BEQ |-> 19, CLC |-> 20, SEC |-> 20,
     CLI |-> 20, SEI |-> 20, CLV |-> 20, CLD |-> 20, SED |-> 20, NOP |-> 21, BRK |-> 22]

LEMMA Dispatch ==
    ASSUME ExecuteInstruction, NEW name, name = inst.name
    PROVE  /\ name \in DOMAIN Loads => Load
           /\ name \in DOMAIN Stores => Store
           /\ name \in DOMAIN Moves => Transfer
           /\ name = "TXS" => SetStack
           /\ name = "PHA" => PushA
           /\ name = "PHP" => PushP
           /\ name = "PLA" => PullA
           /\ name = "PLP" => PullP
           /\ name \in {"AND", "ORA", "EOR"} => Logic
           /\ name = "BIT" => TestBits
           /\ name \in {"ADC", "SBC"} => Arithmetic
           /\ name \in DOMAIN Compares => CompareReg
           /\ name \in Modifies => Modify
           /\ name \in DOMAIN Counts => Count
           /\ name = "JMP" => Jump
           /\ name = "JSR" => JumpSub
           /\ name = "RTS" => ReturnSub
           /\ name = "RTI" => ReturnInt
           /\ name \in DOMAIN Branches => Branch
           /\ name \in DOMAIN FlagOps => SetOrClear
           /\ name = "NOP" => Nothing
           /\ name = "BRK" => BreakIn
<1>1. PICK kind : name = inst.name /\ kind = Kind[name]
    OBVIOUS
<1>2. name \in DOMAIN Loads => kind = 1
    BY <1>1 DEF Kind, Loads
<1>3. name \in DOMAIN Stores => kind = 2
    BY <1>1 DEF Kind, Stores
<1>4. name \in DOMAIN Moves => kind = 3
    BY <1>1 DEF Kind, Moves
<1>5. name = "TXS" => kind = 4
    BY <1>1 DEF Kind
<1>6. name = "PHA" => kind = 5
    BY <1>1 DEF Kind
<1>7. name = "PHP" => kind = 6
    BY <1>1 DEF Kind
<1>8. name = "PLA" => kind = 7
    BY <1>1 DEF Kind
<1>9. name = "PLP" => kind = 8
    BY <1>1 DEF Kind
<1>10. name \in {"AND", "ORA", "EOR"} => kind = 9
    BY <1>1 DEF Kind
<1>11. name = "BIT" => kind = 10
    BY <1>1 DEF Kind
<1>12. name \in {"ADC", "SBC"} => kind = 11
    BY <1>1 DEF Kind
<1>13. name \in DOMAIN Compares => kind = 12
    BY <1>1 DEF Kind, Compares
<1>14. name \in Modifies => kind = 13
    BY <1>1 DEF Kind, Modifies, Shifts
<1>15. name \in DOMAIN Counts => kind = 14
    BY <1>1 DEF Kind, Counts
<1>16. name = "JMP" => kind = 15
    BY <1>1 DEF Kind
<1>17. name = "JSR" => kind = 16
    BY <1>1 DEF Kind
<1>18. name = "RTS" => kind = 17
    BY <1>1 DEF Kind
<1>19. name = "RTI" => kind = 18
    BY <1>1 DEF Kind
<1>20. name \in DOMAIN Branches => kind = 19
    BY <1>1 DEF Kind, Branches
<1>21. name \in DOMAIN FlagOps => kind = 20
    BY <1>1 DEF Kind, FlagOps
<1>22. name = "NOP" => kind = 21
    BY <1>1 DEF Kind
<1>23. name = "BRK" => kind = 22
    BY <1>1 DEF Kind
<1>24. Load => kind = 1
    BY <1>1, <1>2 DEF Load
<1>25. Store => kind = 2
    BY <1>1, <1>3 DEF Store
<1>26. Transfer => kind = 3
    BY <1>1, <1>4 DEF Transfer
<1>27. SetStack => kind = 4
    BY <1>1, <1>5 DEF SetStack
<1>28. PushA => kind = 5
    BY <1>1, <1>6 DEF PushA
<1>29. PushP => kind = 6
    BY <1>1, <1>7 DEF PushP
<1>30. PullA => kind = 7
    BY <1>1, <1>8 DEF PullA
<1>31. PullP => kind = 8
    BY <1>1, <1>9 DEF PullP
<1>32. Logic => kind = 9
    BY <1>1, <1>10 DEF Logic
<1>33. TestBits => kind = 10
    BY <1>1, <1>11 DEF TestBits
<1>34. Arithmetic => kind = 11
    BY <1>1, <1>12 DEF Arithmetic
<1>35. CompareReg => kind = 12
    BY <1>1, <1>13 DEF CompareReg
<1>36. Modify => kind = 13
    BY <1>1, <1>14 DEF Modify, Modifies, Shifts
<1>37. Count => kind = 14
    BY <1>1, <1>15 DEF Count
<1>38. Jump => kind = 15
    BY <1>1, <1>16 DEF Jump
<1>39. JumpSub => kind = 16
    BY <1>1, <1>17 DEF JumpSub
<1>40. ReturnSub => kind = 17
    BY <1>1, <1>18 DEF ReturnSub
<1>41. ReturnInt => kind = 18
    BY <1>1, <1>19 DEF ReturnInt
<1>42. Branch => kind = 19
    BY <1>1, <1>20 DEF Branch
<1>43. SetOrClear => kind = 20
    BY <1>1, <1>21 DEF SetOrClear
<1>44. Nothing => kind = 21
    BY <1>1, <1>22 DEF Nothing
<1>45. BreakIn => kind = 22
  <2>1. BreakIn => inst.name = "BRK"
      BY DEF BreakIn
  <2>. QED BY <1>1, <1>23, <2>1
<1>46. \/ Load \/ Store \/ Transfer \/ SetStack \/ PushA \/ PushP \/ PullA \/ PullP
       \/ Logic \/ TestBits \/ Arithmetic \/ CompareReg \/ Modify \/ Count
       \/ Jump \/ JumpSub \/ ReturnSub \/ ReturnInt \/ Branch \/ SetOrClear \/ Nothing \/ BreakIn
    BY DEF ExecuteInstruction
<1>47. /\ (kind = 1 => Load) /\ (kind = 2 => Store) /\ (kind = 3 => Transfer)
       /\ (kind = 4 => SetStack) /\ (kind = 5 => PushA) /\ (kind = 6 => PushP)
       /\ (kind = 7 => PullA) /\ (kind = 8 => PullP) /\ (kind = 9 => Logic)
       /\ (kind = 10 => TestBits) /\ (kind = 11 => Arithmetic) /\ (kind = 12 => CompareReg)
       /\ (kind = 13 => Modify) /\ (kind = 14 => Count) /\ (kind = 15 => Jump)
       /\ (kind = 16 => JumpSub) /\ (kind = 17 => ReturnSub) /\ (kind = 18 => ReturnInt)
       /\ (kind = 19 => Branch) /\ (kind = 20 => SetOrClear) /\ (kind = 21 => Nothing)
       /\ (kind = 22 => BreakIn)
    BY <1>24, <1>25, <1>26, <1>27, <1>28, <1>29, <1>30, <1>31, <1>32, <1>33, <1>34,
       <1>35, <1>36, <1>37, <1>38, <1>39, <1>40, <1>41, <1>42, <1>43, <1>44, <1>45,
       <1>46
<1>48. /\ name \in DOMAIN Loads => Load
       /\ name \in DOMAIN Stores => Store
       /\ name \in DOMAIN Moves => Transfer
       /\ name = "TXS" => SetStack
       /\ name = "PHA" => PushA
       /\ name = "PHP" => PushP
       /\ name = "PLA" => PullA
       /\ name = "PLP" => PullP
    BY <1>2, <1>3, <1>4, <1>5, <1>6, <1>7, <1>8, <1>9, <1>47
<1>49. /\ name \in {"AND", "ORA", "EOR"} => Logic
       /\ name = "BIT" => TestBits
       /\ name \in {"ADC", "SBC"} => Arithmetic
       /\ name \in DOMAIN Compares => CompareReg
       /\ name \in Modifies => Modify
       /\ name \in DOMAIN Counts => Count
    BY <1>10, <1>11, <1>12, <1>13, <1>14, <1>15, <1>47
<1>50. /\ name = "JMP" => Jump
       /\ name = "JSR" => JumpSub
       /\ name = "RTS" => ReturnSub
       /\ name = "RTI" => ReturnInt
       /\ name \in DOMAIN Branches => Branch
       /\ name \in DOMAIN FlagOps => SetOrClear
       /\ name = "NOP" => Nothing
       /\ name = "BRK" => BreakIn
    BY <1>16, <1>17, <1>18, <1>19, <1>20, <1>21, <1>22, <1>23, <1>47
<1>. QED BY <1>48, <1>49, <1>50

LEMMA ExecutedGoes ==
    ASSUME NEW name, NEW mode, NEW arg, Doing(name, mode, arg), NEW cost \in {0, 1, 2},
           NEW extra, extra = (IF PageCycle(name, mode) /\ PageCrossed THEN 1 ELSE 0),
           NEW next, next = core.PC + Length(mode),
           NEW total, total = core.cycles + (Cycles(name, mode) + cost + extra)
    PROVE  /\ Executed(cost) = St(core.A, core.X, core.Y, core.SP, next, core.P, total, core.mem)
           /\ next \in UInt16 /\ total \in Nat /\ core \in CoreState
<1>1. PICK k : k = Cycles(name, mode) /\ k \in Nat
    BY Decoding
<1>2. inst.next = next /\ inst.cycles = k /\ inst.pageCycle = PageCycle(name, mode)
    BY <1>1, Decoding
<1>3. PICK page : page = (IF inst.pageCycle /\ PageCrossed THEN 1 ELSE 0)
    OBVIOUS
<1>4. page = extra /\ extra \in {0, 1}
    BY <1>2, <1>3
<1>5. total = core.cycles + k + cost + page
    BY <1>1, <1>4, Parts DEF Doing
<1>6. Executed(cost) = [core EXCEPT !.PC = next, !.cycles = total]
    BY <1>2, <1>3, <1>5, Zenon DEF Executed
<1>7. PICK e : e = Executed(cost)
    OBVIOUS
<1>8. next \in UInt16 /\ total \in Nat
  <2>1. core.PC + Length(mode) < 65536 /\ core.PC + Length(mode) \in Nat
      BY Decoding, Parts, Ranges DEF Doing
  <2>. QED BY <1>1, <1>4, <1>5, <2>1, Parts, Ranges DEF Doing
<1>9. core \in CoreState
    BY DEF Doing
<1>10. e = [core EXCEPT !.PC = next, !.cycles = total]
    BY <1>6, <1>7
<1>11. e = St(core.A, core.X, core.Y, core.SP, next, core.P, total, core.mem)
    BY <1>8, <1>9, <1>10 DEF CoreState, St
<1>. QED BY <1>7, <1>8, <1>9, <1>11

----------------------------------------------------------------------------
(* It takes len bytes and n cycles. *)
Takes(name, mode, len, n) ==
    /\ len = Length(mode)
    /\ n = Cycles(name, mode) + (IF PageCycle(name, mode) /\ PageCrossed THEN 1 ELSE 0)

LEMMA Begins ==
    ASSUME NEW name, NEW mode, NEW arg, Doing(name, mode, arg), NEW len, NEW n, Takes(name, mode, len, n)
    PROVE  \E next \in UInt16, total \in Nat :
               /\ next = core.PC + len /\ total = core.cycles + n
               /\ Executed(0) = St(core.A, core.X, core.Y, core.SP, next, core.P, total, core.mem)
<1>1. PICK extra : extra = (IF PageCycle(name, mode) /\ PageCrossed THEN 1 ELSE 0)
    OBVIOUS
<1>2. PICK k : k = Cycles(name, mode) /\ k \in Nat
    BY Decoding
<1>3. extra \in {0, 1}
    BY <1>1
<1>4. PICK next, total : next = core.PC + len /\ total = core.cycles + n
    OBVIOUS
<1>5. next = core.PC + Length(mode) /\ total = core.cycles + (Cycles(name, mode) + 0 + extra)
    BY <1>1, <1>2, <1>3, <1>4 DEF Takes
<1>6. /\ Executed(0) = St(core.A, core.X, core.Y, core.SP, next, core.P, total, core.mem)
      /\ next \in UInt16 /\ total \in Nat
    BY <1>1, <1>5, ExecutedGoes
<1>. QED BY <1>4, <1>6

LEMMA Reaches ==
    ASSUME NEW a, NEW x, NEW y, NEW sp, NEW next, NEW p, NEW total, NEW m,
           core' = St(a, x, y, sp, next, p, total, m),
           NEW len, NEW n, next = core.PC + len, total = core.cycles + n
    PROVE  Goes(a, x, y, sp, len, p, n, m)
BY DEF Goes, GoesTo, St

LEMMA SetRegTo ==
    ASSUME NEW a, NEW x, NEW y, NEW sp, NEW next, NEW q, NEW total, NEW m, NEW v,
           Executed(0) = St(a, x, y, sp, next, q, total, m), NEW p, p = SetZN(q, v)
    PROVE  /\ SetReg("A", v) = St(v, x, y, sp, next, p, total, m)
           /\ SetReg("X", v) = St(a, v, y, sp, next, p, total, m)
           /\ SetReg("Y", v) = St(a, x, v, sp, next, p, total, m)
<1>1. PICK e : e = Executed(0)
    OBVIOUS
<1>2. e = St(a, x, y, sp, next, q, total, m)
    BY <1>1
<1>3. e.P = q
    BY <1>2 DEF St
<1>4. SetZN(e.P, v) = p
    BY <1>3
<1>5. SetReg("A", v) = St(v, x, y, sp, next, p, total, m)
  <2>1. PICK f : f = [e EXCEPT !["A"] = v]
      OBVIOUS
  <2>2. f = St(v, x, y, sp, next, q, total, m)
      BY <1>2, <2>1 DEF St
  <2>3. [f EXCEPT !.P = p] = St(v, x, y, sp, next, p, total, m)
      BY <2>2 DEF St
  <2>4. SetReg("A", v) = [e EXCEPT !["A"] = v, !.P = p]
      BY <1>1, <1>4 DEF SetReg
  <2>5. [e EXCEPT !["A"] = v, !.P = p] = [f EXCEPT !.P = p]
      BY <2>1
  <2>. QED BY <2>3, <2>4, <2>5
<1>6. SetReg("X", v) = St(a, v, y, sp, next, p, total, m)
  <2>1. PICK f : f = [e EXCEPT !["X"] = v]
      OBVIOUS
  <2>2. f = St(a, v, y, sp, next, q, total, m)
      BY <1>2, <2>1 DEF St
  <2>3. [f EXCEPT !.P = p] = St(a, v, y, sp, next, p, total, m)
      BY <2>2 DEF St
  <2>4. SetReg("X", v) = [e EXCEPT !["X"] = v, !.P = p]
      BY <1>1, <1>4 DEF SetReg
  <2>5. [e EXCEPT !["X"] = v, !.P = p] = [f EXCEPT !.P = p]
      BY <2>1
  <2>. QED BY <2>3, <2>4, <2>5
<1>7. SetReg("Y", v) = St(a, x, v, sp, next, p, total, m)
  <2>1. PICK f : f = [e EXCEPT !["Y"] = v]
      OBVIOUS
  <2>2. f = St(a, x, v, sp, next, q, total, m)
      BY <1>2, <2>1 DEF St
  <2>3. [f EXCEPT !.P = p] = St(a, x, v, sp, next, p, total, m)
      BY <2>2 DEF St
  <2>4. SetReg("Y", v) = [e EXCEPT !["Y"] = v, !.P = p]
      BY <1>1, <1>4 DEF SetReg
  <2>5. [e EXCEPT !["Y"] = v, !.P = p] = [f EXCEPT !.P = p]
      BY <2>1
  <2>. QED BY <2>3, <2>4, <2>5
<1>. QED BY <1>5, <1>6, <1>7

LEMMA SetRegGoes ==
    ASSUME NEW name, NEW mode, NEW arg, Doing(name, mode, arg),
           NEW len, NEW n, Takes(name, mode, len, n), NEW v,
           NEW reg \in {"A", "X", "Y"}, core' = SetReg(reg, v)
    PROVE  /\ reg = "A" => Goes(v, core.X, core.Y, core.SP, len, SetZN(core.P, v), n, core.mem)
           /\ reg = "X" => Goes(core.A, v, core.Y, core.SP, len, SetZN(core.P, v), n, core.mem)
           /\ reg = "Y" => Goes(core.A, core.X, v, core.SP, len, SetZN(core.P, v), n, core.mem)
<1>1. PICK next \in UInt16, total \in Nat :
          /\ next = core.PC + len /\ total = core.cycles + n
          /\ Executed(0) = St(core.A, core.X, core.Y, core.SP, next, core.P, total, core.mem)
    BY Begins
<1>2. PICK p : p = SetZN(core.P, v)
    OBVIOUS
<1>3. /\ SetReg("A", v) = St(v, core.X, core.Y, core.SP, next, p, total, core.mem)
      /\ SetReg("X", v) = St(core.A, v, core.Y, core.SP, next, p, total, core.mem)
      /\ SetReg("Y", v) = St(core.A, core.X, v, core.SP, next, p, total, core.mem)
    BY <1>1, <1>2, SetRegTo
<1>4. CASE reg = "A"
    BY <1>1, <1>2, <1>3, <1>4, Reaches
<1>5. CASE reg = "X"
    BY <1>1, <1>2, <1>3, <1>5, Reaches
<1>6. CASE reg = "Y"
    BY <1>1, <1>2, <1>3, <1>6, Reaches
<1>. QED BY <1>4, <1>5, <1>6

LEMMA LoadGoes ==
    ASSUME NEW name \in DOMAIN Loads, NEW mode, NEW arg, Doing(name, mode, arg),
           NEW len, NEW n, Takes(name, mode, len, n), NEW v, v = Value
    PROVE  /\ name = "LDA" => Goes(v, core.X, core.Y, core.SP, len, SetZN(core.P, v), n, core.mem)
           /\ name = "LDX" => Goes(core.A, v, core.Y, core.SP, len, SetZN(core.P, v), n, core.mem)
           /\ name = "LDY" => Goes(core.A, core.X, v, core.SP, len, SetZN(core.P, v), n, core.mem)
<1>1. inst.name = name /\ Load
    BY Decoding, Dispatch DEF Doing
<1>2. PICK reg \in {"A", "X", "Y"} : reg = Loads[name]
    BY DEF Loads
<1>3. core' = SetReg(reg, v)
    BY <1>1, <1>2 DEF Load, Done
<1>4. /\ name = "LDA" => reg = "A"
      /\ name = "LDX" => reg = "X"
      /\ name = "LDY" => reg = "Y"
    BY <1>2 DEF Loads
<1>. QED BY <1>3, <1>4, SetRegGoes

LEMMA CountGoes ==
    ASSUME NEW name \in DOMAIN Counts, NEW mode, NEW arg, Doing(name, mode, arg),
           NEW len, NEW n, Takes(name, mode, len, n), NEW v
    PROVE  /\ name = "INX" /\ v = (core.X + 1) % 256 =>
                  Goes(core.A, v, core.Y, core.SP, len, SetZN(core.P, v), n, core.mem)
           /\ name = "DEX" /\ v = (core.X + 255) % 256 =>
                  Goes(core.A, v, core.Y, core.SP, len, SetZN(core.P, v), n, core.mem)
           /\ name = "INY" /\ v = (core.Y + 1) % 256 =>
                  Goes(core.A, core.X, v, core.SP, len, SetZN(core.P, v), n, core.mem)
<1>1. inst.name = name /\ Count
    BY Decoding, Dispatch DEF Doing
<1>2. core' = SetReg(Counts[name][1], (core[Counts[name][1]] + Counts[name][2]) % 256)
    BY <1>1 DEF Count, Done
<1>3. ASSUME name = "INX", v = (core.X + 1) % 256
      PROVE  core' = SetReg("X", v)
    BY <1>2, <1>3 DEF Counts
<1>4. ASSUME name = "DEX", v = (core.X + 255) % 256
      PROVE  core' = SetReg("X", v)
    BY <1>2, <1>4 DEF Counts
<1>5. ASSUME name = "INY", v = (core.Y + 1) % 256
      PROVE  core' = SetReg("Y", v)
    BY <1>2, <1>5 DEF Counts
<1>. QED BY <1>3, <1>4, <1>5, SetRegGoes

LEMMA MoveGoes ==
    ASSUME NEW name \in DOMAIN Moves, NEW mode, NEW arg, Doing(name, mode, arg),
           NEW len, NEW n, Takes(name, mode, len, n)
    PROVE  /\ name = "TAX" =>
                  Goes(core.A, core.A, core.Y, core.SP, len, SetZN(core.P, core.A), n, core.mem)
           /\ name = "TAY" =>
                  Goes(core.A, core.X, core.A, core.SP, len, SetZN(core.P, core.A), n, core.mem)
           /\ name = "TXA" =>
                  Goes(core.X, core.X, core.Y, core.SP, len, SetZN(core.P, core.X), n, core.mem)
           /\ name = "TYA" =>
                  Goes(core.Y, core.X, core.Y, core.SP, len, SetZN(core.P, core.Y), n, core.mem)
           /\ name = "TSX" =>
                  Goes(core.A, core.SP, core.Y, core.SP, len, SetZN(core.P, core.SP), n, core.mem)
<1>1. inst.name = name /\ Transfer
    BY Decoding, Dispatch DEF Doing
<1>2. core' = SetReg(Moves[name][2], core[Moves[name][1]])
    BY <1>1 DEF Transfer, Done
<1>3. /\ name = "TAX" => core' = SetReg("X", core.A)
      /\ name = "TAY" => core' = SetReg("Y", core.A)
      /\ name = "TXA" => core' = SetReg("A", core.X)
      /\ name = "TYA" => core' = SetReg("A", core.Y)
      /\ name = "TSX" => core' = SetReg("X", core.SP)
    BY <1>2 DEF Moves
<1>. QED BY <1>3, SetRegGoes

LEMMA LogicGoes ==
    ASSUME NEW name \in {"AND", "ORA", "EOR"}, NEW mode, NEW arg, Doing(name, mode, arg),
           NEW len, NEW n, Takes(name, mode, len, n), NEW v, v = Value, NEW r,
           \/ name = "AND" /\ r = And(core.A, v)
           \/ name = "ORA" /\ r = Or(core.A, v)
           \/ name = "EOR" /\ r = Xor(core.A, v)
    PROVE  Goes(r, core.X, core.Y, core.SP, len, SetZN(core.P, r), n, core.mem)
<1>1. inst.name = name /\ Logic
    BY Decoding, Dispatch DEF Doing
<1>2. core' = SetReg("A", r)
    BY <1>1 DEF Logic, Done
<1>. QED BY <1>2, SetRegGoes

(* A byte put into memory. *)
Wrote(m, at, v) == [m EXCEPT ![at] = v]

LEMMA Poked ==
    ASSUME NEW a, NEW x, NEW y, NEW sp, NEW next, NEW p, NEW total, NEW m \in RAM,
           NEW at \in Cells, NEW v
    PROVE  Poke(St(a, x, y, sp, next, p, total, m), at, v)
               = St(a, x, y, sp, next, p, total, Wrote(m, at, v))
<1>1. PICK s, w : s = St(a, x, y, sp, next, p, total, m) /\ w = Wrote(m, at, v)
    OBVIOUS
<1>2. s.mem = m /\ DOMAIN m = Cells
    BY <1>1 DEF St, RAM
<1>3. Poke(s, at, v) = [s EXCEPT !.mem[at] = v]
    BY <1>2 DEF Poke
<1>4. [s EXCEPT !.mem[at] = v] = [s EXCEPT !.mem = w]
    BY <1>1, <1>2 DEF Wrote
<1>5. [s EXCEPT !.mem = w] = St(a, x, y, sp, next, p, total, w)
    BY <1>1 DEF St
<1>. QED BY <1>1, <1>3, <1>4, <1>5

LEMMA StoreGoes ==
    ASSUME NEW name \in DOMAIN Stores, NEW mode, NEW arg, Doing(name, mode, arg),
           NEW len, NEW n, Takes(name, mode, len, n), NEW at \in Cells, at = Address,
           NEW v, v = core[Stores[name]]
    PROVE  Goes(core.A, core.X, core.Y, core.SP, len, core.P, n, Wrote(core.mem, at, v))
<1>1. inst.name = name /\ Store
    BY Decoding, Dispatch DEF Doing
<1>2. PICK next \in UInt16, total \in Nat :
          /\ next = core.PC + len /\ total = core.cycles + n
          /\ Executed(0) = St(core.A, core.X, core.Y, core.SP, next, core.P, total, core.mem)
    BY Begins
<1>3. core' = Poke(St(core.A, core.X, core.Y, core.SP, next, core.P, total, core.mem), at, v)
    BY <1>1, <1>2 DEF Store, Done
<1>4. core.mem \in RAM
    BY Parts DEF Doing
<1>5. core' = St(core.A, core.X, core.Y, core.SP, next, core.P, total, Wrote(core.mem, at, v))
    BY <1>3, <1>4, Poked
<1>. QED BY <1>2, <1>5, Reaches

LEMMA ModifyGoes ==
    ASSUME NEW name \in Modifies, NEW mode, NEW arg, Doing(name, mode, arg), mode # "acc",
           NEW len, NEW n, Takes(name, mode, len, n), NEW at \in Cells, at = Address,
           NEW old, old = core.mem[at], NEW v, NEW q,
           \/ name = "ASL" /\ v = (2 * old) % 256 /\ q = SetFlag(core.P, "C", Bit7(old))
           \/ name = "LSR" /\ v = old \div 2 /\ q = SetFlag(core.P, "C", Bit0(old))
           \/ /\ name = "ROL" /\ v = (2 * old + Carry(core.P)) % 256
              /\ q = SetFlag(core.P, "C", Bit7(old))
           \/ /\ name = "ROR" /\ v = (old \div 2) + 128 * Carry(core.P)
              /\ q = SetFlag(core.P, "C", Bit0(old))
           \/ name = "INC" /\ v = (old + 1) % 256 /\ q = core.P
           \/ name = "DEC" /\ v = (old + 255) % 256 /\ q = core.P
    PROVE  Goes(core.A, core.X, core.Y, core.SP, len, SetZN(q, v), n, Wrote(core.mem, at, v))
<1>1. inst.name = name /\ inst.mode = mode /\ Modify
    BY Decoding, Dispatch DEF Doing
<1>2. PICK next \in UInt16, total \in Nat :
          /\ next = core.PC + len /\ total = core.cycles + n
          /\ Executed(0) = St(core.A, core.X, core.Y, core.SP, next, core.P, total, core.mem)
    BY Begins
<1>3. core.mem \in RAM /\ DOMAIN core.mem = Cells
    BY Parts DEF Doing, RAM
<1>4. Old = old
    BY <1>1, <1>3 DEF Old, Peek
<1>5. core' = Replaced(v, q)
    BY <1>1, <1>4, Zenon DEF Modify, Done, Shifted
<1>6. PICK e, p : e = Executed(0) /\ p = SetZN(q, v)
    OBVIOUS
<1>7. [e EXCEPT !.P = p] = St(core.A, core.X, core.Y, core.SP, next, p, total, core.mem)
    BY <1>2, <1>6 DEF St
<1>8. core' = Poke([e EXCEPT !.P = p], at, v)
    BY <1>1, <1>5, <1>6 DEF Replaced
<1>9. core' = St(core.A, core.X, core.Y, core.SP, next, p, total, Wrote(core.mem, at, v))
    BY <1>3, <1>7, <1>8, Poked
<1>. QED BY <1>2, <1>6, <1>9, Reaches

LEMMA RotateGoes ==
    ASSUME NEW arg, Doing("ROR", "acc", arg), NEW len, NEW n, Takes("ROR", "acc", len, n),
           NEW v, v = (core.A \div 2) + 128 * Carry(core.P),
           NEW q, q = SetFlag(core.P, "C", Bit0(core.A))
    PROVE  Goes(v, core.X, core.Y, core.SP, len, SetZN(q, v), n, core.mem)
<1>1. inst.name = "ROR" /\ inst.mode = "acc"
    BY Decoding
<1>2. Modify
    BY <1>1, Dispatch DEF Doing, Modifies, Shifts
<1>3. PICK next \in UInt16, total \in Nat :
          /\ next = core.PC + len /\ total = core.cycles + n
          /\ Executed(0) = St(core.A, core.X, core.Y, core.SP, next, core.P, total, core.mem)
    BY Begins
<1>4. Old = core.A
    BY <1>1 DEF Old
<1>5. core' = Replaced(v, q)
    BY <1>1, <1>2, <1>4 DEF Modify, Done, Shifted
<1>6. PICK e, p, f : e = Executed(0) /\ p = SetZN(q, v) /\ f = [e EXCEPT !.P = p]
    OBVIOUS
<1>7. f = St(core.A, core.X, core.Y, core.SP, next, p, total, core.mem)
    BY <1>3, <1>6 DEF St
<1>8. core' = [f EXCEPT !.A = v]
    BY <1>1, <1>5, <1>6 DEF Replaced
<1>9. core' = St(v, core.X, core.Y, core.SP, next, p, total, core.mem)
    BY <1>7, <1>8 DEF St
<1>. QED BY <1>3, <1>6, <1>9, Reaches

(* An instruction that changes only the flags. *)
LEMMA FlagsGo ==
    ASSUME NEW name, NEW mode, NEW arg, Doing(name, mode, arg),
           NEW len, NEW n, Takes(name, mode, len, n), NEW p,
           \A e : e.P = core.P /\ e = Executed(0) => core' = [e EXCEPT !.P = p]
    PROVE  Goes(core.A, core.X, core.Y, core.SP, len, p, n, core.mem)
<1>1. PICK next \in UInt16, total \in Nat :
          /\ next = core.PC + len /\ total = core.cycles + n
          /\ Executed(0) = St(core.A, core.X, core.Y, core.SP, next, core.P, total, core.mem)
    BY Begins
<1>2. PICK e : e = Executed(0)
    OBVIOUS
<1>3. e = St(core.A, core.X, core.Y, core.SP, next, core.P, total, core.mem)
    BY <1>1, <1>2
<1>4. e.P = core.P
    BY <1>3 DEF St
<1>5. core' = [e EXCEPT !.P = p]
    BY <1>2, <1>4
<1>6. core' = St(core.A, core.X, core.Y, core.SP, next, p, total, core.mem)
    BY <1>3, <1>5 DEF St
<1>. QED BY <1>1, <1>6, Reaches

LEMMA FlagOpGoes ==
    ASSUME NEW name \in DOMAIN FlagOps, NEW mode, NEW arg, Doing(name, mode, arg),
           NEW len, NEW n, Takes(name, mode, len, n), NEW p,
           p = SetFlag(core.P, FlagOps[name][1], FlagOps[name][2])
    PROVE  Goes(core.A, core.X, core.Y, core.SP, len, p, n, core.mem)
<1>1. inst.name = name /\ SetOrClear
    BY Decoding, Dispatch DEF Doing
<1>2. ASSUME NEW e, e.P = core.P, e = Executed(0)
      PROVE  core' = [e EXCEPT !.P = p]
    BY <1>1, <1>2 DEF SetOrClear, Done
<1>. QED BY <1>2, FlagsGo

LEMMA CompareGoes ==
    ASSUME NEW name \in DOMAIN Compares, NEW mode, NEW arg, Doing(name, mode, arg),
           NEW len, NEW n, Takes(name, mode, len, n), NEW v, v = Value, NEW p,
           p = Compare(core[Compares[name]], v, core.P)
    PROVE  Goes(core.A, core.X, core.Y, core.SP, len, p, n, core.mem)
<1>1. inst.name = name /\ CompareReg
    BY Decoding, Dispatch DEF Doing
<1>2. ASSUME NEW e, e.P = core.P, e = Executed(0)
      PROVE  core' = [e EXCEPT !.P = p]
    BY <1>1, <1>2 DEF CompareReg, Done
<1>. QED BY <1>2, FlagsGo

LEMMA BitGoes ==
    ASSUME NEW mode, NEW arg, Doing("BIT", mode, arg),
           NEW len, NEW n, Takes("BIT", mode, len, n), NEW v, v = Value, NEW p,
           p = SetFlag(SetFlag(SetFlag(core.P, "Z", And(core.A, v) = 0), "V", HasBit(v, 64)),
                       "N", Bit7(v))
    PROVE  Goes(core.A, core.X, core.Y, core.SP, len, p, n, core.mem)
<1>1. inst.name = "BIT" /\ TestBits
    BY Decoding, Dispatch DEF Doing
<1>2. ASSUME NEW e, e.P = core.P, e = Executed(0)
      PROVE  core' = [e EXCEPT !.P = p]
    BY <1>1, <1>2 DEF TestBits, Done
<1>. QED BY <1>2, FlagsGo

LEMMA NopGoes ==
    ASSUME NEW mode, NEW arg, Doing("NOP", mode, arg), NEW len, NEW n, Takes("NOP", mode, len, n)
    PROVE  Goes(core.A, core.X, core.Y, core.SP, len, core.P, n, core.mem)
<1>1. inst.name = "NOP" /\ Nothing
    BY Decoding, Dispatch DEF Doing
<1>2. PICK next \in UInt16, total \in Nat :
          /\ next = core.PC + len /\ total = core.cycles + n
          /\ Executed(0) = St(core.A, core.X, core.Y, core.SP, next, core.P, total, core.mem)
    BY Begins
<1>3. core' = St(core.A, core.X, core.Y, core.SP, next, core.P, total, core.mem)
    BY <1>1, <1>2 DEF Nothing, Done
<1>. QED BY <1>2, <1>3, Reaches

LEMMA SumGoes ==
    ASSUME NEW name \in {"ADC", "SBC"}, NEW mode, NEW arg, Doing(name, mode, arg),
           NEW len, NEW n, Takes(name, mode, len, n), NEW v, v = Value, NEW r,
           \/ name = "ADC" /\ r = Adc(core.A, v, core.P)
           \/ name = "SBC" /\ r = Sbc(core.A, v, core.P)
    PROVE  Goes(r.a, core.X, core.Y, core.SP, len, r.p, n, core.mem)
<1>1. inst.name = name /\ Arithmetic
    BY Decoding, Dispatch DEF Doing
<1>2. PICK next \in UInt16, total \in Nat :
          /\ next = core.PC + len /\ total = core.cycles + n
          /\ Executed(0) = St(core.A, core.X, core.Y, core.SP, next, core.P, total, core.mem)
    BY Begins
<1>3. PICK e, a, p : e = Executed(0) /\ a = r.a /\ p = r.p
    OBVIOUS
<1>4. Sum(r)
    BY <1>1 DEF Arithmetic
<1>5. core' = [e EXCEPT !.A = a, !.P = p]
    BY <1>3, <1>4 DEF Sum, Done
<1>6. e = St(core.A, core.X, core.Y, core.SP, next, core.P, total, core.mem)
    BY <1>2, <1>3
<1>7. core' = St(a, core.X, core.Y, core.SP, next, p, total, core.mem)
    BY <1>5, <1>6 DEF St
<1>. QED BY <1>2, <1>3, <1>7, Reaches

LEMMA SetStackGoes ==
    ASSUME NEW mode, NEW arg, Doing("TXS", mode, arg), NEW len, NEW n, Takes("TXS", mode, len, n)
    PROVE  Goes(core.A, core.X, core.Y, core.X, len, core.P, n, core.mem)
<1>1. inst.name = "TXS" /\ SetStack
    BY Decoding, Dispatch DEF Doing
<1>2. PICK next \in UInt16, total \in Nat :
          /\ next = core.PC + len /\ total = core.cycles + n
          /\ Executed(0) = St(core.A, core.X, core.Y, core.SP, next, core.P, total, core.mem)
    BY Begins
<1>3. PICK e, sp : e = Executed(0) /\ sp = core.X
    OBVIOUS
<1>4. core' = [e EXCEPT !.SP = sp]
    BY <1>1, <1>3 DEF SetStack, Done
<1>5. e = St(core.A, core.X, core.Y, core.SP, next, core.P, total, core.mem)
    BY <1>2, <1>3
<1>6. core' = St(core.A, core.X, core.Y, sp, next, core.P, total, core.mem)
    BY <1>4, <1>5 DEF St
<1>. QED BY <1>2, <1>3, <1>6, Reaches

(* Where a byte is pushed, and what the stack pointer is then; and where   *)
(* one is pulled.                                                          *)
PushAt(sp, at, low) == at \in Cells /\ at = 256 + sp /\ low = Lower(sp)
PullAt(sp, at, high) == at \in Cells /\ high = Higher(sp) /\ at = 256 + high
Pointed(m, at1, at2, plus, to) == to = (Word(m[at1], m[at2]) + plus) % 65536

LEMMA Pushed ==
    ASSUME NEW a, NEW x, NEW y, NEW sp, NEW next, NEW p, NEW total, NEW m \in RAM,
           NEW at \in Cells, at = 256 + sp, NEW v, NEW low, low = Lower(sp)
    PROVE  PushByte(St(a, x, y, sp, next, p, total, m), v)
               = St(a, x, y, low, next, p, total, Wrote(m, at, v))
<1>1. PICK m2 : m2 = Wrote(m, at, v)
    OBVIOUS
<1>2. PICK s, t : /\ s = St(a, x, y, sp, next, p, total, m)
                 /\ t = St(a, x, y, sp, next, p, total, m2)
    OBVIOUS
<1>3. Poke(s, at, v) = t
  <2>1. Poke(St(a, x, y, sp, next, p, total, m), at, v) = St(a, x, y, sp, next, p, total, m2)
      BY <1>1, Poked
  <2>. QED BY <1>2, <2>1
<1>4. s.SP = sp
    BY <1>2 DEF St
<1>5. PushByte(s, v) = [t EXCEPT !.SP = (@ + 255) % 256]
    BY <1>3, <1>4 DEF PushByte
<1>6. t.SP = sp
    BY <1>2 DEF St
<1>7. PushByte(s, v) = [t EXCEPT !.SP = low]
    BY <1>5, <1>6 DEF Lower
<1>8. PushByte(s, v) = St(a, x, y, low, next, p, total, m2)
    BY <1>2, <1>7 DEF St
<1>. QED BY <1>1, <1>2, <1>8

LEMMA PulledOff ==
    ASSUME NEW a, NEW x, NEW y, NEW sp, NEW next, NEW p, NEW total, NEW m \in RAM,
           NEW at \in Cells, NEW high, high = Higher(sp), at = 256 + high
    PROVE  /\ PullByte(St(a, x, y, sp, next, p, total, m)) = St(a, x, y, high, next, p, total, m)
           /\ Pulled(St(a, x, y, sp, next, p, total, m)) = m[at]
<1>1. PICK s : s = St(a, x, y, sp, next, p, total, m)
    OBVIOUS
<1>2. s.SP = sp /\ s.mem = m /\ DOMAIN m = Cells
    BY <1>1 DEF St, RAM
<1>3. PullByte(s) = [s EXCEPT !.SP = high]
    BY <1>2 DEF PullByte, Higher
<1>4. [s EXCEPT !.SP = high] = St(a, x, y, high, next, p, total, m)
    BY <1>1 DEF St
<1>5. Pulled(s) = m[at]
    BY <1>2 DEF Pulled, Peek, Higher
<1>. QED BY <1>1, <1>3, <1>4, <1>5

LEMMA PushGoes ==
    ASSUME NEW name, NEW mode, NEW arg, Doing(name, mode, arg),
           NEW len, NEW n, Takes(name, mode, len, n), NEW at, NEW low, PushAt(core.SP, at, low)
    PROVE  /\ name = "PHA" =>
                  Goes(core.A, core.X, core.Y, low, len, core.P, n, Wrote(core.mem, at, core.A))
           /\ name = "PHP" => \A v : v = FlagByte8(core.P, TRUE) =>
                  Goes(core.A, core.X, core.Y, low, len, core.P, n, Wrote(core.mem, at, v))
<1>1. inst.name = name /\ (name = "PHA" => PushA) /\ (name = "PHP" => PushP)
    BY Decoding, Dispatch DEF Doing
<1>2. PICK next \in UInt16, total \in Nat :
          /\ next = core.PC + len /\ total = core.cycles + n
          /\ Executed(0) = St(core.A, core.X, core.Y, core.SP, next, core.P, total, core.mem)
    BY Begins
<1>3. core.mem \in RAM
    BY Parts DEF Doing
<1>4. ASSUME NEW v, core' = PushByte(Executed(0), v)
      PROVE  Goes(core.A, core.X, core.Y, low, len, core.P, n, Wrote(core.mem, at, v))
  <2>1. core' = PushByte(St(core.A, core.X, core.Y, core.SP, next, core.P, total, core.mem), v)
      BY <1>2, <1>4
  <2>2. core' = St(core.A, core.X, core.Y, low, next, core.P, total, Wrote(core.mem, at, v))
      BY <1>3, <2>1, Pushed DEF PushAt
  <2>. QED BY <1>2, <2>2, Reaches
<1>5. (name = "PHA" => core' = PushByte(Executed(0), core.A))
      /\ (name = "PHP" => core' = PushByte(Executed(0), FlagByte8(core.P, TRUE)))
    BY <1>1 DEF PushA, PushP, Done
<1>. QED BY <1>4, <1>5

LEMMA PullAGoes ==
    ASSUME NEW mode, NEW arg, Doing("PLA", mode, arg), NEW len, NEW n, Takes("PLA", mode, len, n),
           NEW at \in Cells, NEW high, high = Higher(core.SP), at = 256 + high,
           NEW v, v = core.mem[at]
    PROVE  Goes(v, core.X, core.Y, high, len, SetZN(core.P, v), n, core.mem)
<1>1. inst.name = "PLA" /\ PullA
    BY Decoding, Dispatch DEF Doing
<1>2. PICK next \in UInt16, total \in Nat :
          /\ next = core.PC + len /\ total = core.cycles + n
          /\ Executed(0) = St(core.A, core.X, core.Y, core.SP, next, core.P, total, core.mem)
    BY Begins
<1>3. core.mem \in RAM /\ core = St(core.A, core.X, core.Y, core.SP, core.PC, core.P, core.cycles, core.mem)
    BY Parts DEF Doing
<1>4. Pulled(core) = v
    BY <1>3, PulledOff
<1>5. core' = PullByte(SetReg("A", v))
    BY <1>1, <1>4 DEF PullA, Done
<1>6. PICK p : p = SetZN(core.P, v)
    OBVIOUS
<1>7. SetReg("A", v) = St(v, core.X, core.Y, core.SP, next, p, total, core.mem)
    BY <1>2, <1>6, SetRegTo
<1>8. core' = St(v, core.X, core.Y, high, next, p, total, core.mem)
    BY <1>3, <1>5, <1>7, PulledOff
<1>. QED BY <1>2, <1>6, <1>8, Reaches

LEMMA PullPGoes ==
    ASSUME NEW mode, NEW arg, Doing("PLP", mode, arg), NEW len, NEW n, Takes("PLP", mode, len, n),
           NEW at \in Cells, NEW high, high = Higher(core.SP), at = 256 + high,
           NEW p, p = FlagsOf(core.mem[at])
    PROVE  Goes(core.A, core.X, core.Y, high, len, p, n, core.mem)
<1>1. inst.name = "PLP" /\ PullP
    BY Decoding, Dispatch DEF Doing
<1>2. PICK next \in UInt16, total \in Nat :
          /\ next = core.PC + len /\ total = core.cycles + n
          /\ Executed(0) = St(core.A, core.X, core.Y, core.SP, next, core.P, total, core.mem)
    BY Begins
<1>3. core.mem \in RAM /\ core = St(core.A, core.X, core.Y, core.SP, core.PC, core.P, core.cycles, core.mem)
    BY Parts DEF Doing
<1>4. FlagsOf(Pulled(core)) = p
    BY <1>3, PulledOff
<1>5. PICK e : e = PullByte(Executed(0))
    OBVIOUS
<1>6. e = St(core.A, core.X, core.Y, high, next, core.P, total, core.mem)
    BY <1>2, <1>3, <1>5, PulledOff
<1>7. core' = [e EXCEPT !.P = p]
    BY <1>1, <1>4, <1>5 DEF PullP, Done
<1>8. core' = St(core.A, core.X, core.Y, high, next, p, total, core.mem)
    BY <1>6, <1>7 DEF St
<1>. QED BY <1>2, <1>8, Reaches

LEMMA ReachesTo ==
    ASSUME NEW a, NEW x, NEW y, NEW sp, NEW next, NEW p, NEW total, NEW m,
           core' = St(a, x, y, sp, next, p, total, m), NEW n, total = core.cycles + n
    PROVE  GoesTo(a, x, y, sp, next, p, n, m)
BY DEF GoesTo, St

LEMMA JumpGoes ==
    ASSUME NEW mode, NEW arg, Doing("JMP", mode, arg), NEW len, NEW n, Takes("JMP", mode, len, n),
           NEW to, to = Address
    PROVE  GoesTo(core.A, core.X, core.Y, core.SP, to, core.P, n, core.mem)
<1>1. inst.name = "JMP" /\ Jump
    BY Decoding, Dispatch DEF Doing
<1>2. PICK next \in UInt16, total \in Nat :
          /\ next = core.PC + len /\ total = core.cycles + n
          /\ Executed(0) = St(core.A, core.X, core.Y, core.SP, next, core.P, total, core.mem)
    BY Begins
<1>3. PICK e : e = Executed(0)
    OBVIOUS
<1>4. core' = [e EXCEPT !.PC = to]
    BY <1>1, <1>3 DEF Jump, Done
<1>5. e = St(core.A, core.X, core.Y, core.SP, next, core.P, total, core.mem)
    BY <1>2, <1>3
<1>6. core' = St(core.A, core.X, core.Y, core.SP, to, core.P, total, core.mem)
    BY <1>4, <1>5 DEF St
<1>. QED BY <1>2, <1>6, ReachesTo

(* A branch costs two cycles, one more when it is taken and another when   *)
(* it leads to another page.                                               *)
LEMMA BranchGoes ==
    ASSUME NEW name \in DOMAIN Branches, NEW arg, Doing(name, "rel", arg),
           NEW taken \in BOOLEAN, taken = ((Branches[name][1] \in core.P) = Branches[name][2]),
           NEW to, to = (IF taken THEN Address ELSE core.PC + 2),
           NEW n, n = IF ~taken THEN 2 ELSE IF PageOf(core.PC + 2) # PageOf(to) THEN 4 ELSE 3
    PROVE  GoesTo(core.A, core.X, core.Y, core.SP, to, core.P, n, core.mem)
<1>1. inst.name = name /\ Branch /\ inst.next = core.PC + 2
    BY Decoding, Dispatch, Lengths DEF Doing
<1>2. PICK cost \in {0, 1, 2} : cost = BranchCost(taken)
    BY DEF BranchCost
<1>3. PICK next, total : next = core.PC + 2 /\ total = core.cycles + (2 + cost + 0)
    OBVIOUS
<1>4. Length("rel") = 2 /\ Cycles(name, "rel") = 2 /\ ~PageCycle(name, "rel")
  <2>1. name \notin DOMAIN OwnCycles /\ name # "JMP"
      BY DEF Branches, OwnCycles
  <2>2. Cycles(name, "rel") = 2
      BY <2>1, PlainCosts
  <2>. QED BY <2>2, Lengths DEF PageCycle
<1>5. Executed(cost) = St(core.A, core.X, core.Y, core.SP, next, core.P, total, core.mem)
  <2>1. PICK extra : extra = (IF PageCycle(name, "rel") /\ PageCrossed THEN 1 ELSE 0)
      OBVIOUS
  <2>2. extra = 0
      BY <1>4, <2>1
  <2>. QED BY <1>3, <1>4, <2>1, <2>2, ExecutedGoes
<1>6. PICK e : e = Executed(cost)
    OBVIOUS
<1>7. e = St(core.A, core.X, core.Y, core.SP, next, core.P, total, core.mem)
    BY <1>5, <1>6
<1>8. core' = [e EXCEPT !.PC = IF taken THEN Address ELSE @]
    BY <1>1, <1>2, <1>6 DEF Branch, Done
<1>9. e.PC = core.PC + 2
    BY <1>3, <1>7 DEF St
<1>10. core' = [e EXCEPT !.PC = to]
    BY <1>8, <1>9
<1>11. core' = St(core.A, core.X, core.Y, core.SP, to, core.P, total, core.mem)
    BY <1>7, <1>10 DEF St
<1>12. n = 2 + cost
    BY <1>1, <1>2 DEF BranchCost
<1>13. total = core.cycles + n
    BY <1>3, <1>12, Parts DEF Doing
<1>. QED BY <1>11, <1>13, ReachesTo

LEMMA WroteTyped ==
    ASSUME NEW m \in RAM, NEW at \in Cells, NEW v \in UInt8
    PROVE  Wrote(m, at, v) \in RAM
BY DEF Wrote, RAM

LEMMA WordPushed ==
    ASSUME NEW a, NEW x, NEW y, NEW sp, NEW next, NEW p, NEW total, NEW m \in RAM,
           NEW hi \in UInt8, NEW lo \in UInt8, NEW w, hi = w \div 256, lo = w % 256,
           NEW sp1, NEW sp2, sp1 = Lower(sp), sp2 = Lower(sp1),
           NEW at1 \in Cells, NEW at2 \in Cells, at1 = 256 + sp, at2 = 256 + sp1
    PROVE  PushWord(St(a, x, y, sp, next, p, total, m), w)
               = St(a, x, y, sp2, next, p, total, Wrote(Wrote(m, at1, hi), at2, lo))
<1>1. PICK m1 : m1 = Wrote(m, at1, hi)
    OBVIOUS
<1>2. m1 \in RAM
    BY <1>1, WroteTyped
<1>3. PushByte(St(a, x, y, sp, next, p, total, m), hi) = St(a, x, y, sp1, next, p, total, m1)
    BY <1>1, Pushed
<1>4. PushByte(St(a, x, y, sp1, next, p, total, m1), lo)
          = St(a, x, y, sp2, next, p, total, Wrote(m1, at2, lo))
    BY <1>2, Pushed
<1>. QED BY <1>1, <1>3, <1>4 DEF PushWord

LEMMA CallGoes ==
    ASSUME NEW mode, NEW arg, Doing("JSR", mode, arg), NEW len, NEW n, Takes("JSR", mode, len, n),
           NEW to, to = Address,
           NEW hi \in UInt8, NEW lo \in UInt8, NEW w, w = (core.PC + len + 65535) % 65536,
           hi = w \div 256, lo = w % 256,
           NEW sp1, NEW sp2, sp1 = Lower(core.SP), sp2 = Lower(sp1),
           NEW at1 \in Cells, NEW at2 \in Cells, at1 = 256 + core.SP, at2 = 256 + sp1
    PROVE  GoesTo(core.A, core.X, core.Y, sp2, to, core.P, n,
                  Wrote(Wrote(core.mem, at1, hi), at2, lo))
<1>1. inst.name = "JSR" /\ JumpSub /\ inst.next = core.PC + len
    BY Decoding, Dispatch DEF Doing, Takes
<1>2. PICK next \in UInt16, total \in Nat :
          /\ next = core.PC + len /\ total = core.cycles + n
          /\ Executed(0) = St(core.A, core.X, core.Y, core.SP, next, core.P, total, core.mem)
    BY Begins
<1>3. core.mem \in RAM
    BY Parts DEF Doing
<1>4. PICK m2 : m2 = Wrote(Wrote(core.mem, at1, hi), at2, lo)
    OBVIOUS
<1>5. PICK e : e = PushWord(Executed(0), w)
    OBVIOUS
<1>6. e = St(core.A, core.X, core.Y, sp2, next, core.P, total, m2)
    BY <1>2, <1>3, <1>4, <1>5, WordPushed
<1>7. core' = [e EXCEPT !.PC = to]
    BY <1>1, <1>5 DEF JumpSub, Done
<1>8. core' = St(core.A, core.X, core.Y, sp2, to, core.P, total, m2)
    BY <1>6, <1>7 DEF St
<1>. QED BY <1>2, <1>4, <1>8, ReachesTo

LEMMA PCPulled ==
    ASSUME NEW a, NEW x, NEW y, NEW sp, NEW next, NEW p, NEW total, NEW m \in RAM,
           NEW sp1, NEW sp2, sp1 = Higher(sp), sp2 = Higher(sp1),
           NEW at1 \in Cells, NEW at2 \in Cells, at1 = 256 + sp1, at2 = 256 + sp2,
           NEW plus, NEW to, to = (Word(m[at1], m[at2]) + plus) % 65536
    PROVE  PulledPC(St(a, x, y, sp, next, p, total, m), plus) = St(a, x, y, sp2, to, p, total, m)
<1>1. PICK s, s1, s2 : /\ s = St(a, x, y, sp, next, p, total, m)
                      /\ s1 = St(a, x, y, sp1, next, p, total, m)
                      /\ s2 = St(a, x, y, sp2, next, p, total, m)
    OBVIOUS
<1>2. PullByte(s) = s1 /\ Pulled(s) = m[at1]
    BY <1>1, PulledOff
<1>3. PullByte(s1) = s2 /\ Pulled(s1) = m[at2]
    BY <1>1, PulledOff
<1>4. PulledPC(s, plus) = [s2 EXCEPT !.PC = to]
    BY <1>2, <1>3 DEF PulledPC
<1>5. PulledPC(s, plus) = St(a, x, y, sp2, to, p, total, m)
    BY <1>1, <1>4 DEF St
<1>. QED BY <1>1, <1>5

LEMMA ReturnGoes ==
    ASSUME NEW mode, NEW arg, Doing("RTS", mode, arg), NEW len, NEW n, Takes("RTS", mode, len, n),
           NEW sp1, NEW sp2, sp1 = Higher(core.SP), sp2 = Higher(sp1),
           NEW at1 \in Cells, NEW at2 \in Cells, at1 = 256 + sp1, at2 = 256 + sp2,
           NEW to, to = (Word(core.mem[at1], core.mem[at2]) + 1) % 65536
    PROVE  GoesTo(core.A, core.X, core.Y, sp2, to, core.P, n, core.mem)
<1>1. inst.name = "RTS" /\ ReturnSub
    BY Decoding, Dispatch DEF Doing
<1>2. PICK next \in UInt16, total \in Nat :
          /\ next = core.PC + len /\ total = core.cycles + n
          /\ Executed(0) = St(core.A, core.X, core.Y, core.SP, next, core.P, total, core.mem)
    BY Begins
<1>3. core.mem \in RAM
    BY Parts DEF Doing
<1>4. core' = PulledPC(St(core.A, core.X, core.Y, core.SP, next, core.P, total, core.mem), 1)
    BY <1>1, <1>2 DEF ReturnSub, Done
<1>5. core' = St(core.A, core.X, core.Y, sp2, to, core.P, total, core.mem)
    BY <1>3, <1>4, PCPulled
<1>. QED BY <1>2, <1>5, ReachesTo

LEMMA InterruptReturnGoes ==
    ASSUME NEW mode, NEW arg, Doing("RTI", mode, arg), NEW len, NEW n, Takes("RTI", mode, len, n),
           NEW sp0, NEW sp1, NEW sp2, NEW at0, NEW at1, NEW at2,
           PullAt(core.SP, at0, sp0), PullAt(sp0, at1, sp1), PullAt(sp1, at2, sp2),
           NEW p, p = FlagsOf(core.mem[at0]), NEW to, Pointed(core.mem, at1, at2, 0, to)
    PROVE  GoesTo(core.A, core.X, core.Y, sp2, to, p, n, core.mem)
<1>1. inst.name = "RTI" /\ ReturnInt
    BY Decoding, Dispatch DEF Doing
<1>2. PICK next \in UInt16, total \in Nat :
          /\ next = core.PC + len /\ total = core.cycles + n
          /\ Executed(0) = St(core.A, core.X, core.Y, core.SP, next, core.P, total, core.mem)
    BY Begins
<1>3. core.mem \in RAM /\ core = St(core.A, core.X, core.Y, core.SP, core.PC, core.P, core.cycles, core.mem)
    BY Parts DEF Doing
<1>4. FlagsOf(Pulled(core)) = p
    BY <1>3, PulledOff DEF PullAt
<1>5. PICK e : e = PullByte(Executed(0))
    BY Zenon
<1>6. e = St(core.A, core.X, core.Y, sp0, next, core.P, total, core.mem)
    BY <1>2, <1>3, <1>5, PulledOff DEF PullAt
<1>7. PICK f : f = [e EXCEPT !.P = p]
    BY Zenon
<1>8. f = St(core.A, core.X, core.Y, sp0, next, p, total, core.mem)
    BY <1>6, <1>7 DEF St
<1>9. core' = PulledPC(f, 0)
    BY <1>1, <1>4, <1>5, <1>7 DEF ReturnInt, Done
<1>10. PulledPC(St(core.A, core.X, core.Y, sp0, next, p, total, core.mem), 0)
           = St(core.A, core.X, core.Y, sp2, to, p, total, core.mem)
    BY <1>3, PCPulled DEF PullAt, Pointed
<1>11. core' = St(core.A, core.X, core.Y, sp2, to, p, total, core.mem)
    BY <1>8, <1>9, <1>10
<1>. QED BY <1>2, <1>11, ReachesTo

Halves(w, hi, lo) == hi \in UInt8 /\ lo \in UInt8 /\ hi = w \div 256 /\ lo = w % 256

(* What handleInterrupt pushes. *)
Frame3(m, at1, at2, at3, hi, lo, f) == Wrote(Wrote(Wrote(m, at1, hi), at2, lo), at3, f)
Status(p, brk, f) == f \in UInt8 /\ f = FlagByte8(p, brk)

LEMMA Entered ==
    ASSUME NEW a, NEW x, NEW y, NEW sp, NEW at, NEW p, NEW total,
           NEW m \in RAM, NEW entry, NEW brk,
           NEW sp1, NEW sp2, NEW sp3, NEW at1, NEW at2, NEW at3,
           PushAt(sp, at1, sp1), PushAt(sp1, at2, sp2), PushAt(sp2, at3, sp3),
           NEW hi, NEW lo, Halves(at, hi, lo), NEW f, Status(p, brk, f), NEW q, q = p \cup {"I"}
    PROVE  Interrupted(St(a, x, y, sp, at, p, total, m), entry, brk)
               = St(a, x, y, sp3, entry, q, total, Frame3(m, at1, at2, at3, hi, lo, f))
<1>1. PICK m2, m3 : m2 = Wrote(Wrote(m, at1, hi), at2, lo) /\ m3 = Wrote(m2, at3, f)
    BY Zenon
<1>2. m2 \in RAM
  <2>1. Wrote(m, at1, hi) \in RAM
      BY WroteTyped DEF PushAt, Halves
  <2>. QED BY <1>1, <2>1, WroteTyped DEF PushAt, Halves
<1>3. PICK s : s = St(a, x, y, sp, at, p, total, m)
    BY Zenon
<1>4. s.PC = at /\ s.P = p
    BY <1>3 DEF St
<1>5. PushWord(s, at) = St(a, x, y, sp2, at, p, total, m2)
    BY <1>1, <1>3, WordPushed DEF PushAt, Halves
<1>6. PICK t : t = PushByte(PushWord(s, s.PC), f)
    BY Zenon
<1>7. t = PushByte(St(a, x, y, sp2, at, p, total, m2), f)
    BY <1>4, <1>5, <1>6
<1>8. t = St(a, x, y, sp3, at, p, total, m3)
    BY <1>1, <1>2, <1>7, Pushed DEF PushAt
<1>9. Interrupted(s, entry, brk) = [t EXCEPT !.P = @ \cup {"I"}, !.PC = entry]
    BY <1>4, <1>6 DEF Interrupted, Status
<1>10. t.P = p
    BY <1>8 DEF St
<1>11. PICK u : u = [t EXCEPT !.P = q]
    BY Zenon
<1>12. Interrupted(s, entry, brk) = [u EXCEPT !.PC = entry]
    BY <1>9, <1>10, <1>11
<1>13. u = St(a, x, y, sp3, at, q, total, m3)
    BY <1>8, <1>11 DEF St
<1>14. Interrupted(s, entry, brk) = St(a, x, y, sp3, entry, q, total, m3)
    BY <1>12, <1>13 DEF St
<1>. QED BY <1>1, <1>3, <1>14 DEF Frame3

(* BRK's return address. *)
Behind(len, at) == at = (core.PC + len + 1) % 65536
Skipping(s) == [s EXCEPT !.PC = (@ + 1) % 65536]

LEMMA BreakGoes ==
    ASSUME NEW mode, NEW arg, Doing("BRK", mode, arg), NEW len, NEW n, Takes("BRK", mode, len, n),
           NEW sp1, NEW sp2, NEW sp3, NEW at1, NEW at2, NEW at3,
           PushAt(core.SP, at1, sp1), PushAt(sp1, at2, sp2), PushAt(sp2, at3, sp3),
           NEW at, Behind(len, at), NEW hi, NEW lo, Halves(at, hi, lo),
           NEW f, Status(core.P, TRUE, f), NEW q, q = core.P \cup {"I"}
    PROVE  GoesTo(core.A, core.X, core.Y, sp3, IrqEntry, q, n,
                  Frame3(core.mem, at1, at2, at3, hi, lo, f))
<1>1. inst.name = "BRK" /\ BreakIn
    BY Decoding, Dispatch DEF Doing
<1>2. PICK next \in UInt16, total \in Nat :
          /\ next = core.PC + len /\ total = core.cycles + n
          /\ Executed(0) = St(core.A, core.X, core.Y, core.SP, next, core.P, total, core.mem)
    BY Begins
<1>3. core.mem \in RAM
    BY Parts DEF Doing
<1>4. PICK e : e = Executed(0)
    BY Zenon
<1>5. e = St(core.A, core.X, core.Y, core.SP, next, core.P, total, core.mem)
    BY <1>2, <1>4
<1>6. e.PC = core.PC + len
    BY <1>2, <1>5 DEF St
<1>7. PICK g : g = [e EXCEPT !.PC = at]
    BY Zenon
<1>8. core' = Interrupted(g, IrqEntry, TRUE)
  <2>1. core' = Interrupted(Skipping(Executed(0)), IrqEntry, TRUE)
      BY <1>1 DEF BreakIn, Done, Skipping
  <2>2. (e.PC + 1) % 65536 = at
      BY <1>6 DEF Behind
  <2>3. Skipping(e) = g
      BY <1>7, <2>2 DEF Skipping
  <2>. QED BY <1>4, <2>1, <2>3
<1>9. g = St(core.A, core.X, core.Y, core.SP, at, core.P, total, core.mem)
    BY <1>5, <1>7 DEF St
<1>10. PICK m : m = Frame3(core.mem, at1, at2, at3, hi, lo, f)
    BY Zenon
<1>11. Interrupted(St(core.A, core.X, core.Y, core.SP, at, core.P, total, core.mem), IrqEntry, TRUE)
           = St(core.A, core.X, core.Y, sp3, IrqEntry, q, total, m)
  <2>1. PICK brk : brk = TRUE
      OBVIOUS
  <2>2. Status(core.P, brk, f)
      BY <2>1
  <2>3. Interrupted(St(core.A, core.X, core.Y, core.SP, at, core.P, total, core.mem), IrqEntry, brk)
           = St(core.A, core.X, core.Y, sp3, IrqEntry, q, total, m)
      BY <1>3, <1>10, <2>2, Entered
  <2>. QED BY <2>1, <2>3
<1>12. core' = St(core.A, core.X, core.Y, sp3, IrqEntry, q, total, m)
    BY <1>8, <1>9, <1>11
<1>. QED BY <1>2, <1>10, <1>12, ReachesTo

LEMMA ServeGoes ==
    ASSUME core \in CoreState, ServeNMI,
           NEW sp1, NEW sp2, NEW sp3, NEW at1, NEW at2, NEW at3,
           PushAt(core.SP, at1, sp1), PushAt(sp1, at2, sp2), PushAt(sp2, at3, sp3),
           NEW hi, NEW lo, Halves(core.PC, hi, lo), NEW f, Status(core.P, FALSE, f),
           NEW q, q = core.P \cup {"I"}
    PROVE  GoesTo(core.A, core.X, core.Y, sp3, NmiEntry, q, 7,
                  Frame3(core.mem, at1, at2, at3, hi, lo, f))
<1>1. PICK m : m = Frame3(core.mem, at1, at2, at3, hi, lo, f)
    BY Zenon
<1>2. PICK e : e = Interrupted(core, NmiEntry, FALSE)
    BY Zenon
<1>3. /\ core.mem \in RAM
      /\ core = St(core.A, core.X, core.Y, core.SP, core.PC, core.P, core.cycles, core.mem)
    BY Parts
<1>4. Interrupted(St(core.A, core.X, core.Y, core.SP, core.PC, core.P, core.cycles, core.mem),
                  NmiEntry, FALSE)
          = St(core.A, core.X, core.Y, sp3, NmiEntry, q, core.cycles, m)
  <2>1. PICK brk : brk = FALSE
      OBVIOUS
  <2>2. Status(core.P, brk, f)
      BY <2>1
  <2>3. Interrupted(St(core.A, core.X, core.Y, core.SP, core.PC, core.P, core.cycles, core.mem),
                    NmiEntry, brk)
          = St(core.A, core.X, core.Y, sp3, NmiEntry, q, core.cycles, m)
      BY <1>1, <1>3, <2>2, Entered
  <2>. QED BY <2>1, <2>3
<1>5. e = St(core.A, core.X, core.Y, sp3, NmiEntry, q, core.cycles, m)
    BY <1>2, <1>3, <1>4
<1>6. core' = [e EXCEPT !.cycles = @ + 7]
    BY <1>2 DEF ServeNMI, Done
<1>7. e.cycles = core.cycles
    BY <1>5 DEF St
<1>8. PICK total : total = core.cycles + 7
    BY Zenon
<1>9. core' = [e EXCEPT !.cycles = total]
    BY <1>6, <1>7, <1>8
<1>10. core' = St(core.A, core.X, core.Y, sp3, NmiEntry, q, total, m)
    BY <1>5, <1>9 DEF St
<1>. QED BY <1>1, <1>8, <1>10, ReachesTo

----------------------------------------------------------------------------
(* Lengths, costs and operands in each addressing mode. *)
LEMMA PlainTakes ==
    ASSUME NEW name, name \notin DOMAIN OwnCycles, name # "JMP"
    PROVE  /\ Takes(name, "imp", 1, 2) /\ Takes(name, "acc", 1, 2) /\ Takes(name, "imm", 2, 2)
           /\ name \notin Modifies =>
                  /\ Takes(name, "zp", 2, 3) /\ Takes(name, "zpx", 2, 4) /\ Takes(name, "abs", 3, 4)
                  /\ Takes(name, "indx", 2, 6)
           /\ name \in Modifies =>
                  /\ Takes(name, "zp", 2, 5) /\ Takes(name, "zpx", 2, 6) /\ Takes(name, "abs", 3, 6)
<1>1. \A mode \in {"imp", "acc", "imm", "zp", "zpx", "abs", "indx"} : ~PageCycle(name, mode)
    BY DEF PageCycle
<1>2. ASSUME NEW mode, ~PageCycle(name, mode), NEW n, n = Cycles(name, mode), n \in Nat
      PROVE  Takes(name, mode, Length(mode), n)
    BY <1>2 DEF Takes
<1>3. \A mode \in {"imp", "acc", "imm"} : Cycles(name, mode) = 2
    BY PlainCosts
<1>4. Takes(name, "imp", 1, 2) /\ Takes(name, "acc", 1, 2) /\ Takes(name, "imm", 2, 2)
    BY <1>1, <1>2, <1>3, Lengths
<1>5. ASSUME name \notin Modifies
      PROVE  /\ Takes(name, "zp", 2, 3) /\ Takes(name, "zpx", 2, 4) /\ Takes(name, "abs", 3, 4)
             /\ Takes(name, "indx", 2, 6)
  <2>1. /\ Cycles(name, "zp") = 3 /\ Cycles(name, "zpx") = 4 /\ Cycles(name, "abs") = 4
        /\ Cycles(name, "indx") = 6
      BY <1>5, PlainCosts
  <2>. QED BY <1>1, <1>2, <2>1, Lengths
<1>6. ASSUME name \in Modifies
      PROVE  /\ Takes(name, "zp", 2, 5) /\ Takes(name, "zpx", 2, 6) /\ Takes(name, "abs", 3, 6)
  <2>1. Cycles(name, "zp") = 5 /\ Cycles(name, "zpx") = 6 /\ Cycles(name, "abs") = 6
      BY <1>6, PlainCosts
  <2>. QED BY <1>1, <1>2, <2>1, Lengths
<1>. QED BY <1>4, <1>5, <1>6

LEMMA OwnTakes ==
    /\ Takes("BRK", "imp", 1, 7) /\ Takes("JSR", "abs", 3, 6)
    /\ Takes("RTS", "imp", 1, 6) /\ Takes("RTI", "imp", 1, 6)
    /\ Takes("PLA", "imp", 1, 4) /\ Takes("PLP", "imp", 1, 4)
    /\ Takes("PHA", "imp", 1, 3) /\ Takes("PHP", "imp", 1, 3)
    /\ Takes("JMP", "abs", 3, 3) /\ Takes("JMP", "ind", 3, 5)
    /\ Takes("STA", "absy", 3, 5)
<1>1. \A name : \A mode \in {"imp", "abs", "ind"} : ~PageCycle(name, mode)
    BY DEF PageCycle
<1>2. ~PageCycle("STA", "absy")
    BY DEF PageCycle, Reads
<1>3. ASSUME NEW name, NEW mode, ~PageCycle(name, mode), NEW n, n = Cycles(name, mode), n \in Nat
      PROVE  Takes(name, mode, Length(mode), n)
    BY <1>3 DEF Takes
<1>4. \A name, n : /\ Cycles(name, "imp") = n /\ n \in Nat => Takes(name, "imp", 1, n)
                   /\ Cycles(name, "abs") = n /\ n \in Nat => Takes(name, "abs", 3, n)
                   /\ Cycles(name, "ind") = n /\ n \in Nat => Takes(name, "ind", 3, n)
    BY <1>1, <1>3, Lengths
<1>5. Takes("STA", "absy", 3, 5)
    BY <1>2, <1>3, IndexedCosts, Lengths
<1>. QED BY <1>4, <1>5, OwnCosts

LEMMA OperandAt ==
    ASSUME NEW name, NEW mode, NEW arg, Doing(name, mode, arg)
    PROVE  /\ mode = "imm" => Value = arg
           /\ mode \in {"zp", "abs"} => Address = arg
           /\ mode = "zpx" => Address = (arg + core.X) % 256
           /\ mode = "absy" => Address = (arg + core.Y) % 65536
           /\ mode = "ind" => Address = ReadBug16(arg)
           /\ mode = "indx" => Address = ZeroPageWord((arg + core.X) % 256)
           /\ mode = "rel" =>
                  Address = ((core.PC + 2) + (IF arg < 128 THEN arg ELSE arg - 256)) % 65536
           /\ mode # "imm" /\ Address \in Cells => Value = core.mem[Address]
<1>1. inst.mode = mode /\ inst.arg = arg
    BY Decoding
<1>2. mode = "imm" => Value = arg
    BY <1>1 DEF Value
<1>3. mode \in {"zp", "abs"} => Address = arg
    BY <1>1 DEF Address
<1>4. mode = "zpx" => Address = (arg + core.X) % 256
    BY <1>1 DEF Address
<1>5. mode = "absy" => Address = (arg + core.Y) % 65536
    BY <1>1 DEF Address, Base
<1>6. mode = "ind" => Address = ReadBug16(arg)
    BY <1>1 DEF Address
<1>7. mode = "indx" => Address = ZeroPageWord((arg + core.X) % 256)
    BY <1>1 DEF Address
<1>8. mode = "rel" =>
          Address = ((core.PC + 2) + (IF arg < 128 THEN arg ELSE arg - 256)) % 65536
  <2>1. mode = "rel" => inst.next = core.PC + 2
      BY Decoding, Lengths
  <2>. QED BY <1>1, <2>1 DEF Address
<1>9. mode # "imm" /\ Address \in Cells => Value = core.mem[Address]
  <2>1. DOMAIN core.mem = Cells
      BY Parts DEF Doing, RAM
  <2>. QED BY <1>1, <2>1 DEF Value, Peek
<1>. QED BY <1>2, <1>3, <1>4, <1>5, <1>6, <1>7, <1>8, <1>9

----------------------------------------------------------------------------
(* The instructions of the programs, each with its operand and its cost.   *)
LEMMA LoadImm ==
    ASSUME NEW name \in DOMAIN Loads, NEW arg, Doing(name, "imm", arg)
    PROVE  /\ name = "LDA" => Goes(arg, core.X, core.Y, core.SP, 2, SetZN(core.P, arg), 2, core.mem)
           /\ name = "LDX" => Goes(core.A, arg, core.Y, core.SP, 2, SetZN(core.P, arg), 2, core.mem)
           /\ name = "LDY" => Goes(core.A, core.X, arg, core.SP, 2, SetZN(core.P, arg), 2, core.mem)
<1>1. name \notin DOMAIN OwnCycles /\ name # "JMP"
    BY DEF Loads, OwnCycles
<1>2. Takes(name, "imm", 2, 2)
    BY <1>1, PlainTakes
<1>. QED BY <1>2, OperandAt, LoadGoes

LEMMA LoadZp ==
    ASSUME NEW name \in DOMAIN Loads, NEW arg \in Cells, Doing(name, "zp", arg),
           NEW v, v = core.mem[arg]
    PROVE  /\ name = "LDA" => Goes(v, core.X, core.Y, core.SP, 2, SetZN(core.P, v), 3, core.mem)
           /\ name = "LDX" => Goes(core.A, v, core.Y, core.SP, 2, SetZN(core.P, v), 3, core.mem)
<1>1. name \notin DOMAIN OwnCycles /\ name # "JMP" /\ name \notin Modifies
    BY DEF Loads, OwnCycles, Modifies, Shifts
<1>2. Takes(name, "zp", 2, 3)
    BY <1>1, PlainTakes
<1>3. v = Value
    BY OperandAt
<1>. QED BY <1>2, <1>3, LoadGoes

LEMMA Plain ==
    /\ \A name \in {"LDA", "LDX", "LDY", "STA", "STX", "STY", "ADC", "SBC", "CMP", "CPY", "AND"} :
           name \notin DOMAIN OwnCycles /\ name # "JMP" /\ name \notin Modifies
    /\ \A name \in {"ORA", "EOR", "BIT", "INX", "INY", "DEX", "TAX", "TAY", "TXA", "TYA"} :
           name \notin DOMAIN OwnCycles /\ name # "JMP" /\ name \notin Modifies
    /\ \A name \in {"TSX", "TXS", "NOP", "CLC", "SEC", "CLI", "SEI", "CLV", "CLD", "SED"} :
           name \notin DOMAIN OwnCycles /\ name # "JMP" /\ name \notin Modifies
    /\ \A name \in Modifies : name \notin DOMAIN OwnCycles /\ name # "JMP"
<1>1. \A name \in {"LDA", "LDX", "LDY", "STA", "STX", "STY", "ADC", "SBC", "CMP", "CPY", "AND"} :
           name \notin DOMAIN OwnCycles /\ name # "JMP" /\ name \notin Modifies
    BY DEF OwnCycles, Modifies, Shifts
<1>2. \A name \in {"ORA", "EOR", "BIT", "INX", "INY", "DEX", "TAX", "TAY", "TXA", "TYA"} :
           name \notin DOMAIN OwnCycles /\ name # "JMP" /\ name \notin Modifies
    BY DEF OwnCycles, Modifies, Shifts
<1>3. \A name \in {"TSX", "TXS", "NOP", "CLC", "SEC", "CLI", "SEI", "CLV", "CLD", "SED"} :
           name \notin DOMAIN OwnCycles /\ name # "JMP" /\ name \notin Modifies
    BY DEF OwnCycles, Modifies, Shifts
<1>4. \A name \in Modifies : name \notin DOMAIN OwnCycles /\ name # "JMP"
    BY DEF OwnCycles, Modifies, Shifts
<1>. QED BY <1>1, <1>2, <1>3, <1>4

LEMMA LoadZpx ==
    ASSUME NEW arg, Doing("LDA", "zpx", arg), NEW at \in Cells, at = (arg + core.X) % 256,
           NEW v, v = core.mem[at]
    PROVE  Goes(v, core.X, core.Y, core.SP, 2, SetZN(core.P, v), 4, core.mem)
<1>1. Takes("LDA", "zpx", 2, 4)
    BY Plain, PlainTakes
<1>2. v = Value
    BY OperandAt
<1>3. "LDA" \in DOMAIN Loads
    BY DEF Loads
<1>. QED BY <1>1, <1>2, <1>3, LoadGoes

LEMMA LoadIndexed ==
    ASSUME NEW arg, Doing("LDA", "indx", arg), NEW z \in Cells, NEW z1 \in Cells,
           z = (arg + core.X) % 256, z1 = (z + 1) % 256,
           NEW at \in Cells, at = Word(core.mem[z], core.mem[z1]), NEW v, v = core.mem[at]
    PROVE  Goes(v, core.X, core.Y, core.SP, 2, SetZN(core.P, v), 6, core.mem)
<1>1. Takes("LDA", "indx", 2, 6)
    BY Plain, PlainTakes
<1>2. DOMAIN core.mem = Cells
    BY Parts DEF Doing, RAM
<1>3. Address = ZeroPageWord(z)
    BY OperandAt
<1>4. Address = at
    BY <1>2, <1>3 DEF ZeroPageWord, Peek
<1>5. v = Value
  <2>1. Address \in Cells
      BY <1>4
  <2>2. Value = core.mem[Address]
      BY <2>1, OperandAt
  <2>. QED BY <1>4, <2>2
<1>6. "LDA" \in DOMAIN Loads
    BY DEF Loads
<1>. QED BY <1>1, <1>5, <1>6, LoadGoes

LEMMA LoadThrough ==
    ASSUME NEW arg \in Cells, Doing("LDA", "indy", arg), NEW z1 \in Cells, z1 = (arg + 1) % 256,
           NEW base, base = Word(core.mem[arg], core.mem[z1]),
           NEW at \in Cells, at = (base + core.Y) % 65536, NEW v, v = core.mem[at],
           NEW n, n = IF PageOf(base) # PageOf(at) THEN 6 ELSE 5
    PROVE  Goes(v, core.X, core.Y, core.SP, 2, SetZN(core.P, v), n, core.mem)
<1>1. DOMAIN core.mem = Cells
    BY Parts DEF Doing, RAM
<1>2. inst.mode = "indy" /\ inst.arg = arg
    BY Decoding
<1>3. Base = base
    BY <1>1, <1>2 DEF Base, ZeroPageWord, Peek
<1>4. Address = at
    BY <1>2, <1>3 DEF Address
<1>5. v = Value
    BY <1>4, OperandAt
<1>6. PageCrossed <=> PageOf(base) # PageOf(at)
    BY <1>2, <1>3, <1>4 DEF PageCrossed
<1>7. PageCycle("LDA", "indy")
    BY DEF PageCycle, Reads
<1>8. Takes("LDA", "indy", 2, n)
    BY <1>6, <1>7, IndexedCosts, Lengths DEF Takes
<1>9. "LDA" \in DOMAIN Loads
    BY DEF Loads
<1>. QED BY <1>5, <1>8, <1>9, LoadGoes

LEMMA StoreZp ==
    ASSUME NEW name \in DOMAIN Stores, NEW arg \in Cells, Doing(name, "zp", arg),
           NEW v, v = core[Stores[name]]
    PROVE  Goes(core.A, core.X, core.Y, core.SP, 2, core.P, 3, Wrote(core.mem, arg, v))
<1>1. name \in {"STA", "STX", "STY"}
    BY DEF Stores
<1>2. Takes(name, "zp", 2, 3)
    BY <1>1, Plain, PlainTakes
<1>. QED BY <1>2, OperandAt, StoreGoes

LEMMA StoreIndexed ==
    ASSUME NEW mode, NEW arg, Doing("STA", mode, arg), NEW at \in Cells, NEW len, NEW n,
           \/ mode = "zpx" /\ at = (arg + core.X) % 256 /\ len = 2 /\ n = 4
           \/ mode = "absy" /\ at = (arg + core.Y) % 65536 /\ len = 3 /\ n = 5
    PROVE  Goes(core.A, core.X, core.Y, core.SP, len, core.P, n, Wrote(core.mem, at, core.A))
<1>1. Takes("STA", "zpx", 2, 4) /\ Takes("STA", "absy", 3, 5)
    BY Plain, PlainTakes, OwnTakes
<1>2. at = Address
    BY OperandAt
<1>3. "STA" \in DOMAIN Stores /\ core[Stores["STA"]] = core.A
    BY DEF Stores
<1>. QED BY <1>1, <1>2, <1>3, StoreGoes

(* What an instruction reads: an operand, or a byte of memory. *)
Reads8(mode, arg, v, len, n) ==
    \/ mode = "imm" /\ v = arg /\ len = 2 /\ n = 2
    \/ mode = "zp" /\ arg \in Cells /\ v = core.mem[arg] /\ len = 2 /\ n = 3
    \/ /\ mode = "zpx" /\ (arg + core.X) % 256 \in Cells /\ v = core.mem[(arg + core.X) % 256]
       /\ len = 2 /\ n = 4
    \/ mode = "abs" /\ arg \in Cells /\ v = core.mem[arg] /\ len = 3 /\ n = 4

LEMMA Reading8 ==
    ASSUME NEW name, NEW mode, NEW arg, Doing(name, mode, arg),
           name \in {"ADC", "SBC", "CMP", "CPY", "AND", "ORA", "EOR", "BIT"},
           NEW v, NEW len, NEW n, Reads8(mode, arg, v, len, n)
    PROVE  v = Value /\ Takes(name, mode, len, n)
<1>1. name \notin DOMAIN OwnCycles /\ name # "JMP" /\ name \notin Modifies
    BY Plain
<1>2. v = Value
    BY OperandAt DEF Reads8
<1>3. Takes(name, mode, len, n)
    BY <1>1, PlainTakes DEF Reads8
<1>. QED BY <1>2, <1>3

LEMMA SumDoes ==
    ASSUME NEW name \in {"ADC", "SBC"}, NEW mode, NEW arg, Doing(name, mode, arg),
           NEW v, NEW len, NEW n, Reads8(mode, arg, v, len, n), NEW r,
           \/ name = "ADC" /\ r = Adc(core.A, v, core.P)
           \/ name = "SBC" /\ r = Sbc(core.A, v, core.P)
    PROVE  Goes(r.a, core.X, core.Y, core.SP, len, r.p, n, core.mem)
<1>1. v = Value /\ Takes(name, mode, len, n)
    BY Reading8
<1>. QED BY <1>1, SumGoes

LEMMA CompareDoes ==
    ASSUME NEW name \in {"CMP", "CPY"}, NEW mode, NEW arg, Doing(name, mode, arg),
           NEW v, NEW len, NEW n, Reads8(mode, arg, v, len, n), NEW p,
           \/ name = "CMP" /\ p = Compare(core.A, v, core.P)
           \/ name = "CPY" /\ p = Compare(core.Y, v, core.P)
    PROVE  Goes(core.A, core.X, core.Y, core.SP, len, p, n, core.mem)
<1>1. v = Value /\ Takes(name, mode, len, n)
    BY Reading8
<1>2. name \in DOMAIN Compares /\ p = Compare(core[Compares[name]], v, core.P)
    BY DEF Compares
<1>. QED BY <1>1, <1>2, CompareGoes

LEMMA LogicDoes ==
    ASSUME NEW name \in {"AND", "ORA", "EOR"}, NEW mode, NEW arg, Doing(name, mode, arg),
           NEW v, NEW len, NEW n, Reads8(mode, arg, v, len, n), NEW r,
           \/ name = "AND" /\ r = And(core.A, v)
           \/ name = "ORA" /\ r = Or(core.A, v)
           \/ name = "EOR" /\ r = Xor(core.A, v)
    PROVE  Goes(r, core.X, core.Y, core.SP, len, SetZN(core.P, r), n, core.mem)
<1>1. v = Value /\ Takes(name, mode, len, n)
    BY Reading8
<1>. QED BY <1>1, LogicGoes

LEMMA BitDoes ==
    ASSUME NEW mode, NEW arg, Doing("BIT", mode, arg),
           NEW v, NEW len, NEW n, Reads8(mode, arg, v, len, n), NEW p,
           p = SetFlag(SetFlag(SetFlag(core.P, "Z", And(core.A, v) = 0), "V", HasBit(v, 64)),
                       "N", Bit7(v))
    PROVE  Goes(core.A, core.X, core.Y, core.SP, len, p, n, core.mem)
<1>1. v = Value /\ Takes("BIT", mode, len, n)
    BY Reading8
<1>. QED BY <1>1, BitGoes

LEMMA CountDoes ==
    ASSUME NEW name \in {"INX", "DEX", "INY"}, NEW arg, Doing(name, "imp", arg), NEW v
    PROVE  /\ name = "INX" /\ v = (core.X + 1) % 256 =>
                  Goes(core.A, v, core.Y, core.SP, 1, SetZN(core.P, v), 2, core.mem)
           /\ name = "DEX" /\ v = (core.X + 255) % 256 =>
                  Goes(core.A, v, core.Y, core.SP, 1, SetZN(core.P, v), 2, core.mem)
           /\ name = "INY" /\ v = (core.Y + 1) % 256 =>
                  Goes(core.A, core.X, v, core.SP, 1, SetZN(core.P, v), 2, core.mem)
<1>1. name \in DOMAIN Counts
    BY DEF Counts
<1>2. Takes(name, "imp", 1, 2)
    BY Plain, PlainTakes
<1>. QED BY <1>1, <1>2, CountGoes

LEMMA MoveDoes ==
    ASSUME NEW name \in {"TAX", "TAY", "TXA", "TYA", "TSX"}, NEW arg, Doing(name, "imp", arg)
    PROVE  /\ name = "TAX" =>
                  Goes(core.A, core.A, core.Y, core.SP, 1, SetZN(core.P, core.A), 2, core.mem)
           /\ name = "TAY" =>
                  Goes(core.A, core.X, core.A, core.SP, 1, SetZN(core.P, core.A), 2, core.mem)
           /\ name = "TXA" =>
                  Goes(core.X, core.X, core.Y, core.SP, 1, SetZN(core.P, core.X), 2, core.mem)
           /\ name = "TYA" =>
                  Goes(core.Y, core.X, core.Y, core.SP, 1, SetZN(core.P, core.Y), 2, core.mem)
           /\ name = "TSX" =>
                  Goes(core.A, core.SP, core.Y, core.SP, 1, SetZN(core.P, core.SP), 2, core.mem)
<1>1. name \in DOMAIN Moves
    BY DEF Moves
<1>2. Takes(name, "imp", 1, 2)
    BY Plain, PlainTakes
<1>. QED BY <1>1, <1>2, MoveGoes

LEMMA FlagDoes ==
    ASSUME NEW name, NEW arg, Doing(name, "imp", arg), NEW p,
           \/ name = "CLC" /\ p = core.P \ {"C"}
           \/ name = "SEC" /\ p = core.P \cup {"C"}
           \/ name = "CLI" /\ p = core.P \ {"I"}
           \/ name = "SEI" /\ p = core.P \cup {"I"}
           \/ name = "CLV" /\ p = core.P \ {"V"}
           \/ name = "CLD" /\ p = core.P \ {"D"}
           \/ name = "SED" /\ p = core.P \cup {"D"}
    PROVE  Goes(core.A, core.X, core.Y, core.SP, 1, p, 2, core.mem)
<1>1. name \in DOMAIN FlagOps
    BY DEF FlagOps
<1>2. /\ FlagOps["CLC"][1] = "C" /\ FlagOps["CLC"][2] = FALSE
      /\ FlagOps["SEC"][1] = "C" /\ FlagOps["SEC"][2] = TRUE
      /\ FlagOps["CLI"][1] = "I" /\ FlagOps["CLI"][2] = FALSE
      /\ FlagOps["SEI"][1] = "I" /\ FlagOps["SEI"][2] = TRUE
      /\ FlagOps["CLV"][1] = "V" /\ FlagOps["CLV"][2] = FALSE
      /\ FlagOps["CLD"][1] = "D" /\ FlagOps["CLD"][2] = FALSE
      /\ FlagOps["SED"][1] = "D" /\ FlagOps["SED"][2] = TRUE
    BY DEF FlagOps
<1>3. p = SetFlag(core.P, FlagOps[name][1], FlagOps[name][2])
    BY <1>2 DEF SetFlag
<1>4. Takes(name, "imp", 1, 2)
    BY Plain, PlainTakes
<1>. QED BY <1>1, <1>3, <1>4, FlagOpGoes

LEMMA ModifyDoes ==
    ASSUME NEW name \in Modifies, NEW mode, NEW arg, Doing(name, mode, arg),
           NEW at \in Cells, NEW len, NEW n,
           \/ mode = "zp" /\ at = arg /\ len = 2 /\ n = 5
           \/ mode = "zpx" /\ at = (arg + core.X) % 256 /\ len = 2 /\ n = 6
           \/ mode = "abs" /\ at = arg /\ len = 3 /\ n = 6,
           NEW old, old = core.mem[at], NEW v, NEW q,
           \/ name = "ASL" /\ v = (2 * old) % 256 /\ q = SetFlag(core.P, "C", Bit7(old))
           \/ name = "LSR" /\ v = old \div 2 /\ q = SetFlag(core.P, "C", Bit0(old))
           \/ /\ name = "ROL" /\ v = (2 * old + Carry(core.P)) % 256
              /\ q = SetFlag(core.P, "C", Bit7(old))
           \/ /\ name = "ROR" /\ v = (old \div 2) + 128 * Carry(core.P)
              /\ q = SetFlag(core.P, "C", Bit0(old))
           \/ name = "INC" /\ v = (old + 1) % 256 /\ q = core.P
           \/ name = "DEC" /\ v = (old + 255) % 256 /\ q = core.P
    PROVE  Goes(core.A, core.X, core.Y, core.SP, len, SetZN(q, v), n, Wrote(core.mem, at, v))
<1>1. name \notin DOMAIN OwnCycles /\ name # "JMP"
    BY Plain
<1>2. Takes(name, mode, len, n) /\ mode # "acc"
    BY <1>1, PlainTakes
<1>3. at = Address
    BY OperandAt
<1>. QED BY <1>2, <1>3, ModifyGoes

LEMMA StackDoes ==
    ASSUME NEW name, NEW arg, Doing(name, "imp", arg), NEW at, NEW sp
    PROVE  /\ name = "PHA" /\ PushAt(core.SP, at, sp) =>
                  Goes(core.A, core.X, core.Y, sp, 1, core.P, 3, Wrote(core.mem, at, core.A))
           /\ name = "PHP" /\ PushAt(core.SP, at, sp) =>
                  \A v : v = FlagByte8(core.P, TRUE) =>
                      Goes(core.A, core.X, core.Y, sp, 1, core.P, 3, Wrote(core.mem, at, v))
           /\ name = "PLA" /\ PullAt(core.SP, at, sp) =>
                  Goes(core.mem[at], core.X, core.Y, sp, 1, SetZN(core.P, core.mem[at]), 4, core.mem)
           /\ name = "PLP" /\ PullAt(core.SP, at, sp) =>
                  Goes(core.A, core.X, core.Y, sp, 1, FlagsOf(core.mem[at]), 4, core.mem)
           /\ name = "TXS" => Goes(core.A, core.X, core.Y, core.X, 1, core.P, 2, core.mem)
           /\ name = "NOP" => Goes(core.A, core.X, core.Y, core.SP, 1, core.P, 2, core.mem)
<1>1. name = "PHA" /\ PushAt(core.SP, at, sp) =>
          Goes(core.A, core.X, core.Y, sp, 1, core.P, 3, Wrote(core.mem, at, core.A))
    BY OwnTakes, PushGoes
<1>2. ASSUME name = "PHP", PushAt(core.SP, at, sp), NEW v, v = FlagByte8(core.P, TRUE)
      PROVE  Goes(core.A, core.X, core.Y, sp, 1, core.P, 3, Wrote(core.mem, at, v))
    BY <1>2, OwnTakes, PushGoes
<1>3. ASSUME name = "PLA", PullAt(core.SP, at, sp)
      PROVE  Goes(core.mem[at], core.X, core.Y, sp, 1, SetZN(core.P, core.mem[at]), 4, core.mem)
    BY <1>3, OwnTakes, PullAGoes DEF PullAt
<1>4. ASSUME name = "PLP", PullAt(core.SP, at, sp)
      PROVE  Goes(core.A, core.X, core.Y, sp, 1, FlagsOf(core.mem[at]), 4, core.mem)
    BY <1>4, OwnTakes, PullPGoes DEF PullAt
<1>5. ASSUME name = "TXS"
      PROVE  Goes(core.A, core.X, core.Y, core.X, 1, core.P, 2, core.mem)
    BY <1>5, Plain, PlainTakes, SetStackGoes
<1>6. ASSUME name = "NOP"
      PROVE  Goes(core.A, core.X, core.Y, core.SP, 1, core.P, 2, core.mem)
    BY <1>6, Plain, PlainTakes, NopGoes
<1>. QED BY <1>1, <1>2, <1>3, <1>4, <1>5, <1>6

LEMMA RotateDoes ==
    ASSUME NEW arg, Doing("ROR", "acc", arg),
           NEW v, v = (core.A \div 2) + 128 * Carry(core.P),
           NEW q, q = SetFlag(core.P, "C", Bit0(core.A))
    PROVE  Goes(v, core.X, core.Y, core.SP, 1, SetZN(q, v), 2, core.mem)
<1>1. Takes("ROR", "acc", 1, 2)
    BY Plain, PlainTakes DEF Modifies, Shifts
<1>. QED BY <1>1, RotateGoes

LEMMA JumpDoes ==
    ASSUME NEW mode, NEW arg, Doing("JMP", mode, arg), NEW to, NEW n,
           \/ mode = "abs" /\ to = arg /\ n = 3
           \/ mode = "ind" /\ to = ReadBug16(arg) /\ n = 5
    PROVE  GoesTo(core.A, core.X, core.Y, core.SP, to, core.P, n, core.mem)
<1>1. Takes("JMP", mode, 3, n)
    BY OwnTakes
<1>2. to = Address
    BY OperandAt
<1>. QED BY <1>1, <1>2, JumpGoes

(* Whether a branch is taken and where to; it costs two cycles, one more   *)
(* when it is taken and another when that leads to another page.           *)
Branching(name) ==
    \/ name = "BPL" /\ "N" \notin core.P
    \/ name = "BVC" /\ "V" \notin core.P
    \/ name = "BCC" /\ "C" \notin core.P
    \/ name = "BCS" /\ "C" \in core.P
    \/ name = "BNE" /\ "Z" \notin core.P
Target(arg) == ((core.PC + 2) + (IF arg < 128 THEN arg ELSE arg - 256)) % 65536
Paid(to) == IF PageOf(core.PC + 2) # PageOf(to) THEN 4 ELSE 3

LEMMA BranchDoes ==
    ASSUME NEW name \in {"BPL", "BVC", "BCC", "BCS", "BNE"}, NEW arg, Doing(name, "rel", arg),
           NEW to, to = Target(arg), NEW n, n = Paid(to)
    PROVE  /\ Branching(name) => GoesTo(core.A, core.X, core.Y, core.SP, to, core.P, n, core.mem)
           /\ ~Branching(name) => Goes(core.A, core.X, core.Y, core.SP, 2, core.P, 2, core.mem)
<1>1. name \in DOMAIN Branches
    BY DEF Branches
<1>2. /\ Branches["BPL"][1] = "N" /\ Branches["BPL"][2] = FALSE
      /\ Branches["BVC"][1] = "V" /\ Branches["BVC"][2] = FALSE
      /\ Branches["BCC"][1] = "C" /\ Branches["BCC"][2] = FALSE
      /\ Branches["BCS"][1] = "C" /\ Branches["BCS"][2] = TRUE
      /\ Branches["BNE"][1] = "Z" /\ Branches["BNE"][2] = FALSE
    BY DEF Branches
<1>3. PICK taken \in BOOLEAN : taken <=> Branching(name)
    OBVIOUS
<1>4. taken = ((Branches[name][1] \in core.P) = Branches[name][2])
  <2>1. \A in \in BOOLEAN : ((in = FALSE) = ~in) /\ ((in = TRUE) = in)
      BY Zenon
  <2>2. PICK flag, set : set \in BOOLEAN /\ flag = Branches[name][1] /\ set = Branches[name][2]
      BY <1>2
  <2>3. taken <=> (IF set THEN flag \in core.P ELSE flag \notin core.P)
      BY <1>2, <1>3, <2>2 DEF Branching
  <2>4. PICK in \in BOOLEAN : in <=> flag \in core.P
      OBVIOUS
  <2>5. (flag \in core.P) = in
      BY <2>4
  <2>6. (in = set) = taken
    <3>1. CASE set = TRUE
        BY <2>1, <2>3, <2>4, <3>1
    <3>2. CASE set = FALSE
        BY <2>1, <2>3, <2>4, <3>2
    <3>. QED BY <2>2, <3>1, <3>2
  <2>. QED BY <2>2, <2>5, <2>6
<1>5. CASE taken
  <2>1. to = (IF taken THEN Address ELSE core.PC + 2)
      BY <1>5, OperandAt DEF Target
  <2>2. n = IF ~taken THEN 2 ELSE IF PageOf(core.PC + 2) # PageOf(to) THEN 4 ELSE 3
      BY <1>5 DEF Paid
  <2>. QED BY <1>1, <1>3, <1>4, <1>5, <2>1, <2>2, BranchGoes
<1>6. CASE ~taken
  <2>1. PICK next, two : next = core.PC + 2 /\ two = 2
      OBVIOUS
  <2>2. next = (IF taken THEN Address ELSE core.PC + 2)
      BY <1>6, <2>1
  <2>3. two = IF ~taken THEN 2 ELSE IF PageOf(core.PC + 2) # PageOf(next) THEN 4 ELSE 3
      BY <1>6, <2>1
  <2>4. GoesTo(core.A, core.X, core.Y, core.SP, next, core.P, two, core.mem)
      BY <1>1, <1>4, <2>2, <2>3, BranchGoes
  <2>. QED BY <1>3, <1>6, <2>1, <2>4 DEF Goes
<1>. QED BY <1>5, <1>6
=============================================================================
