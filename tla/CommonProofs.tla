---------------------------- MODULE CommonProofs ----------------------------
(***************************************************************************)
(* What the proofs of several components need.  Loops: a function defined  *)
(* by recursion is what its equation says (there is a function that        *)
(* satisfies it); the value of a tail recursion is one of those its loop   *)
(* can stop with.  Division by a number that is not fixed.                 *)
(***************************************************************************)
EXTENDS Naturals, WellFoundedInduction, TLAPS

(* A set of numbers has a least one. *)
LEMMA LeastNat ==
    ASSUME NEW T \in SUBSET Nat, T # {}
    PROVE  \E x \in T : \A y \in T : x <= y
<1>. DEFINE R == OpToRel(<, Nat)
<1>1. IsWellFoundedOn(R, Nat)
    BY NatLessThanWellFounded
<1>2. \A x, y \in Nat : <<y, x>> \in R <=> y < x
    BY DEF OpToRel
<1>. HIDE DEF R
<1>3. PICK x \in T : \A y \in T : ~ (<<y, x>> \in R)
    BY <1>1, WFMin
<1>4. \A y \in T : ~(y < x)
    BY <1>2, <1>3
<1>5. \A y \in T : x <= y
    BY <1>4
<1>. QED BY <1>5

(* A bounded set of numbers has a greatest one. *)
LEMMA GreatestNat ==
    ASSUME NEW n \in Nat, NEW T \in SUBSET (0 .. n), T # {}
    PROVE  \E x \in T : \A y \in T : y <= x
<1>. DEFINE Below == {n - x : x \in T}
<1>1. Below \in SUBSET Nat /\ Below # {}
  <2>1. ASSUME NEW x \in T PROVE n - x \in Nat
      OBVIOUS
  <2>. QED BY <2>1
<1>2. PICK b \in Below : \A c \in Below : b <= c
  <2>. HIDE DEF Below
  <2>. QED BY <1>1, LeastNat
<1>3. PICK x \in T : b = n - x
    BY <1>2
<1>4. ASSUME NEW y \in T PROVE y <= x
  <2>1. n - y \in Below
      OBVIOUS
  <2>2. b <= n - y
      BY <1>2, <2>1
  <2>. QED BY <1>3, <2>2
<1>. QED BY <1>4

Loop(D, Stop, next, out, f) == [x \in D |-> IF x \in Stop THEN out[x] ELSE f[next[x]]]

(* The sets that a loop from x does not leave, and where it may stop.      *)
Closed(Stop, next, S) == \A z \in S \ Stop : next[z] \in S
Ends(D, Stop, next, x) ==
    {y \in Stop : \A S \in SUBSET D : x \in S /\ Closed(Stop, next, S) => y \in S}

LEMMA TailRecursion ==
    ASSUME NEW D, NEW Stop \in SUBSET D, NEW next \in [D -> D], NEW out
    PROVE  \E f : f = Loop(D, Stop, next, out, f)
<1>. DEFINE E(x) == Ends(D, Stop, next, x)
            f == [x \in D |-> out[CHOOSE y : y \in E(x)]]
<1>1. ASSUME NEW x \in Stop PROVE E(x) = {x}
  <2>1. Closed(Stop, next, {x}) /\ {x} \in SUBSET D
      BY <1>1 DEF Closed
  <2>. QED BY <2>1, <1>1 DEF Ends
<1>2. ASSUME NEW x \in D \ Stop PROVE E(x) = E(next[x])
  <2>1. ASSUME NEW y \in E(next[x]) PROVE y \in E(x)
    <3>1. SUFFICES ASSUME NEW S \in SUBSET D, x \in S, Closed(Stop, next, S)
                   PROVE  y \in S
        BY <2>1 DEF Ends
    <3>2. next[x] \in S
        BY <3>1, <1>2 DEF Closed
    <3>. QED BY <2>1, <3>1, <3>2 DEF Ends
  <2>2. ASSUME NEW y \in E(x) PROVE y \in E(next[x])
    <3>1. SUFFICES ASSUME NEW S \in SUBSET D, next[x] \in S, Closed(Stop, next, S)
                   PROVE  y \in S
        BY <2>2 DEF Ends
    <3>2. Closed(Stop, next, S \cup {x}) /\ S \cup {x} \in SUBSET D
        BY <3>1, <1>2 DEF Closed
    <3>3. y \in S \cup {x} /\ y \in Stop
        BY <2>2, <3>2 DEF Ends
    <3>. QED BY <3>3, <1>2
  <2>. QED BY <2>1, <2>2
<1>. HIDE DEF E
<1>3. ASSUME NEW x \in D PROVE f[x] = IF x \in Stop THEN out[x] ELSE f[next[x]]
  <2>1. CASE x \in Stop
      BY <2>1, <1>1
  <2>2. CASE x \notin Stop
      BY <2>2, <1>2
  <2>. QED BY <2>1, <2>2
<1>4. f = [x \in D |-> IF x \in Stop THEN out[x] ELSE f[next[x]]]
    BY <1>3
<1>. QED BY <1>4 DEF Loop

LEMMA LoopEnds ==
    ASSUME NEW D, NEW Stop \in SUBSET D, NEW next \in [D -> D], NEW out,
           NEW f, f = Loop(D, Stop, next, out, f),
           NEW m \in [D -> Nat], \A x \in D \ Stop : m[next[x]] < m[x],
           NEW S \in SUBSET D, Closed(Stop, next, S),
           NEW x \in S
    PROVE  \E y \in S \cap Stop : f[x] = out[y]
<1>. DEFINE Good(z) == \E y \in S \cap Stop : f[z] = out[y]
            Bad == {z \in S : ~Good(z)}
<1>1. SUFFICES ASSUME x \in Bad PROVE FALSE
    OBVIOUS
<1>. DEFINE T == {m[z] : z \in Bad}
<1>2. T \in SUBSET Nat /\ T # {}
    BY <1>1
<1>3. PICK z \in Bad : \A w \in Bad : m[z] <= m[w]
  <2>. HIDE DEF T
  <2>1. PICK t \in T : \A u \in T : t <= u
      BY <1>2, LeastNat
  <2>. QED BY <2>1 DEF T
<1>4. z \notin Stop
  <2>1. ASSUME z \in Stop PROVE f[z] = out[z]
      BY <2>1 DEF Loop
  <2>. QED BY <2>1
<1>5. f[z] = f[next[z]]
    BY <1>4 DEF Loop
<1>6. next[z] \in S /\ m[next[z]] < m[z] /\ m[z] \in Nat /\ m[next[z]] \in Nat
    BY <1>4 DEF Closed
<1>7. next[z] \notin Bad
    BY <1>3, <1>6
<1>8. Good(next[z])
    BY <1>6, <1>7
<1>. QED BY <1>5, <1>8
(* A loop that runs through 1, ..., n: there is a function that tells what *)
(* it has come to after each round.                                        *)
Rounds(f, n, S, start, step) ==
    /\ f \in [0 .. n -> S]
    /\ f[0] = start
    /\ \A i \in 1 .. n : f[i] = step[i][f[i - 1]]

LEMMA PrimitiveRecursion ==
    ASSUME NEW n \in Nat, NEW S, NEW start \in S, NEW step \in [1 .. n -> [S -> S]]
    PROVE  \E f : Rounds(f, n, S, start, step)
<1>. DEFINE Upto(k) == \E f : Rounds(f, k, S, start, step)
            T == {k \in 0 .. n : ~Upto(k)}
<1>1. SUFFICES ASSUME T # {} PROVE FALSE
  <2>1. n \in 0 .. n
      OBVIOUS
  <2>. QED BY <1>1, <2>1
<1>2. PICK k \in T : \A j \in T : k <= j
  <2>1. T \in SUBSET Nat
      OBVIOUS
  <2>. HIDE DEF T
  <2>. QED BY <1>1, <2>1, LeastNat
<1>3. CASE k = 0
  <2>1. PICK f : f = [i \in 0 .. 0 |-> start]
      OBVIOUS
  <2>2. f \in [0 .. 0 -> S] /\ f[0] = start
      BY <2>1
  <2>3. \A i \in 1 .. 0 : FALSE
      OBVIOUS
  <2>4. Upto(0)
      BY <2>2, <2>3 DEF Rounds
  <2>. QED BY <1>2, <1>3, <2>4
<1>4. CASE k # 0
  <2>1. k \in 1 .. n /\ k - 1 \in 0 .. n /\ ~(k <= k - 1) /\ k \in Nat
      BY <1>4
  <2>2. PICK f \in [0 .. k - 1 -> S] : /\ f[0] = start
                                       /\ \A i \in 1 .. k - 1 : f[i] = step[i][f[i - 1]]
      BY <1>2, <2>1 DEF Rounds
  <2>. DEFINE g == [i \in 0 .. k |-> IF i = k THEN step[k][f[k - 1]] ELSE f[i]]
  <2>3. f[k - 1] \in S /\ step[k] \in [S -> S]
      BY <2>1
  <2>4. g \in [0 .. k -> S]
    <3>1. ASSUME NEW i \in 0 .. k, i # k PROVE f[i] \in S
        BY <2>1, <3>1
    <3>. QED BY <2>3, <3>1
  <2>5. g[0] = start
      BY <2>1, <2>2
  <2>6. ASSUME NEW i \in 1 .. k PROVE g[i] = step[i][g[i - 1]]
    <3>1. i - 1 \in 0 .. k /\ i - 1 # k /\ i \in 0 .. k
        BY <2>1
    <3>2. g[i - 1] = f[i - 1]
        BY <3>1
    <3>3. i # k => i \in 1 .. k - 1
        BY <2>1
    <3>. QED BY <3>1, <3>2, <3>3, <2>2
  <2>7. Upto(k)
    <3>. HIDE DEF g
    <3>. QED BY <2>4, <2>5, <2>6 DEF Rounds
  <2>. QED BY <1>2, <2>7
<1>. QED BY <1>3, <1>4
----------------------------------------------------------------------------
LEMMA Divided ==
    ASSUME NEW x \in Nat, NEW b \in Nat, b > 0
    PROVE  /\ x \div b \in Nat /\ x % b \in Nat /\ x % b < b
           /\ x = (b * (x \div b)) + (x % b)
  OBVIOUS

(* Two different multiples are at least one divisor apart. *)
LEMMA Multiples ==
    ASSUME NEW b \in Nat, NEW m \in Nat, NEW n \in Nat, m < n
    PROVE  (b * m) + b <= b * n
<1>1. PICK d \in Nat : n = m + 1 + d
  <2>1. n - m - 1 \in Nat /\ n = m + 1 + (n - m - 1)
    OBVIOUS
  <2>. QED BY <2>1
<1>2. b * n = (b * m) + b + (b * d) /\ b * d \in Nat
  BY <1>1
<1>. QED BY <1>2

LEMMA Remainder ==
    ASSUME NEW x \in Nat, NEW b \in Nat, NEW q \in Nat, NEW r \in Nat,
           r < b, x = (b * q) + r
    PROVE  x % b = r
<1>1. PICK p \in Nat, t \in Nat : p = x \div b /\ t = x % b /\ t < b /\ x = (b * p) + t
  <2>1. b > 0
    OBVIOUS
  <2>. QED BY <2>1, Divided
<1>2. PICK y \in Nat, z \in Nat : y = b * q /\ z = b * p
    OBVIOUS
<1>3. q < p => y + b <= z
    BY <1>2, Multiples
<1>4. p < q => z + b <= y
    BY <1>2, Multiples
<1>5. p = q
    BY <1>1, <1>2, <1>3, <1>4
<1>. QED BY <1>1, <1>2, <1>5
=============================================================================
