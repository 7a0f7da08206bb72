-------------------------- MODULE MsgStream_proofs --------------------------
(***************************************************************************)
(* For any messages, integers of any width in any base and any capacity of *)
(* the connection: what Encode and Send put on the wire, Recv puts         *)
(* together again, in whatever pieces it comes.                            *)
(***************************************************************************)
EXTENDS MsgStream, SequenceTheorems, WellFoundedInduction, TLAPS

-----------------------------------------------------------------------------
(* Recursion.  Induction over the naturals is stated of sets: it follows   *)
(* from their order, in which every set that is not empty has a least      *)
(* element.                                                                *)
LEMMA NatSets == ASSUME NEW T, T \subseteq Nat, 0 \in T, \A n \in T : n + 1 \in T PROVE T = Nat
<1> SUFFICES ASSUME Nat \ T # {} PROVE FALSE
  OBVIOUS
<1> DEFINE R == OpToRel(<, Nat)
<1>1. \A x, y \in Nat : <<y, x>> \in R <=> y < x
  BY DEF OpToRel
<1>2. IsWellFoundedOn(R, Nat)
  BY NatLessThanWellFounded
<1> HIDE DEF R
<1>3. PICK x \in Nat \ T : \A y \in Nat \ T : ~ (<<y, x>> \in R)
  BY <1>2, WFMin
<1>4. x - 1 \in Nat /\ x - 1 < x /\ x - 1 \notin T
  <2>1. x # 0
    BY <1>3
  <2>2. x - 1 \in Nat
    BY <2>1
  <2>3. (x - 1) + 1 = x
    OBVIOUS
  <2> QED
    BY <2>2, <2>3
<1> QED
  BY <1>1, <1>3, <1>4

LEMMA Along ==
  ASSUME NEW N \in Nat, NEW T, 0 \in T, \A i \in 1 .. N : i - 1 \in T => i \in T
  PROVE  0 .. N \subseteq T
<1> DEFINE U == {i \in Nat : i <= N => i \in T}
<1>1. 0 \in U
  OBVIOUS
<1>2. ASSUME NEW i \in U PROVE i + 1 \in U
  <2> SUFFICES ASSUME i + 1 <= N PROVE i + 1 \in T
    OBVIOUS
  <2>1. i + 1 \in 1 .. N /\ (i + 1) - 1 = i /\ i \in T
    OBVIOUS
  <2> QED
    BY <2>1
<1>3. U = Nat
  <2>1. U \subseteq Nat
    OBVIOUS
  <2> HIDE DEF U
  <2> QED
    BY <1>1, <1>2, <2>1, NatSets
<1> QED
  BY <1>3

Computes(f, N, first, step) == f[0] = first /\ \A i \in 1 .. N : f[i] = step[i][f[i - 1]]

LEMMA Steps ==
  ASSUME NEW S, NEW N \in Nat, NEW first \in S, NEW step \in [1 .. N -> [S -> S]]
  PROVE  \E f \in [0 .. N -> S] : Computes(f, N, first, step)
<1> USE DEF Computes
<1> DEFINE Upto(n, f) == f[0] = first /\ \A i \in 1 .. n : f[i] = step[i][f[i - 1]]
           T == {n \in Nat : n <= N => \E f \in [0 .. n -> S] : Upto(n, f)}
<1>1. 0 \in T
  <2> DEFINE f == [i \in 0 .. 0 |-> first]
  <2>1. f \in [0 .. 0 -> S] /\ Upto(0, f)
    OBVIOUS
  <2> QED
    BY <2>1
<1>2. ASSUME NEW n \in T PROVE n + 1 \in T
  <2> SUFFICES ASSUME n + 1 <= N PROVE \E g \in [0 .. n + 1 -> S] : Upto(n + 1, g)
    <3> HIDE DEF Upto
    <3> QED
      OBVIOUS
  <2>1. PICK f \in [0 .. n -> S] : Upto(n, f)
    OBVIOUS
  <2> DEFINE g == [i \in 0 .. n + 1 |-> IF i = n + 1 THEN step[n + 1][f[n]] ELSE f[i]]
  <2>2. n \in Nat /\ n + 1 \in 1 .. N /\ f[n] \in S
    OBVIOUS
  <2>3. g \in [0 .. n + 1 -> S]
    BY <2>2
  <2>4. ASSUME NEW i \in 1 .. n + 1 PROVE g[i] = step[i][g[i - 1]]
    <3>1. CASE i = n + 1
      BY <2>2, <3>1
    <3>2. CASE i \in 1 .. n
      <4>1. i - 1 \in 0 .. n /\ i - 1 # n + 1 /\ i # n + 1 /\ i \in 0 .. n
        BY <2>2, <3>2
      <4>2. g[i] = f[i] /\ g[i - 1] = f[i - 1]
        BY <4>1
      <4>3. f[i] = step[i][f[i - 1]]
        BY <2>1, <3>2
      <4> QED
        BY <4>2, <4>3
    <3> QED
      BY <2>2, <3>1, <3>2
  <2>5. g[0] = first
    BY <2>1, <2>2
  <2> HIDE DEF g
  <2> QED
    BY <2>3, <2>4, <2>5
<1> HIDE DEF T
<1>3. T = Nat
  <2>1. T \subseteq Nat
    BY DEF T
  <2> QED
    BY <1>1, <1>2, <2>1, NatSets
<1> QED
  BY <1>3 DEF T

-----------------------------------------------------------------------------
(* Integers as bytes.                                                      *)
LEMMA FieldSize == FieldBytes \in Nat /\ FieldBytes > 0 /\ Base \in Nat /\ Base > 1
BY Lengths

LEMMA ValuesSteps ==
  /\ Values \in [0 .. FieldBytes -> Nat \ {0}]
  /\ Values[0] = 1 /\ \A i \in 1 .. FieldBytes : Values[i] = Base * Values[i - 1]
<1> DEFINE S == Nat \ {0}
           step == [i \in 1 .. FieldBytes |-> [v \in S |-> Base * v]]
<1>1. \A v \in S : Base * v \in S
  BY Lengths
<1>2. step \in [1 .. FieldBytes -> [S -> S]] /\ 1 \in S
  BY <1>1
<1>3. PICK f \in [0 .. FieldBytes -> S] : Computes(f, FieldBytes, 1, step)
  <2>1. FieldBytes \in Nat
    BY Lengths
  <2> HIDE DEF step, S
  <2> QED
    BY <1>2, <2>1, Steps, Zenon
<1>4. \A i \in 1 .. FieldBytes : f[i] = Base * f[i - 1]
  <2> TAKE i \in 1 .. FieldBytes
  <2>1. i - 1 \in 0 .. FieldBytes
    BY Lengths
  <2>2. f[i - 1] \in S
    BY <2>1
  <2> QED
    BY <1>3, <2>2 DEF Computes
<1>5. f = [i \in 0 .. FieldBytes |-> IF i = 0 THEN 1 ELSE Base * f[i - 1]]
  <2> DEFINE h == [i \in 0 .. FieldBytes |-> IF i = 0 THEN 1 ELSE Base * f[i - 1]]
  <2>1. \A i \in 0 .. FieldBytes : f[i] = h[i]
    BY <1>3, <1>4, Lengths DEF Computes
  <2> QED
    BY <2>1
<1>6. Values = [i \in 0 .. FieldBytes |-> IF i = 0 THEN 1 ELSE Base * Values[i - 1]]
  BY <1>5, Zenon DEF Values
<1>7. Values[0] = 1 /\ \A i \in 1 .. FieldBytes : Values[i] = Base * Values[i - 1]
  <2>1. 0 \in 0 .. FieldBytes /\ \A i \in 1 .. FieldBytes : i \in 0 .. FieldBytes /\ i # 0
    BY Lengths
  <2> QED
    BY <1>6, <2>1
<1>8. \A i \in 0 .. FieldBytes : Values[i] \in S
  <2> DEFINE T == {i \in 0 .. FieldBytes : Values[i] \in S}
  <2>1. 0 \in T
    BY <1>7, Lengths
  <2>2. ASSUME NEW i \in 1 .. FieldBytes, i - 1 \in T PROVE i \in T
    BY <1>1, <1>7, <2>2, Lengths
  <2>3. FieldBytes \in Nat
    BY Lengths
  <2> HIDE DEF T
  <2>4. 0 .. FieldBytes \subseteq T
    BY <2>1, <2>2, <2>3, Along
  <2> QED
    BY <2>4 DEF T
<1> QED
  BY <1>6, <1>7, <1>8

LEMMA DivFacts ==
  ASSUME NEW q \in Nat
  PROVE  /\ q \div Base \in Nat /\ q % Base \in 0 .. Base - 1
         /\ q = (q \div Base) * Base + (q % Base)
BY FieldSize

LEMMA DivBound ==
  ASSUME NEW q \in Nat, NEW p \in Nat, q < Base * p
  PROVE  q \div Base < p
<1> DEFINE d == q \div Base
           r == q % Base
<1>1. d \in Nat /\ r \in 0 .. Base - 1 /\ q = d * Base + r
  BY DivFacts
<1> HIDE DEF d, r
<1>2. SUFFICES ASSUME d >= p PROVE FALSE
  BY <1>1 DEF d
<1>3. PICK e \in Nat : d = p + e
  <2>1. d - p \in Nat /\ d = p + (d - p)
    BY <1>1, <1>2
  <2> QED
    BY <2>1
<1>4. q = Base * p + e * Base + r
  BY <1>1, <1>3, FieldSize
<1>5. Base * p \in Nat /\ e * Base \in Nat
  BY FieldSize
<1> QED
  BY <1>1, <1>4, <1>5

\* What WriteUInt shifts: n, and then without its last byte each time.
Shifts(n, sh) ==
  /\ sh \in [0 .. FieldBytes - 1 -> Nat]
  /\ sh[0] = n /\ \A k \in 1 .. FieldBytes - 1 : sh[k] = sh[k - 1] \div Base

LEMMA WriteShifts ==
  ASSUME NEW n \in Nat
  PROVE  \E sh : /\ Shifts(n, sh)
                /\ WriteUInt(n) = [i \in 1 .. FieldBytes |-> sh[FieldBytes - i] % Base]
<1> DEFINE N == FieldBytes - 1
           step == [k \in 1 .. N |-> [v \in Nat |-> v \div Base]]
           sh == CHOOSE g : g = [k \in 0 .. N |-> IF k = 0 THEN n ELSE g[k - 1] \div Base]
<1>1. N \in Nat
  BY FieldSize
<1>2. step \in [1 .. N -> [Nat -> Nat]]
  BY DivFacts
<1>3. PICK f \in [0 .. N -> Nat] : Computes(f, N, n, step)
  <2> HIDE DEF step, N
  <2> QED
    BY <1>1, <1>2, Steps
<1>4. f[0] = n /\ \A k \in 1 .. N : f[k] = f[k - 1] \div Base
  <2>1. ASSUME NEW k \in 1 .. N PROVE f[k] = f[k - 1] \div Base
    <3>1. k - 1 \in 0 .. N
      BY <1>1
    <3>2. f[k - 1] \in Nat
      BY <3>1
    <3> QED
      BY <1>3, <3>2 DEF Computes
  <2> QED
    BY <1>3, <2>1 DEF Computes
<1>5. f = [k \in 0 .. N |-> IF k = 0 THEN n ELSE f[k - 1] \div Base]
  <2> DEFINE h == [k \in 0 .. N |-> IF k = 0 THEN n ELSE f[k - 1] \div Base]
  <2>1. \A k \in 0 .. N : f[k] = h[k]
    BY <1>1, <1>4
  <2> QED
    BY <2>1
<1>6. sh = [k \in 0 .. N |-> IF k = 0 THEN n ELSE sh[k - 1] \div Base]
  BY <1>5, Zenon
<1>7. WriteUInt(n) = [i \in 1 .. FieldBytes |-> sh[FieldBytes - i] % Base]
  BY Zenon DEF WriteUInt
<1> HIDE DEF sh
<1>8. sh[0] = n /\ \A k \in 1 .. N : sh[k] = sh[k - 1] \div Base
  <2>1. 0 \in 0 .. N /\ \A k \in 1 .. N : k \in 0 .. N /\ k # 0
    BY <1>1
  <2> QED
    BY <1>6, <2>1
<1>9. \A k \in 0 .. N : sh[k] \in Nat
  <2> DEFINE T == {k \in 0 .. N : sh[k] \in Nat}
  <2>1. 0 \in T
    BY <1>1, <1>8
  <2>2. ASSUME NEW k \in 1 .. N, k - 1 \in T PROVE k \in T
    <3>1. sh[k - 1] \in Nat /\ sh[k] = sh[k - 1] \div Base
      BY <1>8, <2>2
    <3>2. sh[k] \in Nat
      BY <3>1, DivFacts
    <3> QED
      BY <1>1, <3>2
  <2> HIDE DEF T, N
  <2>3. 0 .. N \subseteq T
    BY <1>1, <2>1, <2>2, Along
  <2> QED
    BY <2>3 DEF T
<1>10. sh \in [0 .. N -> Nat]
  BY <1>6, <1>9
<1>11. Shifts(n, sh)
  BY <1>8, <1>10 DEF Shifts
<1> QED
  BY <1>7, <1>11

\* A byte is one, and what is left of an integer that fits is none.
LEMMA WriteBytes ==
  ASSUME NEW n \in Nat
  PROVE  WriteUInt(n) \in [1 .. FieldBytes -> 0 .. Base - 1]
<1>1. PICK sh : /\ Shifts(n, sh)
                /\ WriteUInt(n) = [i \in 1 .. FieldBytes |-> sh[FieldBytes - i] % Base]
  BY WriteShifts
<1>2. ASSUME NEW i \in 1 .. FieldBytes PROVE sh[FieldBytes - i] % Base \in 0 .. Base - 1
  <2>1. FieldBytes - i \in 0 .. FieldBytes - 1
    BY FieldSize
  <2> QED
    BY <1>1, <2>1, DivFacts DEF Shifts
<1> QED
  BY <1>1, <1>2

LEMMA ShiftsBound ==
  ASSUME NEW n \in 0 .. UIntMax, NEW sh, Shifts(n, sh)
  PROVE  \A k \in 0 .. FieldBytes - 1 : sh[k] < Values[FieldBytes - k]
<1> DEFINE N == FieldBytes - 1
           T == {k \in 0 .. N : sh[k] < Values[FieldBytes - k]}
<1>1. N \in Nat
  BY FieldSize
<1>2. 0 \in T
  <2>1. Values[FieldBytes] \in Nat /\ FieldBytes - 0 = FieldBytes
    BY FieldSize, ValuesSteps
  <2> QED
    BY <1>1, <2>1 DEF Shifts, UIntMax
<1>3. ASSUME NEW k \in 1 .. N, k - 1 \in T PROVE k \in T
  <2>1. /\ k \in 0 .. N /\ k - 1 \in 0 .. N /\ FieldBytes - (k - 1) \in 1 .. FieldBytes
        /\ (FieldBytes - (k - 1)) - 1 = FieldBytes - k /\ FieldBytes - k \in 0 .. FieldBytes
    BY FieldSize
  <2>2. Values[FieldBytes - (k - 1)] = Base * Values[FieldBytes - k]
            /\ Values[FieldBytes - k] \in Nat
    BY <2>1, ValuesSteps
  <2>3. sh[k - 1] \in Nat /\ sh[k - 1] < Base * Values[FieldBytes - k]
    BY <1>3, <2>1, <2>2 DEF Shifts
  <2>4. sh[k] < Values[FieldBytes - k]
    BY <2>2, <2>3, DivBound DEF Shifts
  <2> QED
    BY <2>1, <2>4
<1> HIDE DEF T, N
<1>4. 0 .. N \subseteq T
  BY <1>1, <1>2, <1>3, Along
<1> QED
  BY <1>4 DEF T, N

\* What ReadUInt adds up.
Valued(bytes, v) ==
  /\ v \in [0 .. FieldBytes -> Nat]
  /\ v[0] = 0 /\ \A i \in 1 .. FieldBytes : v[i] = v[i - 1] * Base + bytes[i]

LEMMA ReadValues ==
  ASSUME NEW bytes \in [1 .. FieldBytes -> 0 .. Base - 1]
  PROVE  \E v : Valued(bytes, v) /\ ReadUInt(bytes) = v[FieldBytes]
<1> DEFINE N == FieldBytes
           step == [i \in 1 .. N |-> [w \in Nat |-> w * Base + bytes[i]]]
           v == CHOOSE g : g = [i \in 0 .. N |-> IF i = 0 THEN 0 ELSE g[i - 1] * Base + bytes[i]]
<1>1. N \in Nat
  BY FieldSize
<1>2. step \in [1 .. N -> [Nat -> Nat]]
  <2>1. ASSUME NEW i \in 1 .. N, NEW w \in Nat PROVE w * Base + bytes[i] \in Nat
    <3>1. w * Base \in Nat /\ bytes[i] \in Nat
      BY FieldSize
    <3> QED
      BY <3>1
  <2> QED
    BY <2>1
<1>3. PICK f \in [0 .. N -> Nat] : Computes(f, N, 0, step)
  <2> HIDE DEF step, N
  <2> QED
    BY <1>1, <1>2, Steps
<1>4. f[0] = 0 /\ \A i \in 1 .. N : f[i] = f[i - 1] * Base + bytes[i]
  <2>1. ASSUME NEW i \in 1 .. N PROVE f[i] = f[i - 1] * Base + bytes[i]
    <3>1. i - 1 \in 0 .. N
      BY <1>1
    <3>2. f[i - 1] \in Nat
      BY <3>1
    <3>3. f[i] = step[i][f[i - 1]]
      BY <1>3 DEF Computes
    <3>4. step[i] = [w \in Nat |-> w * Base + bytes[i]]
      OBVIOUS
    <3> HIDE DEF step
    <3> QED
      BY <3>2, <3>3, <3>4
  <2> QED
    BY <1>3, <2>1 DEF Computes
<1>5. f = [i \in 0 .. N |-> IF i = 0 THEN 0 ELSE f[i - 1] * Base + bytes[i]]
  <2> DEFINE h == [i \in 0 .. N |-> IF i = 0 THEN 0 ELSE f[i - 1] * Base + bytes[i]]
  <2>1. \A i \in 0 .. N : f[i] = h[i]
    BY <1>1, <1>4
  <2> QED
    BY <2>1
<1>6. v = [i \in 0 .. N |-> IF i = 0 THEN 0 ELSE v[i - 1] * Base + bytes[i]]
  BY <1>5, Zenon
<1>7. ReadUInt(bytes) = v[FieldBytes]
  BY Zenon DEF ReadUInt
<1> HIDE DEF v
<1>8. v[0] = 0 /\ \A i \in 1 .. N : v[i] = v[i - 1] * Base + bytes[i]
  <2>1. 0 \in 0 .. N /\ \A i \in 1 .. N : i \in 0 .. N /\ i # 0
    BY <1>1
  <2> QED
    BY <1>6, <2>1
<1>9. \A i \in 0 .. N : v[i] \in Nat
  <2> DEFINE T == {i \in 0 .. N : v[i] \in Nat}
  <2>1. 0 \in T
    BY <1>1, <1>8
  <2>2. ASSUME NEW i \in 1 .. N, i - 1 \in T PROVE i \in T
    <3>0. bytes[i] \in Nat
      BY FieldSize
    <3>1. v[i - 1] \in Nat
      BY <2>2
    <3>4. v[i] = v[i - 1] * Base + bytes[i]
      BY <1>8
    <3>2. v[i - 1] * Base \in Nat
      BY <3>1, FieldSize
    <3>3. v[i] \in Nat
      BY <3>0, <3>4, <3>2
    <3> QED
      BY <1>1, <3>3
  <2> HIDE DEF T, N
  <2>3. 0 .. N \subseteq T
    BY <1>1, <2>1, <2>2, Along
  <2> QED
    BY <2>3 DEF T
<1>10. v \in [0 .. N -> Nat]
  BY <1>6, <1>9
<1> QED
  BY <1>7, <1>8, <1>10 DEF Valued

\* Every integer that FieldBytes bytes can hold is read as it was written, whatever their
\* number and base (ByteOrderUtils::WriteUInt16/32/64 and ReadUInt16/32/64).
THEOREM RoundTrip ==
  ASSUME NEW n \in 0 .. UIntMax
  PROVE  ReadUInt(WriteUInt(n)) = n
<1>0. n \in Nat
  OBVIOUS
<1>1. PICK sh : /\ Shifts(n, sh)
                /\ WriteUInt(n) = [i \in 1 .. FieldBytes |-> sh[FieldBytes - i] % Base]
  BY <1>0, WriteShifts
<1> DEFINE w == WriteUInt(n)
<1>2. w \in [1 .. FieldBytes -> 0 .. Base - 1]
  BY <1>0, WriteBytes
<1>3. PICK v : Valued(w, v) /\ ReadUInt(w) = v[FieldBytes]
  <2> HIDE DEF w
  <2> QED
    BY <1>2, ReadValues
<1>4. \A i \in 1 .. FieldBytes : w[i] = sh[FieldBytes - i] % Base
  BY <1>1
<1> HIDE DEF w
<1> DEFINE T == {i \in 0 .. FieldBytes : i # 0 => v[i] = sh[FieldBytes - i]}
<1>5. 0 \in T
  BY FieldSize
<1>6. ASSUME NEW i \in 1 .. FieldBytes, i - 1 \in T PROVE i \in T
  <2>1. i \in 0 .. FieldBytes /\ FieldBytes - i \in 0 .. FieldBytes - 1 /\ i # 0
    BY FieldSize
  <2> DEFINE q == sh[FieldBytes - i]
  <2>2. q \in Nat
    BY <1>1, <2>1 DEF Shifts
  <2>3. q = (q \div Base) * Base + (q % Base)
    BY <2>2, DivFacts
  <2>4. v[i] = v[i - 1] * Base + (q % Base)
    BY <1>3, <1>4 DEF Valued
  <2>5. CASE i = 1
    <3>1. q < Values[FieldBytes - (FieldBytes - i)]
      BY <1>1, <2>1, ShiftsBound
    <3>2. FieldBytes - (FieldBytes - i) = 1
      BY <2>5, FieldSize
    <3>3. Values[1] = Base * 1
      <4>1. 1 \in 1 .. FieldBytes /\ 1 - 1 = 0
        BY FieldSize
      <4>2. Values[1] = Base * Values[1 - 1]
        BY <4>1, ValuesSteps
      <4> QED
        BY <4>1, <4>2, ValuesSteps
    <3>4. q \div Base < 1
      <4>1. q < Base * 1
        BY <3>1, <3>2, <3>3
      <4> HIDE DEF q
      <4> QED
        BY <2>2, <4>1, DivBound
    <3>5. q \div Base = 0
      BY <2>2, <3>4, DivFacts
    <3>6. v[i - 1] = 0
      BY <1>3, <2>5 DEF Valued
    <3>7. v[i] = q
      <4>1. q = 0 * Base + (q % Base)
        BY <2>3, <3>5
      <4> HIDE DEF q
      <4> QED
        BY <2>4, <3>6, <4>1
    <3> QED
      BY <2>1, <3>7
  <2>6. CASE i # 1
    <3>1. i - 1 # 0 /\ FieldBytes - (i - 1) \in 1 .. FieldBytes - 1
      BY <2>6, FieldSize
    <3>2. (FieldBytes - (i - 1)) - 1 = FieldBytes - i
      BY FieldSize
    <3>3. v[i - 1] = sh[FieldBytes - (i - 1)]
      BY <1>6, <3>1
    <3>4. sh[FieldBytes - (i - 1)] = q \div Base
      BY <1>1, <3>1, <3>2 DEF Shifts
    <3>5. v[i] = q
      BY <2>3, <2>4, <3>3, <3>4
    <3> QED
      BY <2>1, <3>5
  <2> QED
    BY <2>5, <2>6
<1>7. 0 .. FieldBytes \subseteq T
  <2>1. FieldBytes \in Nat
    BY FieldSize
  <2> HIDE DEF T
  <2> QED
    BY <1>5, <1>6, <2>1, Along
<1>8. v[FieldBytes] = n
  <2>1. FieldBytes \in 0 .. FieldBytes /\ FieldBytes # 0 /\ FieldBytes - FieldBytes = 0
    BY FieldSize
  <2> QED
    BY <1>1, <1>7, <2>1 DEF Shifts
<1> QED
  BY <1>3, <1>8 DEF w

-----------------------------------------------------------------------------
(* Buffers, by their cursors.                                              *)
Yes == TRUE

Buf(d, p, l, a) == [data |-> d, pos |-> p, last |-> l, available |-> a]

LEMMA BufFields ==
  ASSUME NEW d, NEW p, NEW l, NEW a
  PROVE  /\ Buf(d, p, l, a).data = d /\ Buf(d, p, l, a).pos = p
         /\ Buf(d, p, l, a).last = l /\ Buf(d, p, l, a).available = a
BY DEF Buf

Set(d, p, l) == d # <<>> /\ p # Null /\ l # Null /\ p <= l
LEMMA CheckSets ==
  ASSUME NEW d, NEW p, NEW l, NEW a
  PROVE  CheckAvailable(Buf(d, p, l, a)) = Buf(d, p, l, Set(d, p, l))
<1> DEFINE b == Buf(d, p, l, a)
           t == Set(d, p, l)
<1>1. Set(b.data, b.pos, b.last) = t
  BY BufFields
<1>2. CheckAvailable(b) = [b EXCEPT !.available = Set(b.data, b.pos, b.last)]
  BY Zenon DEF CheckAvailable, Set
<1> HIDE DEF t
<1>3. [b EXCEPT !.available = t] = Buf(d, p, l, t)
  BY DEF Buf
<1>4. CheckAvailable(b) = [b EXCEPT !.available = t]
  BY <1>1, <1>2, Zenon
<1> QED
  BY <1>3, <1>4 DEF t
LEMMA CheckIs ==
  ASSUME NEW d, d # <<>>, NEW p \in Nat, NEW l \in Nat, p > 0, p <= l, NEW a
  PROVE  CheckAvailable(Buf(d, p, l, a)) = Buf(d, p, l, Yes)
<1>1. Set(d, p, l) = Yes
  BY DEF Set, Null, Yes
<1> QED
  BY <1>1, CheckSets, Zenon
LEMMA SetPosIs ==
  ASSUME NEW d, d # <<>>, NEW p, NEW q \in Nat, NEW l \in Nat, q > 0, q <= l, NEW a
  PROVE  SetPos(Buf(d, p, l, a), q) = Buf(d, q, l, Yes)
<1>1. [Buf(d, p, l, a) EXCEPT !.pos = q] = Buf(d, q, l, a)
  BY DEF Buf
<1>2. CheckAvailable(Buf(d, q, l, a)) = Buf(d, q, l, Yes)
  BY CheckIs
<1> QED
  BY <1>1, <1>2, Zenon DEF SetPos

LEMMA NewIs ==
  ASSUME NEW size \in Nat, size > 0, NEW blank
  PROVE  GetNewAvailableBuffer(size, blank) = Buf([i \in 1 .. size |-> blank], 1, size, Yes)
<1> DEFINE d == [i \in 1 .. size |-> blank]
<1>1. d # <<>>
  <2>1. 1 \in DOMAIN d
    OBVIOUS
  <2> QED
    BY <2>1
<1>2. GetNewBuffer(size, blank) = Buf(d, Null, Null, FALSE)
  BY Zenon DEF GetNewBuffer, Buf
<1> HIDE DEF d
<1>3. ASSUME NEW a
      PROVE [Buf(d, Null, Null, a) EXCEPT !.pos = 1, !.last = size] = Buf(d, 1, size, a)
  <2>1. [Buf(d, Null, Null, a) EXCEPT !.pos = 1, !.last = size]
          = [[Buf(d, Null, Null, a) EXCEPT !.pos = 1] EXCEPT !.last = size]
    OBVIOUS
  <2>2. [Buf(d, Null, Null, a) EXCEPT !.pos = 1] = Buf(d, 1, Null, a)
    BY DEF Buf
  <2>3. [Buf(d, 1, Null, a) EXCEPT !.last = size] = Buf(d, 1, size, a)
    BY DEF Buf
  <2> QED
    BY <2>1, <2>2, <2>3, Zenon
<1>4. CheckAvailable(Buf(d, 1, size, FALSE)) = Buf(d, 1, size, Yes)
  <2>1. 1 \in Nat /\ 1 > 0 /\ 1 <= size
    OBVIOUS
  <2> QED
    BY <1>1, <2>1, CheckIs, Zenon
<1>5. [GetNewBuffer(size, blank) EXCEPT !.pos = 1, !.last = size] = Buf(d, 1, size, FALSE)
  BY <1>2, <1>3, Zenon
<1> QED
  BY <1>4, <1>5, Zenon DEF GetNewAvailableBuffer, d

\* Bytes written over a part of the block.
Over(d, at, cells) ==
  [i \in DOMAIN d |-> IF i \in at .. at + Len(cells) - 1 THEN cells[i - at + 1] ELSE d[i]]

LEMMA FillIs ==
  ASSUME NEW d, NEW p, NEW l, NEW a, NEW at, NEW cells
  PROVE  Fill(Buf(d, p, l, a), at, cells) = Buf(Over(d, at, cells), p, l, a)
<1> DEFINE e == Over(d, at, cells)
<1>1. Over(Buf(d, p, l, a).data, at, cells) = e
  BY BufFields
<1>2. Fill(Buf(d, p, l, a), at, cells) = [Buf(d, p, l, a) EXCEPT !.data = Over(Buf(d, p, l, a).data, at, cells)]
  BY Zenon DEF Fill, Over
<1> HIDE DEF e
<1>3. [Buf(d, p, l, a) EXCEPT !.data = e] = Buf(e, p, l, a)
  BY DEF Buf
<1> QED
  BY <1>1, <1>2, <1>3, Zenon DEF e

LEMMA MoveHeadBackIs ==
  ASSUME NEW d, NEW p \in Nat, NEW l \in Nat, p > 0, p <= l, NEW a, NEW n \in Nat, n > 0
  PROVE  MoveHeadBack(Buf(d, p, l, a), n) = Buf(d, p + n, l, p + n <= l)
<1> DEFINE b == Buf(d, p, l, a)
           more == p + n <= l
<1>1. b.pos = p /\ b.last = l
  BY BufFields
<1>2. (b.last - b.pos > n - 1) = more /\ b.pos + n = p + n
  BY <1>1
<1>3. MoveHeadBack(b, n) = [b EXCEPT !.available = (b.last - b.pos > n - 1), !.pos = b.pos + n]
  <2>1. b.pos # Null /\ b.last # Null
    BY <1>1 DEF Null
  <2> HIDE DEF b
  <2> QED
    BY <2>1, Zenon DEF MoveHeadBack
<1> HIDE DEF more
<1>4. [b EXCEPT !.available = more, !.pos = p + n] = Buf(d, p + n, l, more)
  <2>1. [b EXCEPT !.available = more, !.pos = p + n] = [[b EXCEPT !.available = more] EXCEPT !.pos = p + n]
    OBVIOUS
  <2>2. [b EXCEPT !.available = more] = Buf(d, p, l, more)
    BY DEF Buf
  <2>3. [Buf(d, p, l, more) EXCEPT !.pos = p + n] = Buf(d, p + n, l, more)
    BY DEF Buf
  <2> HIDE DEF b
  <2> QED
    BY <2>1, <2>2, <2>3, Zenon
<1> QED
  BY <1>2, <1>3, <1>4, Zenon DEF more

LEMMA MoveTailBackIs ==
  ASSUME NEW d, d # <<>>, NEW p, NEW l \in Nat, NEW a, NEW n \in Nat, n > 0
  PROVE  /\ l # Null => MoveTailBack(Buf(d, p, l, a), n) = Buf(d, p, l + n, a)
         /\ p = 1 => MoveTailBack(Buf(d, p, Null, a), n) = Buf(d, p, n, Yes)
<1>1. ASSUME l # Null PROVE MoveTailBack(Buf(d, p, l, a), n) = Buf(d, p, l + n, a)
  <2> DEFINE b == Buf(d, p, l, a)
  <2>1. b.last = l
    BY BufFields
  <2>2. MoveTailBack(b, n) = [b EXCEPT !.last = b.last + n]
    <3> HIDE DEF b
    <3> QED
      BY <1>1, <2>1, Zenon DEF MoveTailBack
  <2>3. [b EXCEPT !.last = l + n] = Buf(d, p, l + n, a)
    BY DEF Buf
  <2> QED
    BY <2>1, <2>2, <2>3, Zenon
<1>2. ASSUME p = 1 PROVE MoveTailBack(Buf(d, p, Null, a), n) = Buf(d, p, n, Yes)
  <2> DEFINE b == Buf(d, p, Null, a)
  <2>1. b.last = Null
    BY BufFields
  <2>2. MoveTailBack(b, n) = CheckAvailable([b EXCEPT !.last = Start(b) + n - 1])
    <3> HIDE DEF b
    <3> QED
      BY <2>1, Zenon DEF MoveTailBack
  <2>3. Start(b) + n - 1 = n
    BY DEF Start
  <2>4. [b EXCEPT !.last = n] = Buf(d, p, n, a)
    BY DEF Buf
  <2>5. CheckAvailable(Buf(d, p, n, a)) = Buf(d, p, n, Yes)
    <3>1. 1 \in Nat /\ 1 > 0 /\ 1 <= n
      OBVIOUS
    <3> QED
      BY <1>2, <3>1, CheckIs, Zenon
  <2> QED
    BY <2>2, <2>3, <2>4, <2>5, Zenon
<1> QED
  BY <1>1, <1>2

-----------------------------------------------------------------------------
(* A message's bytes.  Byte i of message m, as it is written.              *)
Total(m) == HeaderSize + PayloadLen[m]

ByteOf(m, i) ==
  IF i <= FieldBytes THEN WriteUInt(Magic)[i]
  ELSE IF i <= 2 * FieldBytes THEN WriteUInt(MsgId[m])[i - FieldBytes]
  ELSE IF i <= HeaderSize THEN WriteUInt(PayloadLen[m])[i - 2 * FieldBytes]
  ELSE (i - HeaderSize) % Base

CellOf(m, i) == <<ByteOf(m, i), m, i>>

Block(m) == [i \in 1 .. Total(m) |-> CellOf(m, i)]

Encoded(m) == Buf(Block(m), 1, Total(m), Yes)

LEMMA MsgFacts ==
  ASSUME NEW m \in Msg
  PROVE  /\ PayloadLen[m] \in Nat /\ PayloadLen[m] >= 1 /\ PayloadLen[m] <= MaxPayload
         /\ HeaderSize \in Nat /\ HeaderSize >= 3 /\ HeaderSize = 3 * FieldBytes
         /\ Total(m) \in Nat /\ Total(m) = HeaderSize + PayloadLen[m]
         /\ MaxPayload \in Nat /\ UIntMax \in Nat /\ MaxPayload <= UIntMax
         /\ Magic \in 0 .. UIntMax /\ MsgId[m] \in 0 .. UIntMax /\ PayloadLen[m] \in 0 .. UIntMax
<1>1. UIntMax \in Nat
  <2>1. FieldBytes \in 0 .. FieldBytes
    BY FieldSize
  <2>2. Values[FieldBytes] \in Nat \ {0}
    BY <2>1, ValuesSteps
  <2> QED
    BY <2>2 DEF UIntMax
<1>2. MaxPayload \in Nat /\ MaxPayload <= UIntMax /\ Magic \in 0 .. UIntMax
  BY <1>1, Lengths
<1>3. PayloadLen[m] \in 1 .. MaxPayload /\ MsgId[m] \in 1 .. UIntMax - 1
  BY Lengths
<1>4. HeaderSize \in Nat /\ HeaderSize >= 3 /\ HeaderSize = 3 * FieldBytes
  BY FieldSize DEF HeaderSize
<1> QED
  BY <1>1, <1>2, <1>3, <1>4 DEF Total

\* One field: the cells from pos on are written and pos moves.
Written(d, size, p, n, m) ==
  [i \in 1 .. size |-> IF i \in p .. p + FieldBytes - 1 THEN <<WriteUInt(n)[i - p + 1], m, i>> ELSE d[i]]

LEMMA WriteFieldIs ==
  ASSUME NEW d, NEW size \in Nat, DOMAIN d = 1 .. size, NEW p \in 1 .. size,
         p + FieldBytes <= size, NEW n \in Nat, NEW m
  PROVE  WriteField(Buf(d, p, size, Yes), n, m)
           = Buf(Written(d, size, p, n, m), p + FieldBytes, size, Yes)
<1> DEFINE w == WriteUInt(n)
           cells == [i \in 1 .. FieldBytes |-> <<w[i], m, p + i - 1>>]
           e == Written(d, size, p, n, m)
<1>1. Len(cells) = FieldBytes
  BY FieldSize
<1>2. DOMAIN d = 1 .. size
  OBVIOUS
<1>3. Over(d, p, cells) = e
  <2>1. ASSUME NEW i \in 1 .. size, i \in p .. p + FieldBytes - 1
        PROVE cells[i - p + 1] = <<w[i - p + 1], m, i>>
    <3>1. i - p + 1 \in 1 .. FieldBytes /\ p + (i - p + 1) - 1 = i
      BY <2>1, FieldSize
    <3> HIDE DEF w
    <3> QED
      BY <3>1
  <2> HIDE DEF cells
  <2> QED
    BY <1>1, <1>2, <2>1 DEF Over, Written
<1>4. Fill(Buf(d, p, size, Yes), p, cells) = Buf(e, p, size, Yes)
  BY <1>3, FillIs
<1>5. MoveHeadBack(Buf(e, p, size, Yes), FieldBytes) = Buf(e, p + FieldBytes, size, Yes)
  <2> HIDE DEF e
  <2>1. MoveHeadBack(Buf(e, p, size, Yes), FieldBytes)
          = Buf(e, p + FieldBytes, size, p + FieldBytes <= size)
    <3>1. p \in Nat /\ p > 0 /\ p <= size /\ FieldBytes \in Nat /\ FieldBytes > 0
      BY FieldSize
    <3> QED
      BY <3>1, MoveHeadBackIs
  <2>2. (p + FieldBytes <= size) = Yes
    BY DEF Yes
  <2> QED
    BY <2>1, <2>2, Zenon
<1>6. WriteField(Buf(d, p, size, Yes), n, m) = MoveHeadBack(Fill(Buf(d, p, size, Yes), p, cells), FieldBytes)
  <2>1. Buf(d, p, size, Yes).pos = p
    BY BufFields
  <2> QED
    BY <2>1, Zenon DEF WriteField
<1> QED
  BY <1>4, <1>5, <1>6, Zenon

\* What Encode makes of a message: the bytes of the header's fields and of the payload.
LEMMA EncodeIs ==
  ASSUME NEW m \in Msg
  PROVE  Encode[m] = Encoded(m)
<1> DEFINE F == FieldBytes
           S == Total(m)
           blank == Blank(m)
           d0 == [i \in 1 .. S |-> blank]
           d1 == Written(d0, S, 1, Magic, m)
           p1 == 1 + F
           d2 == Written(d1, S, p1, MsgId[m], m)
           p2 == p1 + F
           d3 == Written(d2, S, p2, PayloadLen[m], m)
           p3 == p2 + F
           B(d, p) == Buf(d, p, S, Yes)
           h == [magic |-> Magic, id |-> MsgId[m], len |-> PayloadLen[m]]
<1>1. /\ F \in Nat /\ F > 0 /\ S \in Nat /\ S >= p3 /\ HeaderSize = p3 - 1 /\ S > 0
      /\ p1 \in 1 .. S /\ p2 \in 1 .. S /\ 1 \in 1 .. S /\ p3 \in 1 .. S
      /\ Magic \in Nat /\ MsgId[m] \in Nat /\ PayloadLen[m] \in Nat
          /\ S = HeaderSize + PayloadLen[m]
  BY MsgFacts, FieldSize
<1>2. GetNewAvailableBuffer(S, blank) = B(d0, 1)
  <2> HIDE DEF S, blank
  <2> QED
    BY <1>1, NewIs, Zenon
<1>3. WriteField(B(d0, 1), Magic, m) = B(d1, p1)
  <2>1. DOMAIN d0 = 1 .. S /\ 1 + F <= S
    BY <1>1
  <2> HIDE DEF d0, S, B
  <2> QED
    BY <1>1, <2>1, WriteFieldIs DEF B
<1>4. WriteField(B(d1, p1), MsgId[m], m) = B(d2, p2)
  <2>1. DOMAIN d1 = 1 .. S /\ p1 + F <= S
    BY <1>1 DEF Written
  <2> HIDE DEF d1, S, B, p1
  <2> QED
    BY <1>1, <2>1, WriteFieldIs DEF B
<1>5. WriteField(B(d2, p2), PayloadLen[m], m) = B(d3, p3)
  <2>1. DOMAIN d2 = 1 .. S /\ p2 + F <= S
    BY <1>1 DEF Written
  <2> HIDE DEF d2, S, B, p2
  <2> QED
    BY <1>1, <2>1, WriteFieldIs DEF B
<1>6. encode_header(B(d0, 1), h, m) = B(d3, p3)
  <2>1. h.magic = Magic /\ h.id = MsgId[m] /\ h.len = PayloadLen[m]
    OBVIOUS
  <2> HIDE DEF B, d0, d1, d2, d3, h, p1, p2, p3
  <2> QED
    BY <1>3, <1>4, <1>5, <2>1 DEF encode_header
<1> DEFINE L == PayloadLen[m]
           cells == [i \in 1 .. L |-> <<i % Base, m, HeaderSize + i>>]
           d4 == [i \in 1 .. S |-> IF i \in p3 .. p3 + L - 1 THEN cells[i - p3 + 1] ELSE d3[i]]
<1>7. EncodeDerive(B(d3, p3), m) = B(d4, p3)
  <2>1. Len(cells) = L
    BY <1>1
  <2>2. DOMAIN d3 = 1 .. S
    BY DEF Written
  <2> HIDE DEF d3, p3, cells, S
  <2>3. Fill(B(d3, p3), p3, cells) = B(Over(d3, p3, cells), p3)
    BY FillIs
  <2>4. Over(d3, p3, cells) = d4
    BY <2>1, <2>2 DEF Over
  <2>5. EncodeDerive(B(d3, p3), m) = Fill(B(d3, p3), p3, cells)
    <3>1. B(d3, p3).pos = p3
      BY BufFields
    <3> HIDE DEF B
    <3> QED
      BY <3>1, Zenon DEF EncodeDerive, cells
  <2> HIDE DEF B
  <2> QED
    BY <2>3, <2>4, <2>5, Zenon
<1>8. SetPos(B(d4, p3), 1) = B(d4, 1)
  <2>1. d4 # <<>>
    <3>1. 1 \in DOMAIN d4
      BY <1>1
    <3> QED
      BY <3>1
  <2> HIDE DEF d4, p3, S
  <2>2. 1 \in Nat /\ 1 > 0 /\ 1 <= S
    BY <1>1
  <2> QED
    BY <1>1, <2>1, <2>2, SetPosIs
<1>9. d4 = [i \in 1 .. S |-> CellOf(m, i)]
  <2> SUFFICES ASSUME NEW i \in 1 .. S PROVE d4[i] = CellOf(m, i)
    OBVIOUS
  <2>1. CASE i <= F
    <3>4. d4[i] = d3[i]
      <4> HIDE DEF d3, cells
      <4> QED
        BY <1>1, <2>1
    <3>5. d3[i] = d2[i]
      <4> HIDE DEF d2
      <4> QED
        BY <1>1, <2>1 DEF Written
    <3>6. d2[i] = d1[i]
      <4> HIDE DEF d1
      <4> QED
        BY <1>1, <2>1 DEF Written
    <3>1. d4[i] = d1[i]
      BY <3>4, <3>5, <3>6
    <3>2. i \in 1 .. 1 + F - 1 /\ i - 1 + 1 = i
      BY <1>1, <2>1
    <3>3. d1[i] = <<WriteUInt(Magic)[i], m, i>>
      BY <3>2 DEF Written
    <3> QED
      BY <2>1, <3>1, <3>3 DEF CellOf, ByteOf
  <2>2. CASE ~ (i <= F) /\ i <= 2 * F
    <3>4. d4[i] = d3[i]
      <4> HIDE DEF d3, cells
      <4> QED
        BY <1>1, <2>2
    <3>5. d3[i] = d2[i]
      <4> HIDE DEF d2
      <4> QED
        BY <1>1, <2>2 DEF Written
    <3>1. d4[i] = d2[i]
      BY <3>4, <3>5
    <3>2. i \in p1 .. p1 + F - 1 /\ i - p1 + 1 = i - F
      BY <1>1, <2>2
    <3>3. d2[i] = <<WriteUInt(MsgId[m])[i - F], m, i>>
      <4> HIDE DEF d1, p1
      <4> QED
        BY <3>2 DEF Written
    <3> QED
      BY <2>2, <3>1, <3>3 DEF CellOf, ByteOf
  <2>3. CASE ~ (i <= 2 * F) /\ i <= HeaderSize
    <3>1. d4[i] = d3[i]
      BY <1>1, <2>3
    <3>2. i \in p2 .. p2 + F - 1 /\ i - p2 + 1 = i - 2 * F /\ ~ (i <= F)
      BY <1>1, <2>3
    <3>3. d3[i] = <<WriteUInt(PayloadLen[m])[i - 2 * F], m, i>>
      <4> HIDE DEF d2, p2
      <4> QED
        BY <3>2 DEF Written
    <3> QED
      BY <2>3, <3>1, <3>2, <3>3 DEF CellOf, ByteOf
  <2>4. CASE ~ (i <= HeaderSize)
    <3>1. /\ i \in p3 .. p3 + L - 1 /\ i - p3 + 1 = i - HeaderSize /\ i - HeaderSize \in 1 .. L
          /\ HeaderSize + (i - HeaderSize) = i /\ ~ (i <= F) /\ ~ (i <= 2 * F)
      BY <1>1, <2>4
    <3>2. d4[i] = cells[i - HeaderSize]
      <4> HIDE DEF d3, p3, cells
      <4> QED
        BY <3>1
    <3>3. cells[i - HeaderSize] = <<(i - HeaderSize) % Base, m, i>>
      BY <3>1
    <3> QED
      BY <2>4, <3>1, <3>2, <3>3 DEF CellOf, ByteOf
  <2> QED
    BY <1>1, <2>1, <2>2, <2>3, <2>4
<1>10. Encode[m] = SetPos(EncodeDerive(encode_header(GetNewAvailableBuffer(S, blank), h, m), m), 1)
  <2>1. Start(GetNewAvailableBuffer(HeaderSize + PayloadLen[m], Blank(m))) = 1
    BY DEF Start
  <2> QED
    BY <2>1, Zenon DEF Encode, Total
<1> HIDE DEF d4, d3, d0, h, blank, p3
<1>11. Encode[m] = B(d4, 1)
  <2> HIDE DEF B
  <2> QED
    BY <1>2, <1>6, <1>7, <1>8, <1>10, Zenon
<1> QED
  BY <1>9, <1>11, Zenon DEF Encoded, Block

-----------------------------------------------------------------------------
(* The header's way back.                                                  *)
Header(m) == [magic |-> Magic, id |-> MsgId[m], len |-> PayloadLen[m]]

\* A block that begins with a message's header is read as that header.
LEMMA HeaderIs ==
  ASSUME NEW m \in Msg, NEW d, \A i \in 1 .. HeaderSize : d[i] = CellOf(m, i)
  PROVE  /\ HeaderOf(Buf(d, 1, HeaderSize, Yes)) = Header(m)
         /\ AvailableLength(Buf(d, 1, HeaderSize, Yes)) = HeaderSize
         /\ DecodeMsgHeader(Buf(d, 1, HeaderSize, Yes))
<1> DEFINE b == Buf(d, 1, HeaderSize, Yes)
           F == FieldBytes
<1>1. b.data = d /\ b.pos = 1 /\ b.last = HeaderSize /\ b.available = Yes
  BY BufFields
<1> HIDE DEF b
<1>2. F \in Nat /\ F > 0 /\ HeaderSize = 3 * F
  BY FieldSize, MsgFacts
<1>3. ASSUME NEW n \in 0 .. UIntMax
      PROVE WriteUInt(n) \in [1 .. F -> 0 .. Base - 1] /\ ReadUInt(WriteUInt(n)) = n
  <2>1. n \in Nat
    OBVIOUS
  <2> QED
    BY <2>1, WriteBytes, RoundTrip
<1>4. /\ Magic \in 0 .. UIntMax /\ MsgId[m] \in 0 .. UIntMax /\ PayloadLen[m] \in 0 .. UIntMax
      /\ PayloadLen[m] <= MaxPayload
  BY MsgFacts
<1>5. ReadField(b, 1) = Magic
  <2>1. ASSUME NEW i \in 1 .. F PROVE d[1 + (1 - 1) * F + i - 1][1] = WriteUInt(Magic)[i]
    <3>1. 1 + (1 - 1) * F + i - 1 = i /\ i \in 1 .. HeaderSize /\ i <= F
      BY <1>2
    <3>2. d[i][1] = ByteOf(m, i)
      BY <3>1 DEF CellOf
    <3> QED
      BY <3>1, <3>2 DEF ByteOf
  <2>2. WriteUInt(Magic) \in [1 .. F -> 0 .. Base - 1] /\ ReadUInt(WriteUInt(Magic)) = Magic
    BY <1>3, <1>4
  <2>3. [i \in 1 .. F |-> b.data[b.pos + (1 - 1) * F + i - 1][1]] = WriteUInt(Magic)
    BY <1>1, <2>1, <2>2
  <2> QED
    BY <2>2, <2>3, Zenon DEF ReadField
<1>6. ReadField(b, 2) = MsgId[m]
  <2>1. ASSUME NEW i \in 1 .. F PROVE d[1 + (2 - 1) * F + i - 1][1] = WriteUInt(MsgId[m])[i]
    <3>1. 1 + (2 - 1) * F + i - 1 = F + i /\ F + i \in 1 .. HeaderSize /\ ~ (F + i <= F)
              /\ F + i <= 2 * F /\ (F + i) - F = i
      BY <1>2
    <3>2. d[F + i][1] = ByteOf(m, F + i)
      BY <3>1 DEF CellOf
    <3> QED
      BY <3>1, <3>2 DEF ByteOf
  <2>2. WriteUInt(MsgId[m]) \in [1 .. F -> 0 .. Base - 1]
            /\ ReadUInt(WriteUInt(MsgId[m])) = MsgId[m]
    BY <1>3, <1>4
  <2>3. [i \in 1 .. F |-> b.data[b.pos + (2 - 1) * F + i - 1][1]] = WriteUInt(MsgId[m])
    BY <1>1, <2>1, <2>2
  <2> QED
    BY <2>2, <2>3, Zenon DEF ReadField
<1>7. ReadField(b, 3) = PayloadLen[m]
  <2>1. ASSUME NEW i \in 1 .. F PROVE d[1 + (3 - 1) * F + i - 1][1] = WriteUInt(PayloadLen[m])[i]
    <3> DEFINE x == 2 * F + i
    <3>1. /\ 1 + (3 - 1) * F + i - 1 = x /\ x \in 1 .. HeaderSize /\ ~ (x <= F) /\ ~ (x <= 2 * F)
          /\ x <= HeaderSize /\ x - 2 * F = i
      BY <1>2
    <3> HIDE DEF x
    <3>2. d[x][1] = ByteOf(m, x)
      BY <3>1 DEF CellOf
    <3> QED
      BY <3>1, <3>2 DEF ByteOf
  <2>2. WriteUInt(PayloadLen[m]) \in [1 .. F -> 0 .. Base - 1]
            /\ ReadUInt(WriteUInt(PayloadLen[m])) = PayloadLen[m]
    BY <1>3, <1>4
  <2>3. [i \in 1 .. F |-> b.data[b.pos + (3 - 1) * F + i - 1][1]] = WriteUInt(PayloadLen[m])
    BY <1>1, <2>1, <2>2
  <2> QED
    BY <2>2, <2>3, Zenon DEF ReadField
<1>8. HeaderOf(b) = Header(m)
  BY <1>5, <1>6, <1>7, Zenon DEF HeaderOf, Header
<1>9. AvailableLength(b) = HeaderSize
  <2>1. b.last - b.pos + 1 = HeaderSize
    BY <1>1, <1>2
  <2> QED
    BY <1>1, <2>1 DEF AvailableLength, Yes
<1>10. DecodeMsgHeader(b)
  <2>1. HeaderOf(b).magic = Magic /\ HeaderOf(b).len = PayloadLen[m]
    BY <1>8 DEF Header
  <2> QED
    BY <1>2, <1>4, <1>9, <2>1 DEF DecodeMsgHeader
<1> QED
  BY <1>8, <1>9, <1>10, Zenon DEF b

-----------------------------------------------------------------------------
(* The stream.  off[j] bytes have been accepted with the first j messages. *)
(* A connection that has sent `sent` messages but for `left` bytes of the  *)
(* last one, and has taken `at` bytes out, carries w.                      *)
Offsets(acc, off) ==
  /\ off \in [0 .. Len(acc) -> Nat]
  /\ off[0] = 0 /\ \A j \in 1 .. Len(acc) : off[j] = off[j - 1] + Total(acc[j])

Carries(off, acc, sent, left, at, w) ==
  /\ Len(w) = off[sent] - left - at
  /\ \A k \in 1 .. Len(w), j \in 1 .. sent : \A x \in 1 .. Total(acc[j]) :
        off[j - 1] + x = at + k => w[k] = CellOf(acc[j], x)

LEMMA OffsetsGrow ==
  ASSUME NEW acc \in Seq(Msg), NEW off, Offsets(acc, off), NEW i \in 0 .. Len(acc)
  PROVE  \A j \in 0 .. Len(acc) : i <= j => off[i] <= off[j]
<1> DEFINE T == {j \in 0 .. Len(acc) : i <= j => off[i] <= off[j]}
<1>1. 0 \in T
  BY DEF Offsets
<1>2. ASSUME NEW j \in 1 .. Len(acc), j - 1 \in T PROVE j \in T
  <2>1. off[j] = off[j - 1] + Total(acc[j]) /\ off[j - 1] \in Nat /\ off[j] \in Nat
            /\ off[i] \in Nat
    BY DEF Offsets
  <2>2. Total(acc[j]) \in Nat
    BY MsgFacts
  <2>3. CASE i = j
    BY <2>1, <2>3
  <2>4. CASE i <= j - 1
    BY <1>2, <2>1, <2>2, <2>4
  <2> QED
    BY <2>3, <2>4
<1>3. 0 .. Len(acc) \subseteq T
  <2>1. Len(acc) \in Nat
    OBVIOUS
  <2> HIDE DEF T
  <2> QED
    BY <1>1, <1>2, <2>1, Along
<1> QED
  BY <1>3 DEF T

LEMMA OffsetsPush ==
  ASSUME NEW acc \in Seq(Msg), NEW off, Offsets(acc, off), NEW m \in Msg
  PROVE  \E more : Offsets(Append(acc, m), more) /\ \A i \in 0 .. Len(acc) : more[i] = off[i]
<1> DEFINE n == Len(acc)
           more == [i \in 0 .. n + 1 |-> IF i = n + 1 THEN off[n] + Total(m) ELSE off[i]]
<1>1. n \in Nat /\ Len(Append(acc, m)) = n + 1 /\ off[n] \in Nat /\ Total(m) \in Nat
  BY MsgFacts DEF Offsets
<1>2. \A i \in 0 .. n : more[i] = off[i] /\ off[i] \in Nat
  <2> TAKE i \in 0 .. n
  <2>1. i \in 0 .. n + 1 /\ i # n + 1
    BY <1>1
  <2>2. off[i] \in Nat
    BY DEF Offsets
  <2> QED
    BY <2>1, <2>2
<1>3. more \in [0 .. n + 1 -> Nat]
  <2> SUFFICES ASSUME NEW i \in 0 .. n + 1
        PROVE (IF i = n + 1 THEN off[n] + Total(m) ELSE off[i]) \in Nat
    OBVIOUS
  <2>1. i # n + 1 => off[i] \in Nat
    BY <1>1 DEF Offsets
  <2> QED
    BY <1>1, <2>1
<1>4. more[n + 1] = off[n] + Total(m)
  BY <1>1
<1> HIDE DEF more
<1>5. ASSUME NEW j \in 1 .. n + 1 PROVE more[j] = more[j - 1] + Total(Append(acc, m)[j])
  <2>1. CASE j = n + 1
    <3>1. Append(acc, m)[j] = m /\ j - 1 = n
      BY <2>1, <1>1
    <3> QED
      BY <1>1, <1>2, <1>4, <2>1, <3>1
  <2>2. CASE j \in 1 .. n
    <3>1. Append(acc, m)[j] = acc[j] /\ j - 1 \in 0 .. n
      BY <1>1, <2>2
    <3>2. off[j] = off[j - 1] + Total(acc[j])
      BY <2>2 DEF Offsets
    <3> QED
      BY <1>1, <1>2, <2>2, <3>1, <3>2
  <2> QED
    BY <1>1, <2>1, <2>2
<1>6. more[0] = 0
  BY <1>1, <1>2 DEF Offsets
<1>7. Offsets(Append(acc, m), more)
  BY <1>1, <1>3, <1>5, <1>6 DEF Offsets
<1> QED
  BY <1>2, <1>7

\* A new message is encoded: nothing of it is on its way yet.
LEMMA CarriesEncoded ==
  ASSUME NEW acc \in Seq(Msg), NEW off, Offsets(acc, off), NEW sent \in Nat, sent + 1 <= Len(acc),
         NEW at \in Nat, NEW w \in Seq(Cell), Carries(off, acc, sent, 0, at, w)
  PROVE  Carries(off, acc, sent + 1, Total(acc[sent + 1]), at, w)
<1>1. /\ sent + 1 \in 1 .. Len(acc) /\ (sent + 1) - 1 = sent /\ off[sent] \in Nat
          /\ off[sent + 1] \in Nat
      /\ off[sent + 1] = off[sent] + Total(acc[sent + 1])
  BY DEF Offsets
<1>2. Total(acc[sent + 1]) \in Nat
  BY <1>1, MsgFacts
<1>3. Len(w) = off[sent + 1] - Total(acc[sent + 1]) - at
  BY <1>1, <1>2 DEF Carries
<1>4. ASSUME NEW k \in 1 .. Len(w), NEW j \in 1 .. sent + 1, NEW x \in 1 .. Total(acc[j]),
             off[j - 1] + x = at + k
      PROVE  w[k] = CellOf(acc[j], x)
  <2>1. j # sent + 1
    <3> SUFFICES ASSUME j = sent + 1 PROVE FALSE
      OBVIOUS
    <3>1. off[sent] + x = at + k /\ x \in Nat /\ x >= 1
      BY <1>1, <1>2, <1>4
    <3>2. Len(w) = off[sent] - 0 - at /\ k <= Len(w) /\ k \in Nat /\ Len(w) \in Nat
      BY DEF Carries
    <3> QED
      BY <1>1, <3>1, <3>2
  <2> QED
    BY <1>4, <2>1 DEF Carries
<1> QED
  BY <1>3, <1>4 DEF Carries

\* n cells of m from the p-th on, and how many there are.
Piece(cells, m, p, n) == Len(cells) = n /\ \A t \in 1 .. n : cells[t] = CellOf(m, p + t - 1)
From(m, p, left) == p + left = Total(m) + 1

\* A piece of the message being sent is written.
LEMMA CarriesWritten ==
  ASSUME NEW acc \in Seq(Msg), NEW off, Offsets(acc, off), NEW sent \in 1 .. Len(acc),
         NEW p \in Nat, NEW left \in Nat, From(acc[sent], p, left),
         NEW n \in Nat, p >= 1, n >= 1, n <= left,
         NEW at \in Nat, NEW w \in Seq(Cell), Carries(off, acc, sent, left, at, w),
         NEW cells \in Seq(Cell), Piece(cells, acc[sent], p, n)
  PROVE  Carries(off, acc, sent, left - n, at, w \o cells)
<1> DEFINE o == off[sent - 1]
           e == off[sent]
           l == Len(w)
<1>0. Len(acc) \in Nat /\ l \in Nat /\ sent \in Nat /\ sent \in 0 .. Len(acc)
          /\ sent - 1 \in 0 .. Len(acc)
  OBVIOUS
<1>1. o \in Nat /\ e \in Nat /\ e = l + left + at
  <2>1. o \in Nat /\ e \in Nat
    BY <1>0 DEF Offsets
  <2>2. l = e - left - at
    BY DEF Carries
  <2> HIDE DEF l, o, e
  <2> QED
    BY <1>0, <2>1, <2>2
<1>2. e + 1 = o + p + left
  <2> DEFINE T == Total(acc[sent])
  <2>1. T \in Nat
    <3>1. acc[sent] \in Msg
      OBVIOUS
    <3> QED
      BY <3>1, MsgFacts
  <2>2. e = o + T
    BY DEF Offsets
  <2>3. p + left = T + 1
    BY DEF From
  <2> HIDE DEF T, o, e
  <2> QED
    BY <1>1, <2>1, <2>2, <2>3
<1>3. Len(w \o cells) = l + n
  <2>1. Len(cells) = n
    BY DEF Piece
  <2>2. Len(w \o cells) = Len(w) + Len(cells)
    BY ConcatProperties
  <2> QED
    BY <2>1, <2>2
<1>4. Len(w \o cells) = off[sent] - (left - n) - at
  <2>1. l + n = e - (left - n) - at
    <3> HIDE DEF l, e
    <3> QED
      BY <1>0, <1>1
  <2> QED
    BY <1>3, <2>1
<1>5. ASSUME NEW k \in 1 .. l + n, NEW j \in 1 .. sent, NEW x \in 1 .. Total(acc[j]),
             off[j - 1] + x = at + k
      PROVE  (w \o cells)[k] = CellOf(acc[j], x)
  <2>0. /\ j \in Nat /\ j \in 1 .. Len(acc) /\ j \in 0 .. Len(acc) /\ j - 1 \in 0 .. Len(acc)
        /\ k \in Nat /\ acc[j] \in Msg
    BY <1>0
  <2>1. CASE k \in 1 .. l
    <3>1. (w \o cells)[k] = w[k]
      BY <2>1
    <3> QED
      BY <1>5, <2>1, <3>1 DEF Carries
  <2>2. CASE k \in l + 1 .. l + n
    <3> DEFINE t == k - l
               u == off[j - 1]
    <3>1. t \in 1 .. n
      <4> HIDE DEF l
      <4> QED
        BY <1>0, <2>2
    <3>2. (w \o cells)[k] = cells[t]
      <4>1. Len(cells) = n
        BY DEF Piece
      <4> QED
        BY <2>2, <4>1
    <3>3. k = l + t
      <4> HIDE DEF l
      <4> QED
        BY <1>0, <2>0
    <3>4. x \in Nat /\ x >= 1 /\ x <= Total(acc[j]) /\ Total(acc[j]) \in Nat
      <4>1. Total(acc[j]) \in Nat
        BY <2>0, MsgFacts
      <4> QED
        BY <4>1
    <3>5. u \in Nat /\ u + x = at + k
      BY <1>5, <2>0 DEF Offsets
    <3>6. j = sent
      <4> SUFFICES ASSUME j # sent PROVE FALSE
        OBVIOUS
      <4> DEFINE v == off[j]
                 T == Total(acc[j])
      <4>1. j <= sent - 1
        BY <1>0, <2>0
      <4>2. v <= o
        BY <1>0, <2>0, <4>1, OffsetsGrow
      <4>3. v = u + T /\ v \in Nat
        BY <2>0 DEF Offsets
      <4>4. T \in Nat /\ x <= T
        BY <3>4
      <4> HIDE DEF t, u, v, T, o, e, l
      <4> QED
        BY <1>0, <1>1, <1>2, <3>1, <3>3, <3>4, <3>5, <4>2, <4>3, <4>4
    <3>7. x = p + t - 1
      <4>1. u = o
        BY <3>6
      <4> HIDE DEF t, u, o, e, l
      <4> QED
        BY <1>0, <1>1, <1>2, <3>1, <3>3, <3>4, <3>5, <4>1
    <3>8. cells[t] = CellOf(acc[sent], p + t - 1)
      BY <3>1 DEF Piece
    <3> HIDE DEF t
    <3> QED
      BY <3>2, <3>6, <3>7, <3>8
  <2>3. k \in 1 .. l \/ k \in l + 1 .. l + n
    <3> HIDE DEF l
    <3> QED
      BY <1>0
  <2> QED
    BY <2>1, <2>2, <2>3
<1> QED
  BY <1>3, <1>4, <1>5 DEF Carries

\* Bytes are taken out.
LEMMA CarriesRead ==
  ASSUME NEW acc \in Seq(Msg), NEW off, Offsets(acc, off), NEW sent \in 0 .. Len(acc),
           NEW left \in Nat,
         NEW at \in Nat, NEW w \in Seq(Cell), Carries(off, acc, sent, left, at, w),
         NEW n \in 0 .. Len(w),
         NEW then \in Nat, then = at + n
  PROVE  Carries(off, acc, sent, left, then, SubSeq(w, n + 1, Len(w)))
<1> DEFINE v == SubSeq(w, n + 1, Len(w))
<1>1. Len(w) \in Nat /\ Len(v) = Len(w) - n /\ \A k \in 1 .. Len(v) : v[k] = w[n + k]
          /\ n + k \in 1 .. Len(w)
  <2>1. Len(w) \in Nat
    OBVIOUS
  <2>2. Len(v) = Len(w) - n
    OBVIOUS
  <2>3. \A k \in 1 .. Len(v) : v[k] = w[n + k] /\ n + k \in 1 .. Len(w)
    OBVIOUS
  <2> QED
    BY <2>1, <2>2, <2>3
<1> HIDE DEF v
<1>2. Len(v) = off[sent] - left - then
  <2>1. off[sent] \in Nat /\ Len(w) = off[sent] - left - at
    BY DEF Offsets, Carries
  <2> QED
    BY <1>1, <2>1
<1>3. ASSUME NEW k \in 1 .. Len(v), NEW j \in 1 .. sent, NEW x \in 1 .. Total(acc[j]),
             off[j - 1] + x = then + k
      PROVE  v[k] = CellOf(acc[j], x)
  <2>1. then + k = at + (n + k)
    BY <1>1
  <2> QED
    BY <1>1, <1>3, <2>1 DEF Carries
<1> QED
  BY <1>2, <1>3 DEF Carries, v

\* What comes next is the next message, as far as it has not been taken.
LEMMA CarriesNext ==
  ASSUME NEW acc \in Seq(Msg), NEW off, Offsets(acc, off), NEW sent \in 0 .. Len(acc),
           NEW left \in Nat,
         NEW done \in 0 .. sent, NEW r \in Nat, NEW w \in Seq(Cell),
         Carries(off, acc, sent, left, off[done] + r, w), w # <<>>
  PROVE  /\ done < sent
         /\ \A i \in 1 .. Len(w) :
              r + i <= Total(acc[done + 1]) => w[i] = CellOf(acc[done + 1], r + i)
<1>1. off[done] \in Nat /\ off[sent] \in Nat /\ Len(w) \in Nat /\ Len(w) > 0
          /\ Len(w) = off[sent] - left - (off[done] + r)
  BY DEF Offsets, Carries
<1>2. done < sent
  BY <1>1
<1>3. done + 1 \in 1 .. sent /\ (done + 1) - 1 = done /\ Total(acc[done + 1]) \in Nat
  BY <1>2, MsgFacts
<1>4. ASSUME NEW i \in 1 .. Len(w), r + i <= Total(acc[done + 1])
      PROVE w[i] = CellOf(acc[done + 1], r + i)
  <2>1. r + i \in 1 .. Total(acc[done + 1]) /\ off[(done + 1) - 1] + (r + i) = (off[done] + r) + i
    BY <1>1, <1>3, <1>4
  <2> QED
    BY <1>3, <2>1 DEF Carries
<1> QED
  BY <1>2, <1>4

-----------------------------------------------------------------------------
(* What a read leaves in a buffer.                                         *)
No == FALSE

LEMMA FreshIs ==
  ASSUME NEW size, NEW blank
  PROVE  GetNewBuffer(size, blank) = Buf([i \in 1 .. size |-> blank], Null, Null, No)
BY Zenon DEF GetNewBuffer, Buf, No

LEMMA FirstRead ==
  ASSUME NEW d, d # <<>>, NEW a, NEW n \in Nat, n > 0
  PROVE  ReadInto(Buf(d, Null, Null, a), n) = Buf(Over(d, 1, SubSeq(wire, 1, n)), 1, n, Yes)
<1> DEFINE b == Buf(d, Null, Null, a)
<1>1. b.pos = Null /\ b.last = Null
  BY BufFields
<1>2. SetPos(b, Start(b)) = Buf(d, 1, Null, Set(d, 1, Null))
  <2>1. [b EXCEPT !.pos = 1] = Buf(d, 1, Null, a)
    BY DEF Buf
  <2>2. Start(b) = 1
    BY DEF Start
  <2>3. CheckAvailable(Buf(d, 1, Null, a)) = Buf(d, 1, Null, Set(d, 1, Null))
    BY CheckSets
  <2> HIDE DEF b
  <2> QED
    BY <2>1, <2>2, <2>3, Zenon DEF SetPos
<1>3. MoveTailBack(Buf(d, 1, Null, Set(d, 1, Null)), n) = Buf(d, 1, n, Yes)
  <2> DEFINE t == Set(d, 1, Null)
  <2>1. 0 \in Nat
    OBVIOUS
  <2> HIDE DEF t
  <2>2. MoveTailBack(Buf(d, 1, Null, t), n) = Buf(d, 1, n, Yes)
    BY <2>1, MoveTailBackIs
  <2> QED
    BY <2>2 DEF t
<1>4. ReadAt(b) = 1
  BY <1>1 DEF ReadAt, Start, Null
<1>5. Fill(Buf(d, 1, n, Yes), 1, SubSeq(wire, 1, n)) = Buf(Over(d, 1, SubSeq(wire, 1, n)), 1, n, Yes)
  BY FillIs
<1> HIDE DEF b
<1>6. ReadInto(b, n) = Fill(MoveTailBack(SetPos(b, Start(b)), n), ReadAt(b), SubSeq(wire, 1, n))
  BY <1>1, Zenon DEF ReadInto
<1> QED
  BY <1>2, <1>3, <1>4, <1>5, <1>6, Zenon DEF b

LEMMA NextRead ==
  ASSUME NEW d, d # <<>>, NEW l \in Nat, l > 0, NEW n \in Nat, n > 0
  PROVE  ReadInto(Buf(d, 1, l, Yes), n) = Buf(Over(d, l + 1, SubSeq(wire, 1, n)), 1, l + n, Yes)
<1> DEFINE b == Buf(d, 1, l, Yes)
<1>1. b.pos = 1 /\ b.last = l
  BY BufFields
<1>2. MoveTailBack(b, n) = Buf(d, 1, l + n, Yes)
  <2>1. l # Null
    BY DEF Null
  <2> QED
    BY <2>1, MoveTailBackIs
<1>3. Fill(Buf(d, 1, l + n, Yes), l + 1, SubSeq(wire, 1, n)) = Buf(Over(d, l + 1, SubSeq(wire, 1, n)), 1, l + n, Yes)
  BY FillIs
<1> HIDE DEF b
<1>4. ReadAt(b) = l + 1 /\ b.pos # Null
  BY <1>1 DEF ReadAt, Null
<1>5. ReadInto(b, n) = Fill(MoveTailBack(b, n), ReadAt(b), SubSeq(wire, 1, n))
  BY <1>4, Zenon DEF ReadInto
<1> QED
  BY <1>2, <1>3, <1>4, <1>5, Zenon DEF b

LEMMA OverIs ==
  ASSUME NEW d \in Seq(Cell), NEW l \in Nat, NEW w \in Seq(Cell), NEW n \in Nat, n <= Len(w),
           l + n <= Len(d)
  PROVE  LET e == Over(d, l + 1, SubSeq(w, 1, n))
         IN  /\ e \in Seq(Cell) /\ Len(e) = Len(d)
             /\ \A i \in 1 .. l : e[i] = d[i]
             /\ \A i \in 1 .. n : e[l + i] = w[i]
<1> DEFINE v == SubSeq(w, 1, n)
           size == Len(d)
           e == Over(d, l + 1, v)
<1>1. size \in Nat /\ DOMAIN d = 1 .. size /\ Len(w) \in Nat
  OBVIOUS
<1>2. Len(v) = n /\ \A i \in 1 .. n : v[i] = w[i] /\ w[i] \in Cell
  <2>1. \A i \in 1 .. n : w[i] \in Cell
    OBVIOUS
  <2>2. Len(v) = n /\ \A i \in 1 .. n : v[i] = w[i]
    OBVIOUS
  <2> QED
    BY <2>1, <2>2
<1> HIDE DEF v
<1>3. e = [i \in 1 .. size |-> IF i \in l + 1 .. l + n THEN v[i - l] ELSE d[i]]
  <2>1. \A i \in 1 .. size : i \in l + 1 .. l + 1 + Len(v) - 1 <=> i \in l + 1 .. l + n
    BY <1>2
  <2>2. \A i \in 1 .. size : i - (l + 1) + 1 = i - l
    BY <1>1
  <2> QED
    BY <1>1, <2>1, <2>2 DEF Over
<1> HIDE DEF e, size
<1>4. ASSUME NEW i \in 1 .. size PROVE e[i] \in Cell
  <2>1. CASE i \in l + 1 .. l + n
    <3>1. i - l \in 1 .. n
      BY <1>1, <2>1
    <3> QED
      BY <1>2, <1>3, <2>1, <3>1
  <2>2. CASE ~ (i \in l + 1 .. l + n)
    <3>1. d[i] \in Cell
      BY DEF size
    <3> QED
      BY <1>3, <2>2, <3>1
  <2> QED
    BY <2>1, <2>2
<1>5. e \in Seq(Cell) /\ Len(e) = size
  BY <1>1, <1>3, <1>4
<1>6. ASSUME NEW i \in 1 .. l PROVE e[i] = d[i]
  <2>1. i \in 1 .. size /\ ~ (i \in l + 1 .. l + n)
    BY <1>1 DEF size
  <2> QED
    BY <1>3, <2>1
<1>7. ASSUME NEW i \in 1 .. n PROVE e[l + i] = w[i]
  <2>1. l + i \in 1 .. size /\ l + i \in l + 1 .. l + n /\ (l + i) - l = i
    BY <1>1 DEF size
  <2> QED
    BY <1>2, <1>3, <2>1
<1> QED
  BY <1>5, <1>6, <1>7 DEF e, v, size

\* A block of `size` cells that holds the cells of m from `from` on, `got` of them.
Part(b, m, from, got, size) ==
  \E d \in Seq(Cell) : /\ Len(d) = size /\ b = Buf(d, 1, got, Yes)
                       /\ \A i \in 1 .. got : d[i] = CellOf(m, from + i)

\* The buffer a read finds: new, or with a part in it.
Begun(b, m, from, got, size) ==
  IF got = 0 THEN b = GetNewBuffer(size, Blank(NoMsg)) ELSE Part(b, m, from, got, size)

LEMMA BlankCell == Blank(NoMsg) \in Cell
BY FieldSize, Lengths DEF Blank, Cell, HeaderSize

LEMMA PartRead ==
  ASSUME NEW b, NEW m, NEW from \in Nat, NEW got \in Nat, NEW size \in Nat,
         Begun(b, m, from, got, size),
         NEW n \in Nat, n > 0, got + n <= size, wire \in Seq(Cell), n <= Len(wire),
         \A i \in 1 .. n : wire[i] = CellOf(m, from + got + i)
  PROVE  Part(ReadInto(b, n), m, from, got + n, size)
<1>1. PICK d \in Seq(Cell) : /\ Len(d) = size
                             /\ ReadInto(b, n) = Buf(Over(d, got + 1, SubSeq(wire, 1, n)), 1, got + n, Yes)
                             /\ \A i \in 1 .. got : d[i] = CellOf(m, from + i)
  <2>1. CASE got = 0
    <3> DEFINE d == [i \in 1 .. size |-> Blank(NoMsg)]
    <3>1. d \in Seq(Cell) /\ Len(d) = size
      BY BlankCell
    <3>2. d # <<>>
      <4>1. size > 0
        OBVIOUS
      <4> HIDE DEF d
      <4> QED
        BY <3>1, <4>1
    <3>3. b = Buf(d, Null, Null, No)
      BY <2>1, FreshIs, Zenon DEF Begun
    <3> HIDE DEF d
    <3>4. ReadInto(b, n) = Buf(Over(d, 1, SubSeq(wire, 1, n)), 1, n, Yes)
      BY <3>2, <3>3, FirstRead
    <3>5. got + 1 = 1 /\ got + n = n /\ 1 .. got = {}
      BY <2>1
    <3> QED
      BY <3>1, <3>4, <3>5
  <2>2. CASE got # 0
    <3>1. PICK d \in Seq(Cell) : /\ Len(d) = size /\ b = Buf(d, 1, got, Yes)
                                 /\ \A i \in 1 .. got : d[i] = CellOf(m, from + i)
      BY <2>2, Zenon DEF Begun, Part
    <3>2. d # <<>> /\ got > 0
      <4>1. Len(d) = size /\ got > 0 /\ size > 0
        BY <2>2, <3>1
      <4> QED
        BY <4>1
    <3>3. ReadInto(b, n) = Buf(Over(d, got + 1, SubSeq(wire, 1, n)), 1, got + n, Yes)
      BY <3>1, <3>2, NextRead
    <3> QED
      BY <3>1, <3>3
  <2> QED
    BY <2>1, <2>2
<1> DEFINE e == Over(d, got + 1, SubSeq(wire, 1, n))
<1>2. /\ e \in Seq(Cell) /\ Len(e) = Len(d) /\ \A i \in 1 .. got : e[i] = d[i]
      /\ \A i \in 1 .. n : e[got + i] = wire[i]
  <2>1. got + n <= Len(d)
    BY <1>1
  <2> QED
    BY <2>1, OverIs
<1>3. ReadInto(b, n) = Buf(e, 1, got + n, Yes) /\ Len(e) = size
  BY <1>1, <1>2
<1> HIDE DEF e
<1>4. ASSUME NEW i \in 1 .. got + n PROVE e[i] = CellOf(m, from + i)
  <2>1. CASE i \in 1 .. got
    BY <1>1, <1>2, <2>1
  <2>2. CASE ~ (i \in 1 .. got)
    <3> DEFINE j == i - got
    <3>1. j \in 1 .. n /\ got + j = i /\ from + got + j = from + i
      BY <2>2
    <3> HIDE DEF j
    <3>2. e[got + j] = wire[j] /\ wire[j] = CellOf(m, from + got + j)
      BY <1>2, <3>1
    <3> QED
      BY <3>1, <3>2
  <2> QED
    BY <2>1, <2>2
<1> QED
  BY <1>2, <1>3, <1>4 DEF Part

LEMMA PartFacts ==
  ASSUME NEW b, NEW m, NEW from, NEW got \in Nat, got > 0, NEW size \in Nat, got <= size,
         Part(b, m, from, got, size)
  PROVE  /\ b.data \in Seq(Cell) /\ Len(b.data) = size /\ b.pos = 1 /\ b.last = got
         /\ b.available = TRUE
         /\ \A i \in 1 .. got : b.data[i] = CellOf(m, from + i)
         /\ Inside(b) /\ TotalLength(b) = size /\ AvailableLength(b) = got
             /\ UnusedSize(b) = size - got
<1>1. PICK d \in Seq(Cell) : /\ Len(d) = size /\ b = Buf(d, 1, got, Yes)
                             /\ \A i \in 1 .. got : d[i] = CellOf(m, from + i)
  BY DEF Part
<1>2. b.data = d /\ b.pos = 1 /\ b.last = got /\ b.available = Yes
  <2>1. Buf(d, 1, got, Yes).data = d /\ Buf(d, 1, got, Yes).pos = 1
          /\ Buf(d, 1, got, Yes).last = got /\ Buf(d, 1, got, Yes).available = Yes
    BY BufFields
  <2> QED
    BY <1>1, <2>1, Zenon
<1>3. b.data \in Seq(Cell) /\ Len(b.data) = size
          /\ \A i \in 1 .. got : b.data[i] = CellOf(m, from + i)
  BY <1>1, <1>2
<1>4. b.available = TRUE
  BY <1>2 DEF Yes
<1>5. Inside(b) /\ TotalLength(b) = size
  BY <1>2, <1>3 DEF Inside, TotalLength, End, Start
<1>6. AvailableLength(b) = got
  BY <1>2, <1>4 DEF AvailableLength
<1>7. UnusedSize(b) = size - got
  BY <1>2, <1>3, <1>4 DEF UnusedSize, End, Null
<1> QED
  BY <1>2, <1>3, <1>4, <1>5, <1>6, <1>7

LEMMA FreshFacts ==
  ASSUME NEW size \in Nat, size > 0
  PROVE  LET b == GetNewBuffer(size, Blank(NoMsg))
         IN  /\ b.data \in Seq(Cell) /\ Len(b.data) = size /\ b.available = FALSE /\ Inside(b)
             /\ TotalLength(b) = size /\ b # NoBuffer
<1> DEFINE b == GetNewBuffer(size, Blank(NoMsg))
           d == [i \in 1 .. size |-> Blank(NoMsg)]
<1>1. d \in Seq(Cell) /\ Len(d) = size
  BY BlankCell
<1>2. b.data = d /\ b.pos = Null /\ b.last = Null /\ b.available = FALSE
  <2> HIDE DEF d
  <2> QED
    BY DEF GetNewBuffer, d
<1> HIDE DEF d, b
<1>3. b.data \in Seq(Cell) /\ Len(b.data) = size
  BY <1>1, <1>2
<1>4. Inside(b) /\ TotalLength(b) = size
  BY <1>2, <1>3 DEF Inside, TotalLength, End, Start, Null
<1>5. b # NoBuffer
  <2>1. NoBuffer.data = <<>>
    BY DEF NoBuffer
  <2>2. b.data # <<>>
    BY <1>3
  <2> QED
    BY <2>1, <2>2
<1> QED
  BY <1>2, <1>3, <1>4, <1>5 DEF b

LEMMA NoBufferFacts ==
  /\ NoBuffer.data \in Seq(Cell) /\ NoBuffer.available = FALSE /\ Inside(NoBuffer)
      /\ AvailableLength(NoBuffer) = 0
<1>1. NoBuffer.data = <<>> /\ NoBuffer.pos = 0 /\ NoBuffer.last = 0 /\ NoBuffer.available = FALSE
  BY DEF NoBuffer, Null
<1>2. NoBuffer.data \in Seq(Cell) /\ Len(NoBuffer.data) = 0
  BY <1>1
<1> QED
  BY <1>1, <1>2 DEF Inside, AvailableLength, End

\* The buffer being sent from its p-th byte on.
Sending(m, p) == Buf(Block(m), p, Total(m), Yes)

LEMMA BlockFacts ==
  ASSUME NEW m \in Msg
  PROVE  /\ Block(m) \in Seq(Cell) /\ Len(Block(m)) = Total(m)
         /\ \A i \in 1 .. Total(m) : Block(m)[i] = CellOf(m, i)
<1>1. ASSUME NEW i \in 1 .. Total(m) PROVE CellOf(m, i) \in Cell
  <2>1. /\ HeaderSize \in Nat /\ Total(m) \in Nat /\ Total(m) <= HeaderSize + MaxPayload
            /\ MaxPayload \in Nat
        /\ FieldBytes \in Nat /\ HeaderSize = 3 * FieldBytes /\ i \in Nat /\ i >= 1
    BY MsgFacts, FieldSize
  <2>2. Magic \in Nat /\ MsgId[m] \in Nat /\ PayloadLen[m] \in Nat
    BY MsgFacts
  <2>3. ByteOf(m, i) \in 0 .. Base - 1
    <3>1. CASE i <= FieldBytes
      <4>1. WriteUInt(Magic) \in [1 .. FieldBytes -> 0 .. Base - 1]
        BY <2>2, WriteBytes
      <4>2. i \in 1 .. FieldBytes
        BY <2>1, <3>1
      <4> QED
        BY <3>1, <4>1, <4>2 DEF ByteOf
    <3>2. CASE ~ (i <= FieldBytes) /\ i <= 2 * FieldBytes
      <4>1. WriteUInt(MsgId[m]) \in [1 .. FieldBytes -> 0 .. Base - 1]
        BY <2>2, WriteBytes
      <4>2. i - FieldBytes \in 1 .. FieldBytes
        BY <2>1, <3>2
      <4> QED
        BY <3>2, <4>1, <4>2 DEF ByteOf
    <3>3. CASE ~ (i <= 2 * FieldBytes) /\ i <= HeaderSize
      <4>1. WriteUInt(PayloadLen[m]) \in [1 .. FieldBytes -> 0 .. Base - 1]
        BY <2>2, WriteBytes
      <4>2. i - 2 * FieldBytes \in 1 .. FieldBytes /\ ~ (i <= FieldBytes)
        BY <2>1, <3>3
      <4> QED
        BY <3>3, <4>1, <4>2 DEF ByteOf
    <3>4. CASE ~ (i <= HeaderSize)
      <4>1. ~ (i <= FieldBytes) /\ ~ (i <= 2 * FieldBytes) /\ i - HeaderSize \in Nat
        BY <2>1, <3>4
      <4>2. (i - HeaderSize) % Base \in 0 .. Base - 1
        BY <4>1, DivFacts
      <4> QED
        BY <3>4, <4>1, <4>2 DEF ByteOf
    <3> QED
      BY <2>1, <3>1, <3>2, <3>3, <3>4
  <2>4. i \in 0 .. HeaderSize + MaxPayload
    BY <2>1
  <2> QED
    BY <2>3, <2>4 DEF CellOf, Cell
<1>2. Total(m) \in Nat
  BY MsgFacts
<1> QED
  BY <1>1, <1>2 DEF Block

LEMMA SendingFacts ==
  ASSUME NEW m \in Msg, NEW p \in 1 .. Total(m)
  PROVE  LET b == Sending(m, p)
         IN  /\ b.data \in Seq(Cell) /\ b.available = TRUE /\ Inside(b)
             /\ AvailableLength(b) = Total(m) - p + 1 /\ b.pos = p /\ b.data = Block(m)
<1> DEFINE b == Sending(m, p)
<1>1. Total(m) \in Nat
  BY MsgFacts
<1>2. b.data = Block(m) /\ b.pos = p /\ b.last = Total(m) /\ b.available = Yes
  BY BufFields DEF Sending
<1> HIDE DEF b
<1>3. b.data \in Seq(Cell) /\ Len(b.data) = Total(m)
  BY <1>2, BlockFacts
<1>4. b.available = TRUE
  BY <1>2 DEF Yes
<1>5. Inside(b)
  BY <1>1, <1>2, <1>3 DEF Inside, End
<1>6. AvailableLength(b) = Total(m) - p + 1
  BY <1>2, <1>4 DEF AvailableLength
<1> QED
  BY <1>2, <1>3, <1>4, <1>5, <1>6 DEF b

\* A piece of the buffer is written: the rest of it, or no buffer.
LEMMA SendingMoves ==
  ASSUME NEW m \in Msg, NEW p \in 1 .. Total(m), NEW n \in Nat, n > 0
  PROVE  LET rest == MoveHeadBack(Sending(m, p), n)
         IN  IF p + n <= Total(m) THEN rest = Sending(m, p + n) ELSE AvailableLength(rest) = 0
<1> DEFINE rest == MoveHeadBack(Sending(m, p), n)
           more == p + n <= Total(m)
<1>1. Total(m) \in Nat
  BY MsgFacts
<1>2. rest = Buf(Block(m), p + n, Total(m), more)
  <2>1. p \in Nat /\ p > 0 /\ p <= Total(m)
    BY <1>1
  <2> QED
    BY <1>1, <2>1, MoveHeadBackIs DEF Sending
<1>3. CASE more
  <2>1. more = Yes
    BY <1>3 DEF Yes
  <2> HIDE DEF rest, more
  <2>2. rest = Sending(m, p + n)
    BY <1>2, <2>1, Zenon DEF Sending
  <2> QED
    BY <1>3, <2>2 DEF rest, more
<1>4. CASE ~ more
  <2> HIDE DEF more, rest
  <2>1. rest.available = more
    BY <1>2, BufFields
  <2>2. AvailableLength(rest) = 0
    BY <1>4, <2>1 DEF AvailableLength
  <2> QED
    BY <1>4, <2>2 DEF more, rest
<1> QED
  BY <1>3, <1>4

-----------------------------------------------------------------------------
(* The inductive invariant.                                                *)
Sent == Len(accepted) - Len(queue)   \* messages encoded
Done == Len(delivered)
Coming == accepted[Done + 1]         \* the message being received

\* The bytes of Coming that have been taken.
Read ==
  IF rcvState = "StartToRcvHeader" THEN 0
  ELSE IF rcvState = "RcvingHeader" THEN header.last
  ELSE IF rcvState = "StartToRcvPayload" THEN HeaderSize
  ELSE HeaderSize + payload.last

Proper(b) == b.data \in Seq(Cell) /\ b.available \in BOOLEAN /\ Inside(b)

Types ==
  /\ queue \in Seq(Msg) /\ accepted \in Seq(Msg) /\ delivered \in Seq(Msg)
  /\ wire \in Seq(Cell) /\ Len(wire) <= Cap
  /\ rcvState \in {"StartToRcvHeader", "RcvingHeader", "StartToRcvPayload", "RcvingPayload"}
  /\ m_header \in [magic : 0 .. UIntMax, id : 0 .. UIntMax, len : 0 .. UIntMax]
  /\ eof \in BOOLEAN /\ edge \in BOOLEAN /\ running \in BOOLEAN /\ broken \in BOOLEAN
  /\ lost \in Nat

\* The queue holds the messages accepted last, the buffer the rest of the one before them.
QueueIs ==
  /\ Len(queue) <= Len(accepted)
  /\ \A i \in 1 .. Len(queue) : queue[i] = accepted[Sent + i]

SendingIs ==
  \/ sending = NoBuffer
  \/ Sent >= 1 /\ \E p \in 1 .. Total(accepted[Sent]) : sending = Sending(accepted[Sent], p)

\* The messages delivered are the first ones, and one is being received only if it was sent.
DeliveredIs ==
  /\ Done <= Sent /\ \A i \in 1 .. Done : delivered[i] = accepted[i]
  /\ rcvState # "StartToRcvHeader" => Done < Sent

HeaderBufferIs ==
  /\ Proper(header) /\ Len(header.data) = HeaderSize
  /\ rcvState = "RcvingHeader" =>
       header.last \in 1 .. HeaderSize - 1 /\ Part(header, Coming, 0, header.last, HeaderSize)

PayloadBufferIs ==
  /\ Proper(payload)
  /\ ForHeader => payload = NoBuffer
  /\ ~ ForHeader => m_header = Header(Coming)
  /\ rcvState = "RcvingPayload" =>
       /\ payload.last \in 1 .. PayloadLen[Coming] - 1
       /\ Part(payload, Coming, HeaderSize, payload.last, PayloadLen[Coming])

WireIs ==
  \E off : /\ Offsets(accepted, off)
           /\ Carries(off, accepted, Sent, AvailableLength(sending), off[Done] + Read, wire)

\* A buffer is lost for the message being received at most.
LostIs == lost <= Done + (IF rcvState = "RcvingPayload" \/ broken THEN 1 ELSE 0)

EndIs ==
  /\ running => ~ broken
  /\ BreaksOnlyAtEnd
  /\ NoDataForgotten
  /\ rcvState = "StartToRcvPayload" /\ payload # NoBuffer /\ running => wire # <<>> \/ eof

IInv == /\ Types /\ QueueIs /\ SendingIs /\ DeliveredIs /\ HeaderBufferIs /\ PayloadBufferIs
        /\ WireIs /\ LostIs /\ EndIs

LEMMA Numbers ==
  ASSUME IInv
  PROVE  /\ Len(queue) \in Nat /\ Len(accepted) \in Nat /\ Len(wire) \in Nat
         /\ Sent \in Nat /\ Done \in Nat /\ Sent <= Len(accepted) /\ Done <= Sent
         /\ Sent >= 1 => accepted[Sent] \in Msg
         /\ Done < Sent => Coming \in Msg /\ Done + 1 \in 1 .. Sent
<1>1. Len(queue) \in Nat /\ Len(accepted) \in Nat /\ Len(wire) \in Nat /\ Done \in Nat
  BY DEF IInv, Types, Done
<1>2. Sent \in Nat /\ Sent <= Len(accepted) /\ Done <= Sent
  BY <1>1 DEF IInv, QueueIs, DeliveredIs, Sent
<1>3. Sent >= 1 => accepted[Sent] \in Msg
  <2>1. Sent >= 1 => Sent \in 1 .. Len(accepted)
    BY <1>1, <1>2
  <2> QED
    BY <2>1 DEF IInv, Types
<1>4. Done < Sent => Coming \in Msg /\ Done + 1 \in 1 .. Sent
  <2>1. Done < Sent => Done + 1 \in 1 .. Len(accepted) /\ Done + 1 \in 1 .. Sent
    BY <1>1, <1>2
  <2> QED
    BY <2>1 DEF IInv, Types, Coming
<1> QED
  BY <1>1, <1>2, <1>3, <1>4

\* How much of the buffer being sent is left.
LEMMA LeftIs ==
  ASSUME IInv
  PROVE  /\ AvailableLength(sending) \in Nat /\ Proper(sending)
         /\ AvailableLength(sending) > 0 =>
              /\ Sent >= 1
              /\ \E p \in 1 .. Total(accepted[Sent]) :
                   sending = Sending(accepted[Sent], p)
                       /\ AvailableLength(sending) = Total(accepted[Sent]) - p + 1
         /\ AvailableLength(sending) = 0 => sending = NoBuffer
<1>1. CASE sending = NoBuffer
  <2>1. AvailableLength(sending) = 0 /\ Proper(sending)
    <3>1. sending.data \in Seq(Cell) /\ sending.available = FALSE /\ Inside(sending)
              /\ AvailableLength(sending) = 0
      BY <1>1, NoBufferFacts
    <3> QED
      BY <3>1 DEF Proper
  <2>2. AvailableLength(sending) \in Nat /\ ~ (AvailableLength(sending) > 0)
    BY <2>1
  <2> QED
    BY <1>1, <2>1, <2>2, Zenon
<1>2. CASE sending # NoBuffer
  <2>1. Sent >= 1 /\ accepted[Sent] \in Msg
    BY <1>2, Numbers DEF IInv, SendingIs
  <2> DEFINE m == accepted[Sent]
  <2>2. PICK p \in 1 .. Total(m) : sending = Sending(m, p)
    BY <1>2 DEF IInv, SendingIs
  <2> HIDE DEF m
  <2>3. Total(m) \in Nat
    BY <2>1, MsgFacts DEF m
  <2>4. /\ sending.data \in Seq(Cell) /\ sending.available = TRUE /\ Inside(sending)
        /\ AvailableLength(sending) = Total(m) - p + 1
    BY <2>1, <2>2, SendingFacts DEF m
  <2>5. AvailableLength(sending) \in Nat /\ AvailableLength(sending) > 0
    BY <2>3, <2>4
  <2>6. Proper(sending)
    BY <2>4, Zenon DEF Proper
  <2>8. AvailableLength(sending) # 0
    BY <2>5
  <2>7. \E q \in 1 .. Total(m) : sending = Sending(m, q)
            /\ AvailableLength(sending) = Total(m) - q + 1
    BY <2>2, <2>4, Zenon
  <2> QED
    BY <2>1, <2>5, <2>6, <2>7, <2>8, Zenon DEF m
<1> QED
  BY <1>1, <1>2

LEMMA ReadRange ==
  ASSUME IInv
  PROVE  /\ Read \in Nat
         /\ ForHeader => Read < HeaderSize
         /\ rcvState = "StartToRcvHeader" => Read = 0
         /\ ~ ForHeader => /\ Done < Sent /\ Coming \in Msg /\ m_header = Header(Coming)
                           /\ m_header.len = PayloadLen[Coming]
                           /\ Read - HeaderSize \in 0 .. PayloadLen[Coming] - 1
<1>1. HeaderSize \in Nat /\ HeaderSize > 0
  BY FieldSize DEF HeaderSize
<1>2. CASE rcvState = "StartToRcvHeader"
  BY <1>1, <1>2 DEF Read, ForHeader
<1>3. CASE rcvState = "RcvingHeader"
  <2>1. header.last \in 1 .. HeaderSize - 1
    BY <1>3 DEF IInv, HeaderBufferIs
  <2> QED
    BY <1>1, <1>3, <2>1 DEF Read, ForHeader
<1>4. CASE rcvState \in {"StartToRcvPayload", "RcvingPayload"}
  <2>1. Done < Sent /\ Coming \in Msg /\ ~ ForHeader
    BY <1>4, Numbers DEF IInv, DeliveredIs, ForHeader
  <2>2. m_header = Header(Coming)
    BY <2>1 DEF IInv, PayloadBufferIs
  <2>3. m_header.len = PayloadLen[Coming]
    BY <2>2 DEF Header
  <2>4. PayloadLen[Coming] \in Nat /\ PayloadLen[Coming] >= 1
    BY <2>1, MsgFacts
  <2>5. CASE rcvState = "StartToRcvPayload"
    <3>1. Read = HeaderSize
      BY <2>5 DEF Read
    <3> QED
      BY <1>1, <2>1, <2>2, <2>3, <2>4, <2>5, <3>1
  <2>6. CASE rcvState = "RcvingPayload"
    <3>1. payload.last \in 1 .. PayloadLen[Coming] - 1 /\ Read = HeaderSize + payload.last
      BY <2>6 DEF IInv, PayloadBufferIs, Read
    <3> QED
      BY <1>1, <2>1, <2>2, <2>3, <2>4, <2>6, <3>1
  <2> QED
    BY <1>4, <2>5, <2>6
<1> QED
  BY <1>2, <1>3, <1>4 DEF IInv, Types

\* What is in transit continues the message being received, if that was not all of it.
LEMMA WireContinues ==
  ASSUME IInv, wire # <<>>
  PROVE  /\ Done < Sent /\ Coming \in Msg
         /\ \A i \in 1 .. Len(wire) :
              Read + i <= Total(Coming) => wire[i] = CellOf(Coming, Read + i)
<1>1. PICK off : /\ Offsets(accepted, off)
                 /\ Carries(off, accepted, Sent, AvailableLength(sending), off[Done] + Read, wire)
  BY DEF IInv, WireIs
<1>2. accepted \in Seq(Msg) /\ wire \in Seq(Cell)
  BY DEF IInv, Types
<1>3. Sent \in 0 .. Len(accepted) /\ Done \in 0 .. Sent
  BY Numbers
<1>4. AvailableLength(sending) \in Nat /\ Read \in Nat
  BY LeftIs, ReadRange
<1>5. /\ Done < Sent
      /\ \A i \in 1 .. Len(wire) :
           Read + i <= Total(accepted[Done + 1]) => wire[i] = CellOf(accepted[Done + 1], Read + i)
  BY <1>1, <1>2, <1>3, <1>4, CarriesNext
<1> QED
  BY <1>5, Numbers DEF Coming

LEMMA InitIInv == Init => IInv
<1> SUFFICES ASSUME Init PROVE IInv
  OBVIOUS
<1>1. HeaderSize \in Nat /\ HeaderSize > 0 /\ UIntMax \in Nat
  <2>1. FieldBytes \in 0 .. FieldBytes
    BY FieldSize
  <2>2. Values[FieldBytes] \in Nat \ {0}
    BY <2>1, ValuesSteps
  <2> QED
    BY <2>2, FieldSize DEF HeaderSize, UIntMax
<1>2. Types
  <2>1. Len(wire) = 0 /\ Cap \in Nat
    BY Capacity DEF Init
  <2>2. m_header \in [magic : 0 .. UIntMax, id : 0 .. UIntMax, len : 0 .. UIntMax]
    BY <1>1 DEF Init
  <2>3. Len(wire) <= Cap
    BY <2>1
  <2>4. queue \in Seq(Msg) /\ accepted \in Seq(Msg) /\ delivered \in Seq(Msg) /\ wire \in Seq(Cell)
    BY DEF Init
  <2>5. eof \in BOOLEAN /\ edge \in BOOLEAN /\ running \in BOOLEAN /\ broken \in BOOLEAN
    BY Zenon DEF Init
  <2>6. /\ lost \in Nat
        /\ rcvState \in {"StartToRcvHeader", "RcvingHeader", "StartToRcvPayload", "RcvingPayload"}
    BY DEF Init
  <2> QED
    BY <2>2, <2>3, <2>4, <2>5, <2>6, Zenon DEF Types
<1>3. Sent = 0 /\ Done = 0 /\ Read = 0
  BY DEF Init, Sent, Done, Read
<1>4. QueueIs /\ SendingIs /\ DeliveredIs
  BY <1>3 DEF Init, QueueIs, SendingIs, DeliveredIs
<1>5. HeaderBufferIs
  <2> DEFINE b == GetNewBuffer(HeaderSize, Blank(NoMsg))
  <2>1. b.data \in Seq(Cell) /\ Len(b.data) = HeaderSize /\ b.available = FALSE /\ Inside(b)
    BY <1>1, FreshFacts
  <2>2. header = b
    BY DEF Init
  <2> HIDE DEF b
  <2>3. Proper(header)
    BY <2>1, <2>2, Zenon DEF Proper
  <2> QED
    BY <2>1, <2>2, <2>3 DEF Init, HeaderBufferIs
<1>6. PayloadBufferIs
  <2>1. Proper(NoBuffer)
    BY NoBufferFacts, Zenon DEF Proper
  <2> QED
    BY <2>1 DEF Init, PayloadBufferIs, ForHeader
<1>7. WireIs
  <2> DEFINE off == [i \in 0 .. 0 |-> 0]
  <2>1. Offsets(accepted, off)
    BY DEF Init, Offsets
  <2>2. AvailableLength(sending) = 0
    BY NoBufferFacts DEF Init
  <2>3. off[0] = 0
    OBVIOUS
  <2> HIDE DEF off
  <2>4. Carries(off, accepted, Sent, AvailableLength(sending), off[Done] + Read, wire)
    BY <1>3, <2>2, <2>3 DEF Init, Carries
  <2> QED
    BY <2>1, <2>4 DEF WireIs
<1>8. LostIs
  BY <1>3 DEF Init, LostIs
<1>9. EndIs
  BY DEF Init, EndIs, BreaksOnlyAtEnd, NoDataForgotten
<1> QED
  BY <1>2, <1>4, <1>5, <1>6, <1>7, <1>8, <1>9 DEF IInv

\* What the sender does leaves the receiver's part as it is.
LEMMA ReceiverSame ==
  ASSUME IInv, UNCHANGED <<rcvState, header, payload, m_header, lost, delivered, broken>>,
         Sent <= Sent', Sent' \in Nat, \A i \in 1 .. Sent : accepted'[i] = accepted[i]
  PROVE  /\ DeliveredIs' /\ HeaderBufferIs' /\ PayloadBufferIs' /\ LostIs'
         /\ Done' = Done /\ Read' = Read
<1>1. Done' = Done
  BY DEF Done
<1>2. Read' = Read
  BY DEF Read
<1>3. Done < Sent => Coming' = Coming
  <2>1. Done < Sent => Done + 1 \in 1 .. Sent
    BY Numbers
  <2> QED
    BY <1>1, <2>1 DEF Coming
<1>4. DeliveredIs'
  <2>1. \A i \in 1 .. Done : i \in 1 .. Sent
    BY Numbers
  <2>2. Done <= Sent' /\ (Done < Sent => Done < Sent')
    BY Numbers
  <2> QED
    BY <1>1, <2>1, <2>2 DEF IInv, DeliveredIs
<1>5. HeaderBufferIs'
  <2>1. rcvState = "RcvingHeader" => Done < Sent
    BY DEF IInv, DeliveredIs
  <2> QED
    BY <1>3, <2>1 DEF IInv, HeaderBufferIs, Proper
<1>6. PayloadBufferIs'
  <2>1. ~ ForHeader => Done < Sent
    BY DEF IInv, DeliveredIs, ForHeader
  <2>2. ForHeader' <=> ForHeader
    BY DEF ForHeader
  <2>3. rcvState = "RcvingPayload" => ~ ForHeader
    BY DEF ForHeader
  <2>4. ~ ForHeader => m_header' = Header(Coming')
    BY <1>3, <2>1 DEF IInv, PayloadBufferIs
  <2> QED
    BY <1>3, <2>1, <2>2, <2>3, <2>4 DEF IInv, PayloadBufferIs, Proper
<1>7. LostIs'
  BY <1>1 DEF IInv, LostIs
<1> QED
  BY <1>1, <1>2, <1>4, <1>5, <1>6, <1>7

LEMMA PushKeeps == ASSUME IInv, NEW m \in Msg, Push(m) PROVE IInv'
<1>1. /\ queue' = Append(queue, m) /\ accepted' = Append(accepted, m)
      /\ UNCHANGED <<sending, wire, eof, edge, running, rcvState, header, payload, m_header,
                     lost, delivered, broken>>
  BY DEF Push, rcvVars
<1>2. /\ queue \in Seq(Msg) /\ accepted \in Seq(Msg)
      /\ Len(queue) \in Nat /\ Len(accepted) \in Nat /\ Sent \in Nat /\ Sent <= Len(accepted)
      /\ Sent >= 1 => accepted[Sent] \in Msg
  BY Numbers DEF IInv, Types
<1>3. Len(queue') = Len(queue) + 1 /\ Len(accepted') = Len(accepted) + 1 /\ Sent' = Sent
  BY <1>1, <1>2 DEF Sent
<1>4. \A i \in 1 .. Len(accepted) : accepted'[i] = accepted[i]
  BY <1>1, <1>2
<1>5. \A i \in 1 .. Sent : accepted'[i] = accepted[i]
  BY <1>2, <1>4
<1>6. DeliveredIs' /\ HeaderBufferIs' /\ PayloadBufferIs' /\ LostIs' /\ Done' = Done /\ Read' = Read
  BY <1>1, <1>2, <1>3, <1>5, ReceiverSame
<1>7. Types'
  BY <1>1, <1>2 DEF IInv, Types
<1>8. QueueIs'
  <2>1. ASSUME NEW i \in 1 .. Len(queue) + 1 PROVE queue'[i] = accepted'[Sent + i]
    <3>1. CASE i = Len(queue) + 1
      <4>1. Sent + i = Len(accepted) + 1
        BY <1>2, <3>1 DEF Sent
      <4> QED
        BY <1>1, <1>2, <3>1, <4>1
    <3>2. CASE i \in 1 .. Len(queue)
      <4>1. Sent + i \in 1 .. Len(accepted)
        BY <1>2, <3>2 DEF Sent
      <4>2. queue'[i] = queue[i] /\ queue[i] = accepted[Sent + i]
        BY <1>1, <1>2, <3>2 DEF IInv, QueueIs
      <4> QED
        BY <1>4, <4>1, <4>2
    <3> QED
      BY <1>2, <3>1, <3>2
  <2>2. Len(queue') <= Len(accepted')
    BY <1>2, <1>3 DEF IInv, QueueIs
  <2> QED
    BY <1>3, <2>1, <2>2 DEF QueueIs
<1>9. SendingIs'
  <2>1. Sent >= 1 => accepted'[Sent] = accepted[Sent]
    BY <1>2, <1>5
  <2>2. sending' = sending
    BY <1>1
  <2> QED
    BY <1>3, <2>1, <2>2 DEF IInv, SendingIs
<1>10. WireIs'
  <2>1. PICK off : /\ Offsets(accepted, off)
                   /\ Carries(off, accepted, Sent, AvailableLength(sending), off[Done] + Read, wire)
    BY DEF IInv, WireIs
  <2>2. PICK more : Offsets(accepted', more) /\ \A i \in 0 .. Len(accepted) : more[i] = off[i]
    BY <1>1, <1>2, <2>1, OffsetsPush
  <2>3. more[Done] = off[Done] /\ more[Sent] = off[Sent]
    BY <1>2, <2>2, Numbers
  <2>4. \A j \in 1 .. Sent : more[j - 1] = off[j - 1] /\ accepted'[j] = accepted[j]
    BY <1>2, <1>5, <2>2
  <2>5. Carries(more, accepted', Sent, AvailableLength(sending), off[Done] + Read, wire)
    BY <2>1, <2>3, <2>4 DEF Carries
  <2>6. Carries(more, accepted', Sent', AvailableLength(sending'), more[Done'] + Read', wire')
    BY <1>1, <1>3, <1>6, <2>3, <2>5
  <2> QED
    BY <2>2, <2>6 DEF WireIs
<1>11. EndIs'
  BY <1>1 DEF IInv, EndIs, BreaksOnlyAtEnd, NoDataForgotten
<1> QED
  BY <1>6, <1>7, <1>8, <1>9, <1>10, <1>11 DEF IInv

LEMMA PopAndEncodeKeeps == ASSUME IInv, PopAndEncode PROVE IInv'
<1> DEFINE m == Head(queue)
<1>1. /\ AvailableLength(sending) = 0 /\ queue # <<>>
      /\ sending' = Encode[m] /\ queue' = Tail(queue)
      /\ UNCHANGED <<wire, eof, edge, accepted, running, rcvState, header, payload, m_header,
                     lost, delivered, broken>>
  BY DEF PopAndEncode, rcvVars
<1>2. /\ queue \in Seq(Msg) /\ accepted \in Seq(Msg) /\ wire \in Seq(Cell)
      /\ Len(queue) \in Nat /\ Len(accepted) \in Nat /\ Sent \in Nat /\ Sent <= Len(accepted)
  BY Numbers DEF IInv, Types
<1>3. /\ Len(queue) > 0 /\ Len(queue') = Len(queue) - 1 /\ m = queue[1] /\ m \in Msg
      /\ \A i \in 1 .. Len(queue) - 1 : queue'[i] = queue[i + 1]
      /\ queue' \in Seq(Msg)
  BY <1>1, <1>2
<1>4. Sent' = Sent + 1 /\ Sent + 1 <= Len(accepted) /\ accepted[Sent + 1] = m
  <2>1. queue[1] = accepted[Sent + 1]
    BY <1>2, <1>3 DEF IInv, QueueIs
  <2> QED
    BY <1>1, <1>2, <1>3, <2>1 DEF Sent
<1> HIDE DEF m
<1>5. DeliveredIs' /\ HeaderBufferIs' /\ PayloadBufferIs' /\ LostIs' /\ Done' = Done /\ Read' = Read
  <2>1. Sent <= Sent' /\ Sent' \in Nat
    BY <1>2, <1>4
  <2>2. \A i \in 1 .. Sent : accepted'[i] = accepted[i]
    BY <1>1
  <2> QED
    BY <1>1, <2>1, <2>2, ReceiverSame
<1>6. Types'
  BY <1>1, <1>3 DEF IInv, Types
<1>7. QueueIs'
  <2>1. ASSUME NEW i \in 1 .. Len(queue) - 1 PROVE queue'[i] = accepted'[Sent' + i]
    <3>1. i + 1 \in 1 .. Len(queue) /\ Sent + (i + 1) = Sent' + i
      BY <1>2, <1>4
    <3>2. queue[i + 1] = accepted[Sent + (i + 1)]
      BY <3>1 DEF IInv, QueueIs
    <3> QED
      BY <1>1, <1>3, <3>1, <3>2
  <2>2. Len(queue') <= Len(accepted')
    BY <1>1, <1>2, <1>3 DEF IInv, QueueIs
  <2> QED
    BY <1>3, <2>1, <2>2 DEF QueueIs
<1>8. /\ sending' = Sending(m, 1) /\ 1 \in 1 .. Total(m) /\ Total(m) \in Nat
      /\ AvailableLength(sending') = Total(m)
  <2>1. Total(m) \in Nat /\ 1 \in 1 .. Total(m)
    <3>1. Total(m) \in Nat /\ Total(m) = HeaderSize + PayloadLen[m] /\ PayloadLen[m] \in Nat
              /\ HeaderSize \in Nat /\ HeaderSize >= 3
      BY <1>3, MsgFacts
    <3> QED
      BY <3>1
  <2>2. sending' = Sending(m, 1)
    BY <1>1, <1>3, EncodeIs, Zenon DEF Encoded, Sending
  <2>3. AvailableLength(Sending(m, 1)) = Total(m) - 1 + 1
    BY <1>3, <2>1, SendingFacts
  <2> QED
    BY <2>1, <2>2, <2>3
<1>9. SendingIs'
  <2>1. accepted'[Sent'] = m /\ Sent' >= 1
    BY <1>1, <1>2, <1>4
  <2> QED
    BY <1>8, <2>1 DEF SendingIs
<1>10. WireIs'
  <2>1. PICK off : /\ Offsets(accepted, off)
                   /\ Carries(off, accepted, Sent, 0, off[Done] + Read, wire)
    BY <1>1 DEF IInv, WireIs
  <2> DEFINE at == off[Done] + Read
  <2>2. at \in Nat
    <3>1. off[Done] \in Nat
      BY <2>1, Numbers DEF Offsets
    <3> QED
      BY <3>1, ReadRange
  <2>3. Carries(off, accepted, Sent, 0, at, wire)
    BY <2>1
  <2> HIDE DEF at
  <2>4. Carries(off, accepted, Sent + 1, Total(accepted[Sent + 1]), at, wire)
    BY <1>2, <1>4, <2>1, <2>2, <2>3, CarriesEncoded
  <2>5. Carries(off, accepted', Sent', AvailableLength(sending'), at, wire')
    BY <1>1, <1>4, <1>8, <2>4
  <2>6. at = off[Done'] + Read'
    BY <1>5 DEF at
  <2>7. Carries(off, accepted', Sent', AvailableLength(sending'), off[Done'] + Read', wire')
    BY <2>5, <2>6
  <2>8. Offsets(accepted', off)
    BY <1>1, <2>1
  <2> QED
    BY <2>7, <2>8 DEF WireIs
<1>11. EndIs'
  BY <1>1 DEF IInv, EndIs, BreaksOnlyAtEnd, NoDataForgotten
<1> QED
  BY <1>5, <1>6, <1>7, <1>9, <1>10, <1>11 DEF IInv

LEMMA WriteKeeps == ASSUME IInv, Write PROVE IInv'
<1> DEFINE m == accepted[Sent]
           left == AvailableLength(sending)
<1>1. /\ left > 0 /\ ~ eof /\ edge' = TRUE
      /\ UNCHANGED <<queue, accepted, eof, running, rcvState, header, payload, m_header, lost,
                     delivered, broken>>
  BY DEF Write, rcvVars
<1>2. PICK n \in 1 .. left :
         /\ Len(wire) + n <= Cap
         /\ wire' = wire \o Cells(sending, sending.pos, n)
         /\ sending' = IF AvailableLength(MoveHeadBack(sending, n)) <= 0
                        THEN NoBuffer ELSE MoveHeadBack(sending, n)
  BY DEF Write
<1>3. /\ queue \in Seq(Msg) /\ accepted \in Seq(Msg) /\ wire \in Seq(Cell)
      /\ Len(wire) \in Nat /\ Len(accepted) \in Nat /\ Sent \in Nat /\ Sent <= Len(accepted)
          /\ Cap \in Nat
  BY Numbers, Capacity DEF IInv, Types
<1>4. /\ left \in Nat /\ Sent >= 1 /\ m \in Msg
      /\ \E p \in 1 .. Total(m) : sending = Sending(m, p) /\ left = Total(m) - p + 1
  BY <1>1, LeftIs, Numbers
<1> HIDE DEF m, left
<1>5. PICK p \in 1 .. Total(m) : sending = Sending(m, p) /\ left = Total(m) - p + 1
  BY <1>4
<1>6. Total(m) \in Nat /\ p \in Nat /\ p >= 1 /\ n \in Nat /\ n >= 1 /\ n <= left
          /\ p + left = Total(m) + 1
  <2>1. Total(m) \in Nat
    BY <1>4, MsgFacts
  <2> QED
    BY <1>4, <1>5, <2>1
<1> DEFINE S == Total(m)
<1>17. S \in Nat /\ p + left = S + 1 /\ S = Total(m)
  BY <1>6
<1> HIDE DEF S
<1>18. p \in Nat /\ p >= 1 /\ n \in Nat /\ n >= 1 /\ n <= left /\ left \in Nat
  BY <1>4, <1>6
<1> DEFINE cells == Cells(sending, sending.pos, n)
<1>7. cells \in Seq(Cell) /\ Piece(cells, m, p, n)
  <2>1. sending.pos = p /\ sending.data = Block(m)
    BY <1>4, <1>5, SendingFacts
  <2>2. cells = SubSeq(Block(m), p, p + n - 1)
    BY <2>1, Zenon DEF Cells
  <2> DEFINE q == p + n - 1
  <2>3. q \in Nat /\ p <= q /\ q <= S /\ q - p + 1 = n
    BY <1>17, <1>18
  <2>4. \A i \in p .. q : Block(m)[i] \in Cell
    <3>1. \A i \in p .. q : i \in 1 .. S
      BY <1>17, <1>18, <2>3
    <3>2. Block(m) \in Seq(Cell) /\ Len(Block(m)) = S
      BY <1>4, <1>17, BlockFacts
    <3> QED
      BY <3>1, <3>2
  <2> HIDE DEF q
  <2>5. /\ SubSeq(Block(m), p, q) \in Seq(Cell) /\ Len(SubSeq(Block(m), p, q)) = n
        /\ \A i \in 1 .. n : SubSeq(Block(m), p, q)[i] = Block(m)[p + i - 1]
    <3>1. /\ SubSeq(Block(m), p, q) \in Seq(Cell)
          /\ Len(SubSeq(Block(m), p, q)) = (IF p <= q THEN q - p + 1 ELSE 0)
          /\ \A i \in 1 .. q - p + 1 : SubSeq(Block(m), p, q)[i] = Block(m)[p + i - 1]
      <4>1. p \in Int /\ q \in Int
        BY <1>18, <2>3
      <4> QED
        BY <2>4, <4>1, SubSeqProperties
    <3> QED
      BY <2>3, <3>1
  <2>6. ASSUME NEW i \in 1 .. n PROVE Block(m)[p + i - 1] = CellOf(m, p + i - 1)
    <3>1. p + i - 1 \in 1 .. S
      BY <1>17, <1>18
    <3> QED
      BY <1>4, <1>17, <3>1, BlockFacts
  <2>7. cells = SubSeq(Block(m), p, q)
    BY <2>2 DEF q
  <2> HIDE DEF cells
  <2> QED
    BY <2>5, <2>6, <2>7 DEF Piece
<1>8. wire' = wire \o cells /\ wire' \in Seq(Cell) /\ Len(wire') = Len(wire) + n
  <2>1. Len(cells) = n
    BY <1>7 DEF Piece
  <2>2. wire' = wire \o cells
    BY <1>2
  <2> HIDE DEF cells
  <2>3. wire \o cells \in Seq(Cell) /\ Len(wire \o cells) = Len(wire) + Len(cells)
    BY <1>3, <1>7, ConcatProperties
  <2> QED
    BY <2>1, <2>2, <2>3
<1> HIDE DEF cells
<1>9. /\ AvailableLength(sending') = left - n
      /\ sending' = NoBuffer \/ \E q \in 1 .. Total(m) : sending' = Sending(m, q)
  <2> DEFINE rest == MoveHeadBack(sending, n)
  <2>1. IF p + n <= Total(m) THEN rest = Sending(m, p + n) ELSE AvailableLength(rest) = 0
    BY <1>4, <1>5, <1>6, SendingMoves
  <2>2. sending' = IF AvailableLength(rest) <= 0 THEN NoBuffer ELSE rest
    BY <1>2
  <2> HIDE DEF rest
  <2>3. CASE p + n <= S
    <3>1. p + n \in 1 .. S /\ left - n = S - (p + n) + 1 /\ left - n > 0
      BY <1>17, <1>18, <2>3
    <3>2. rest = Sending(m, p + n) /\ AvailableLength(rest) = S - (p + n) + 1
      BY <1>4, <1>17, <2>1, <2>3, <3>1, SendingFacts
    <3>3. AvailableLength(rest) = left - n
      BY <3>1, <3>2
    <3>4. ~ (left - n <= 0)
      BY <1>18, <3>1
    <3> QED
      BY <1>17, <2>2, <3>1, <3>2, <3>3, <3>4
  <2>4. CASE ~ (p + n <= S)
    <3>1. left - n = 0
      BY <1>17, <1>18, <2>4
    <3>2. AvailableLength(rest) = 0
      BY <1>17, <2>1, <2>4
    <3>3. sending' = NoBuffer
      BY <2>2, <3>2
    <3> QED
      BY <3>1, <3>3, NoBufferFacts
  <2> QED
    BY <2>3, <2>4
<1>10. Sent' = Sent
  BY <1>1 DEF Sent
<1>11. DeliveredIs' /\ HeaderBufferIs' /\ PayloadBufferIs' /\ LostIs' /\ Done' = Done
           /\ Read' = Read
  <2>1. Sent <= Sent' /\ Sent' \in Nat
    BY <1>3, <1>10
  <2>2. \A i \in 1 .. Sent : accepted'[i] = accepted[i]
    BY <1>1
  <2> QED
    BY <1>1, <2>1, <2>2, ReceiverSame
<1>12. Types'
  <2>1. Len(wire') <= Cap
    BY <1>2, <1>8
  <2> QED
    BY <1>1, <1>8, <2>1 DEF IInv, Types
<1>13. QueueIs'
  BY <1>1, <1>10 DEF IInv, QueueIs
<1>14. SendingIs'
  <2>1. accepted'[Sent'] = m /\ Sent' >= 1
    BY <1>1, <1>4, <1>10 DEF m
  <2> QED
    BY <1>9, <2>1 DEF SendingIs
<1>15. WireIs'
  <2>1. PICK off : /\ Offsets(accepted, off)
                   /\ Carries(off, accepted, Sent, left, off[Done] + Read, wire)
    BY DEF IInv, WireIs, left
  <2> DEFINE at == off[Done] + Read
  <2>2. at \in Nat
    <3>1. off[Done] \in Nat
      BY <2>1, Numbers DEF Offsets
    <3> QED
      BY <3>1, ReadRange
  <2>3. Carries(off, accepted, Sent, left, at, wire)
    BY <2>1
  <2> HIDE DEF at
  <2>4. Carries(off, accepted, Sent, left - n, at, wire \o cells)
    <3>1. Sent \in 1 .. Len(accepted)
      BY <1>3, <1>4
    <3>2. From(accepted[Sent], p, left) /\ Piece(cells, accepted[Sent], p, n)
      BY <1>6, <1>7 DEF From, m
    <3> QED
      BY <1>3, <1>4, <1>6, <1>7, <2>1, <2>2, <2>3, <3>1, <3>2, CarriesWritten
  <2>5. Carries(off, accepted', Sent', AvailableLength(sending'), at, wire')
    BY <1>1, <1>8, <1>9, <1>10, <2>4
  <2>6. at = off[Done'] + Read'
    BY <1>11 DEF at
  <2>7. Carries(off, accepted', Sent', AvailableLength(sending'), off[Done'] + Read', wire')
    BY <2>5, <2>6
  <2>8. Offsets(accepted', off)
    BY <1>1, <2>1
  <2> QED
    BY <2>7, <2>8 DEF WireIs
<1>16. EndIs'
  <2>1. wire' # <<>>
    <3>1. Len(wire') > 0
      BY <1>3, <1>6, <1>8
    <3> QED
      BY <3>1
  <2>2. ~ broken
    BY <1>1 DEF IInv, EndIs, BreaksOnlyAtEnd
  <2> QED
    BY <1>1, <2>1, <2>2 DEF IInv, EndIs, BreaksOnlyAtEnd, NoDataForgotten
<1> QED
  BY <1>11, <1>12, <1>13, <1>14, <1>15, <1>16 DEF IInv
\* What the receiver does leaves the sender's part as it is.
LEMMA SenderSame ==
  ASSUME IInv, UNCHANGED <<queue, sending, accepted>>
  PROVE  /\ QueueIs' /\ SendingIs' /\ Sent' = Sent
         /\ AvailableLength(sending') = AvailableLength(sending)
<1>1. Sent' = Sent
  BY DEF Sent
<1>2. QueueIs'
  BY <1>1 DEF IInv, QueueIs
<1>3. SendingIs'
  BY <1>1 DEF IInv, SendingIs
<1> QED
  BY <1>1, <1>2, <1>3

\* Taking n bytes moves on within the message or, with its last byte, to the next one.
LEMMA WireTaken ==
  ASSUME IInv, UNCHANGED <<queue, sending, accepted>>,
         NEW n \in 0 .. Len(wire), wire' = SubSeq(wire, n + 1, Len(wire)),
         \/ Done' = Done /\ Read' = Read + n
         \/ Done < Sent /\ Done' = Done + 1 /\ Read' = 0 /\ Read + n = Total(Coming)
  PROVE  WireIs' /\ wire' \in Seq(Cell) /\ Len(wire') = Len(wire) - n
<1>1. PICK off : /\ Offsets(accepted, off)
                 /\ Carries(off, accepted, Sent, AvailableLength(sending), off[Done] + Read, wire)
  BY DEF IInv, WireIs
<1>2. accepted \in Seq(Msg) /\ wire \in Seq(Cell) /\ Len(wire) \in Nat
  BY DEF IInv, Types
<1>3. Sent \in 0 .. Len(accepted) /\ Done \in 0 .. Sent /\ Done \in Nat /\ Len(accepted) \in Nat
  BY Numbers
<1>4. AvailableLength(sending) \in Nat /\ Read \in Nat
  BY LeftIs, ReadRange
<1>5. Sent' = Sent /\ AvailableLength(sending') = AvailableLength(sending) /\ accepted' = accepted
  BY SenderSame
<1> DEFINE o == off[Done]
           r == Read
           at == o + r
           then == at + n
<1>6. o \in Nat
  <2>1. Done \in 0 .. Len(accepted)
    BY <1>3
  <2> QED
    BY <1>1, <2>1 DEF Offsets
<1>7. at \in Nat /\ then \in Nat /\ then = at + n
  BY <1>2, <1>4, <1>6
<1>8. Carries(off, accepted, Sent, AvailableLength(sending), at, wire)
  BY <1>1
<1> HIDE DEF then
<1>9. Carries(off, accepted, Sent, AvailableLength(sending), then, SubSeq(wire, n + 1, Len(wire)))
  <2> HIDE DEF at
  <2> QED
    BY <1>1, <1>2, <1>3, <1>4, <1>7, <1>8, CarriesRead
<1>10. then = off[Done'] + Read'
  <2>1. CASE Done' = Done /\ Read' = Read + n
    <3>1. off[Done'] = o
      BY <2>1
    <3> HIDE DEF o
    <3>2. Read' = r + n
      BY <2>1
    <3> HIDE DEF r
    <3>3. r \in Nat /\ n \in Nat
      BY <1>2, <1>4 DEF r
    <3> QED
      BY <1>6, <3>1, <3>2, <3>3 DEF then
  <2>2. CASE Done < Sent /\ Done' = Done + 1 /\ Read' = 0 /\ Read + n = Total(Coming)
    <3> DEFINE t == Total(Coming)
               k == Done + 1
    <3>1. k \in 1 .. Len(accepted) /\ k - 1 = Done
      BY <1>3, <2>2
    <3>2. off[k] = off[k - 1] + Total(accepted[k])
      BY <1>1, <3>1 DEF Offsets
    <3>3. off[k] = o + t
      BY <3>1, <3>2 DEF Coming
    <3>4. Coming \in Msg
      BY <2>2, Numbers
    <3>5. t \in Nat
      BY <3>4, MsgFacts
    <3>6. r + n = t
      BY <2>2
    <3>7. off[Done'] = off[k] /\ Read' = 0
      BY <2>2
    <3> HIDE DEF o, t, r, k
    <3>8. r \in Nat /\ n \in Nat
      BY <1>2, <1>4 DEF r
    <3> DEFINE u == off[k]
    <3>9. u = o + t /\ off[Done'] = u
      BY <3>3, <3>7
    <3> HIDE DEF u
    <3>10. then = u
      BY <1>6, <3>5, <3>6, <3>8, <3>9 DEF then
    <3>11. u \in Nat
      BY <1>6, <3>5, <3>9
    <3> QED
      BY <3>7, <3>9, <3>10, <3>11
  <2> QED
    BY <2>1, <2>2
<1>11. Carries(off, accepted', Sent', AvailableLength(sending'), off[Done'] + Read', wire')
  BY <1>5, <1>9, <1>10
<1>12. WireIs'
  BY <1>1, <1>5, <1>11 DEF WireIs
<1>13. wire' \in Seq(Cell) /\ Len(wire') = Len(wire) - n
  BY <1>2
<1> QED
  BY <1>12, <1>13

LEMMA CloseKeeps == ASSUME IInv, Close PROVE IInv'
<1>1. /\ eof' = TRUE /\ edge' = TRUE
      /\ UNCHANGED <<queue, sending, wire, accepted, running, rcvState, header, payload,
                     m_header, lost,
                     delivered, broken>>
  BY DEF Close, rcvVars, sndVars
<1>2. QueueIs' /\ SendingIs' /\ Sent' = Sent /\ AvailableLength(sending') = AvailableLength(sending)
  BY <1>1, SenderSame
<1>3. DeliveredIs' /\ HeaderBufferIs' /\ PayloadBufferIs' /\ LostIs' /\ Done' = Done /\ Read' = Read
  <2>1. Sent <= Sent' /\ Sent' \in Nat
    BY <1>2, Numbers
  <2>2. \A i \in 1 .. Sent : accepted'[i] = accepted[i]
    BY <1>1
  <2> QED
    BY <1>1, <2>1, <2>2, ReceiverSame
<1>4. Types'
  BY <1>1 DEF IInv, Types
<1>5. WireIs'
  <2>1. PICK off : /\ Offsets(accepted, off)
                   /\ Carries(off, accepted, Sent, AvailableLength(sending), off[Done] + Read, wire)
    BY DEF IInv, WireIs
  <2>2. Carries(off, accepted', Sent', AvailableLength(sending'), off[Done'] + Read', wire')
    BY <1>1, <1>2, <1>3, <2>1
  <2> QED
    BY <1>1, <2>1, <2>2 DEF WireIs
<1>6. EndIs'
  BY <1>1 DEF IInv, EndIs, BreaksOnlyAtEnd, NoDataForgotten
<1> QED
  BY <1>2, <1>3, <1>4, <1>5, <1>6 DEF IInv

LEMMA EventWaitKeeps == ASSUME IInv, EventWait PROVE IInv'
<1>1. /\ ~ running /\ ~ broken /\ edge' = FALSE /\ running' = (wire # <<>> \/ eof)
      /\ UNCHANGED <<queue, sending, wire, eof, accepted, rcvState, header, payload, m_header, lost,
                     delivered, broken>>
  BY DEF EventWait, sndVars
<1>2. QueueIs' /\ SendingIs' /\ Sent' = Sent /\ AvailableLength(sending') = AvailableLength(sending)
  BY <1>1, SenderSame
<1>3. DeliveredIs' /\ HeaderBufferIs' /\ PayloadBufferIs' /\ LostIs' /\ Done' = Done /\ Read' = Read
  <2>1. Sent <= Sent' /\ Sent' \in Nat
    BY <1>2, Numbers
  <2>2. \A i \in 1 .. Sent : accepted'[i] = accepted[i]
    BY <1>1
  <2> QED
    BY <1>1, <2>1, <2>2, ReceiverSame
<1>4. Types'
  <2>1. (wire # <<>> \/ eof) \in BOOLEAN
    BY Zenon
  <2>2. running' \in BOOLEAN
    BY <1>1, <2>1, Zenon
  <2> QED
    BY <1>1, <2>2 DEF IInv, Types
<1>5. WireIs'
  <2>1. PICK off : /\ Offsets(accepted, off)
                   /\ Carries(off, accepted, Sent, AvailableLength(sending), off[Done] + Read, wire)
    BY DEF IInv, WireIs
  <2>2. Carries(off, accepted', Sent', AvailableLength(sending'), off[Done'] + Read', wire')
    BY <1>1, <1>2, <1>3, <2>1
  <2> QED
    BY <1>1, <2>1, <2>2 DEF WireIs
<1>6. EndIs'
  <2>1. running' => wire' # <<>> \/ eof'
    BY <1>1, Zenon
  <2>2. ~ running' => wire' = <<>>
    BY <1>1, Zenon
  <2>3. ~ broken'
    BY <1>1
  <2> QED
    BY <2>1, <2>2, <2>3, Zenon DEF EndIs, BreaksOnlyAtEnd, NoDataForgotten
<1> QED
  BY <1>2, <1>3, <1>4, <1>5, <1>6 DEF IInv
\* A read for the header finds a new buffer or the part that has come, and asks for the rest.
LEMMA HeaderAsks ==
  ASSUME IInv, ForHeader
  PROVE  /\ Begun(HeaderBuffer, Coming, 0, Read, HeaderSize) /\ Asked = HeaderSize - Read
         /\ Proper(HeaderBuffer) /\ Len(HeaderBuffer.data) = HeaderSize
         /\ PayloadBuffer = payload /\ Lost = lost
<1>1. HeaderSize \in Nat /\ HeaderSize > 0
  BY FieldSize DEF HeaderSize
<1>2. PayloadBuffer = payload /\ Lost = lost
  BY DEF ForHeader, PayloadBuffer, Lost, Allocates
<1>3. Asked = Room(HeaderBuffer)
  BY DEF Asked
<1>4. CASE rcvState = "StartToRcvHeader"
  <2> DEFINE b == GetNewBuffer(HeaderSize, Blank(NoMsg))
  <2>1. Len(header.data) = HeaderSize
    BY DEF IInv, HeaderBufferIs
  <2>2. HeaderBuffer = b
    BY <1>4, <2>1, Zenon DEF HeaderBuffer, BZero
  <2>3. b.data \in Seq(Cell) /\ Len(b.data) = HeaderSize /\ b.available = FALSE /\ Inside(b)
            /\ TotalLength(b) = HeaderSize
    BY <1>1, FreshFacts
  <2>4. Read = 0
    BY <1>4 DEF Read
  <2>5. Begun(b, Coming, 0, Read, HeaderSize)
    BY <2>4, Zenon DEF Begun
  <2> HIDE DEF b
  <2>6. Room(b) = HeaderSize
    BY <1>4, <2>3 DEF Room
  <2>7. Proper(b)
    BY <2>3, Zenon DEF Proper
  <2>8. Asked = HeaderSize - Read
    BY <1>1, <1>3, <2>2, <2>4, <2>6
  <2> QED
    BY <1>2, <2>2, <2>3, <2>5, <2>7, <2>8
<1>5. CASE rcvState = "RcvingHeader"
  <2>1. HeaderBuffer = header /\ Read = header.last
    BY <1>5 DEF HeaderBuffer, Read
  <2>2. /\ Proper(header) /\ Len(header.data) = HeaderSize /\ Read \in 1 .. HeaderSize - 1
        /\ Part(header, Coming, 0, Read, HeaderSize)
    BY <1>5, <2>1 DEF IInv, HeaderBufferIs
  <2>3. Read \in Nat /\ Read > 0 /\ Read <= HeaderSize
    BY <1>1, <2>2
  <2>4. UnusedSize(header) = HeaderSize - Read
    BY <1>1, <2>2, <2>3, PartFacts
  <2>5. Room(header) = UnusedSize(header)
    BY <1>5 DEF Room
  <2>6. Begun(header, Coming, 0, Read, HeaderSize)
    BY <2>2, <2>3 DEF Begun
  <2> QED
    BY <1>2, <1>3, <2>1, <2>2, <2>4, <2>5, <2>6, Zenon
<1> QED
  BY <1>4, <1>5 DEF ForHeader

\* And a read for the payload.
LEMMA PayloadAsks ==
  ASSUME IInv, ~ ForHeader
  PROVE  /\ Begun(PayloadBuffer, Coming, HeaderSize, Read - HeaderSize, PayloadLen[Coming])
         /\ Asked = PayloadLen[Coming] - (Read - HeaderSize)
         /\ Proper(PayloadBuffer)
<1>1. /\ HeaderSize \in Nat /\ Done < Sent /\ Coming \in Msg /\ m_header.len = PayloadLen[Coming]
      /\ PayloadLen[Coming] \in Nat /\ PayloadLen[Coming] > 0
  BY ReadRange, MsgFacts
<1>2. rcvState \in {"StartToRcvPayload", "RcvingPayload"}
  BY DEF IInv, Types, ForHeader
<1>3. Asked = Room(PayloadBuffer)
  BY DEF Asked
<1> DEFINE size == PayloadLen[Coming]
           got == Read - HeaderSize
<1>4. CASE rcvState = "StartToRcvPayload"
  <2> DEFINE b == GetNewBuffer(size, Blank(NoMsg))
  <2>1. PayloadBuffer = b
    BY <1>1, <1>4, Zenon DEF PayloadBuffer, Allocates
  <2>2. Read = HeaderSize
    BY <1>4 DEF Read
  <2>3. got = 0
    BY <1>1, <2>2
  <2>4. b.data \in Seq(Cell) /\ Len(b.data) = size /\ b.available = FALSE /\ Inside(b)
            /\ TotalLength(b) = size
    BY <1>1, FreshFacts
  <2> HIDE DEF got
  <2>5. Begun(b, Coming, HeaderSize, got, size)
    BY <2>3, Zenon DEF Begun
  <2> HIDE DEF b
  <2>6. Room(b) = size
    BY <1>4, <2>4 DEF Room
  <2>7. Proper(b)
    BY <2>4, Zenon DEF Proper
  <2>8. Asked = size - got
    BY <1>1, <1>3, <2>1, <2>3, <2>6
  <2> QED
    BY <2>1, <2>5, <2>7, <2>8 DEF got
<1>5. CASE rcvState = "RcvingPayload"
  <2>1. PayloadBuffer = payload /\ Read = HeaderSize + payload.last
    BY <1>5 DEF PayloadBuffer, Allocates, Read
  <2>2. /\ Proper(payload) /\ payload.last \in 1 .. size - 1
        /\ Part(payload, Coming, HeaderSize, payload.last, size)
    BY <1>5 DEF IInv, PayloadBufferIs
  <2>3. got = payload.last
    BY <1>1, <2>1, <2>2
  <2> HIDE DEF got, size
  <2>4. got \in Nat /\ got > 0 /\ got <= size /\ size \in Nat
    BY <1>1, <2>2, <2>3 DEF size
  <2>5. Part(payload, Coming, HeaderSize, got, size)
    BY <2>2, <2>3
  <2>6. UnusedSize(payload) = size - got
    BY <2>4, <2>5, PartFacts
  <2>7. Room(payload) = UnusedSize(payload)
    BY <1>5 DEF Room
  <2>8. Begun(payload, Coming, HeaderSize, got, size)
    BY <2>4, <2>5 DEF Begun
  <2> QED
    BY <1>3, <2>1, <2>2, <2>6, <2>7, <2>8, Zenon DEF got, size
<1> QED
  BY <1>2, <1>4, <1>5

\* Every read asks for something.
LEMMA SomethingAsked == ASSUME IInv PROVE Asked \in Nat /\ Asked > 0
<1>1. CASE ForHeader
  <2>1. HeaderSize \in Nat /\ Read \in Nat /\ Read < HeaderSize
    BY <1>1, ReadRange, FieldSize DEF HeaderSize
  <2> QED
    BY <1>1, <2>1, HeaderAsks
<1>2. CASE ~ ForHeader
  <2> DEFINE got == Read - HeaderSize
             size == PayloadLen[Coming]
  <2>1. got \in 0 .. size - 1 /\ Coming \in Msg
    BY <1>2, ReadRange
  <2>2. size \in Nat
    BY <2>1, MsgFacts
  <2>3. Asked = size - got
    BY <1>2, PayloadAsks
  <2> HIDE DEF got, size
  <2> QED
    BY <2>1, <2>2, <2>3
<1> QED
  BY <1>1, <1>2

\* It gets what there is, and leaves nothing unread if that is less.
LEMMA GotIs ==
  ASSUME IInv
  PROVE  /\ Got \in 0 .. Len(wire) /\ Got <= Asked
         /\ Got > 0 <=> wire # <<>>
         /\ Got < Asked => SubSeq(wire, Got + 1, Len(wire)) = <<>>
<1>1. wire \in Seq(Cell) /\ Len(wire) \in Nat /\ (Len(wire) > 0 <=> wire # <<>>)
  BY DEF IInv, Types
<1>2. Asked \in Nat /\ Asked > 0
  BY SomethingAsked
<1>3. Got \in 0 .. Len(wire) /\ Got <= Asked /\ (Got > 0 <=> wire # <<>>)
          /\ (Got < Asked => Got = Len(wire))
  BY <1>1, <1>2 DEF Got
<1>4. SubSeq(wire, Len(wire) + 1, Len(wire)) = <<>>
  BY <1>1
<1> QED
  BY <1>3, <1>4, Zenon
LEMMA HeaderType ==
  ASSUME NEW m \in Msg
        PROVE Header(m) \in [magic : 0 .. UIntMax, id : 0 .. UIntMax, len : 0 .. UIntMax]
<1>1. UIntMax \in Nat
  <2>1. FieldBytes \in 0 .. FieldBytes
    BY FieldSize
  <2>2. Values[FieldBytes] \in Nat \ {0}
    BY <2>1, ValuesSteps
  <2> QED
    BY <2>2 DEF UIntMax
<1>2. Magic \in 0 .. UIntMax
  BY Lengths
<1>3. MsgId[m] \in 0 .. UIntMax
  <2>1. MsgId[m] \in 1 .. UIntMax - 1
    BY Lengths
  <2> QED
    BY <1>1, <2>1
<1>4. PayloadLen[m] \in 0 .. UIntMax
  <2>1. PayloadLen[m] \in 1 .. MaxPayload /\ MaxPayload \in 1 .. UIntMax
    BY Lengths
  <2> QED
    BY <1>1, <2>1
<1> HIDE DEF UIntMax
<1> QED
  BY <1>2, <1>3, <1>4 DEF Header

\* A whole header in the buffer is the header of its message.
LEMMA WholeHeader ==
  ASSUME NEW m \in Msg, NEW b, Part(b, m, 0, HeaderSize, HeaderSize)
  PROVE  HeaderOf(b) = Header(m) /\ DecodeMsgHeader(b)
<1>1. PICK d \in Seq(Cell) : /\ b = Buf(d, 1, HeaderSize, Yes)
                             /\ \A i \in 1 .. HeaderSize : d[i] = CellOf(m, 0 + i)
  BY DEF Part
<1>2. \A i \in 1 .. HeaderSize : d[i] = CellOf(m, i)
  BY <1>1
<1>3. HeaderOf(Buf(d, 1, HeaderSize, Yes)) = Header(m)
          /\ DecodeMsgHeader(Buf(d, 1, HeaderSize, Yes))
  BY <1>2, HeaderIs
<1> QED
  BY <1>1, <1>3, Zenon

\* What a read for the header leaves in the buffer.
LEMMA HeaderRead ==
  ASSUME IInv, ForHeader, Got > 0
  PROVE  LET b == ReadInto(HeaderBuffer, Got)
         IN  /\ Done < Sent /\ Coming \in Msg /\ Read + Got \in 1 .. HeaderSize
             /\ Part(b, Coming, 0, Read + Got, HeaderSize)
             /\ Proper(b) /\ Len(b.data) = HeaderSize /\ b.last = Read + Got
             /\ AvailableLength(b) = Read + Got /\ TotalLength(b) = HeaderSize
<1> DEFINE b == ReadInto(HeaderBuffer, Got)
           n == Got
           r == Read
           size == HeaderSize
<1>1. wire # <<>> /\ n \in 0 .. Len(wire) /\ n <= Asked /\ n > 0
  BY GotIs
<1>2. Done < Sent /\ Coming \in Msg
  BY <1>1, WireContinues
<1>3. \A i \in 1 .. Len(wire) : r + i <= Total(Coming) => wire[i] = CellOf(Coming, r + i)
  BY <1>1, WireContinues
<1>4. Begun(HeaderBuffer, Coming, 0, r, size) /\ Asked = size - r /\ r \in Nat /\ size \in Nat
  BY HeaderAsks, ReadRange, FieldSize DEF HeaderSize
<1>5. wire \in Seq(Cell) /\ Len(wire) \in Nat
  BY DEF IInv, Types
<1>6. Total(Coming) \in Nat /\ size <= Total(Coming)
  BY <1>2, MsgFacts
<1> HIDE DEF n, r, size
<1>7. n \in Nat /\ r + n <= size /\ n <= Len(wire) /\ r + n \in 1 .. size /\ r + n \in Nat
          /\ r + n > 0
  BY <1>1, <1>4, <1>5
<1>8. ASSUME NEW i \in 1 .. n PROVE wire[i] = CellOf(Coming, 0 + r + i)
  <2> DEFINE t == Total(Coming)
  <2>1. t \in Nat /\ size <= t
    BY <1>6
  <2> HIDE DEF t
  <2>2. i \in 1 .. Len(wire) /\ r + i <= t /\ 0 + r + i = r + i
    BY <1>4, <1>5, <1>7, <2>1
  <2> QED
    BY <1>3, <2>2 DEF t
<1>9. Part(ReadInto(HeaderBuffer, n), Coming, 0, r + n, size)
  BY <1>1, <1>4, <1>5, <1>7, <1>8, PartRead
<1>10. Part(b, Coming, 0, r + n, size)
  BY <1>9 DEF n
<1> HIDE DEF b
<1> DEFINE got == r + n
<1>11. got \in Nat /\ got > 0 /\ got <= size
  BY <1>7
<1>12. Part(b, Coming, 0, got, size)
  BY <1>10
<1> HIDE DEF got
<1>13. /\ b.data \in Seq(Cell) /\ Len(b.data) = size /\ b.last = got /\ b.available = TRUE
       /\ Inside(b) /\ TotalLength(b) = size /\ AvailableLength(b) = got
  BY <1>4, <1>11, <1>12, PartFacts
<1>14. Proper(b)
  BY <1>13, Zenon DEF Proper
<1> QED
  BY <1>2, <1>7, <1>10, <1>13, <1>14 DEF b, n, r, size, got

LEMMA ReadHeaderKeeps == ASSUME IInv, ReadHeader PROVE IInv'
<1> DEFINE b == ReadInto(HeaderBuffer, Got)
           short == AvailableLength(b) # TotalLength(b)
<1>1. /\ running /\ ForHeader /\ Got > 0
      /\ wire' = SubSeq(wire, Got + 1, Len(wire))
      /\ header' = b
      /\ IF short
         THEN rcvState' = "RcvingHeader" /\ running' = FALSE /\ UNCHANGED broken
         ELSE IF DecodeMsgHeader(b)
         THEN rcvState' = "StartToRcvPayload" /\ UNCHANGED <<running, broken>>
         ELSE broken' = TRUE /\ running' = FALSE /\ UNCHANGED rcvState
      /\ m_header' = (IF AvailableLength(b) = TotalLength(b) THEN HeaderOf(b) ELSE m_header)
      /\ UNCHANGED <<queue, sending, eof, edge, payload, lost, accepted, delivered>>
  BY Zenon DEF ReadHeader, sndVars
<1>2. /\ Done < Sent /\ Coming \in Msg /\ Read + Got \in 1 .. HeaderSize
      /\ Part(b, Coming, 0, Read + Got, HeaderSize)
      /\ Proper(b) /\ Len(b.data) = HeaderSize /\ b.last = Read + Got
      /\ AvailableLength(b) = Read + Got /\ TotalLength(b) = HeaderSize
  BY <1>1, HeaderRead
<1>3. HeaderSize \in Nat /\ HeaderSize > 0 /\ Read \in Nat /\ Asked = HeaderSize - Read
  BY <1>1, HeaderAsks, ReadRange, FieldSize DEF HeaderSize
<1>4. Got \in 0 .. Len(wire) /\ (Got < Asked => wire' = <<>>)
  BY <1>1, GotIs
<1> HIDE DEF b
<1>5. QueueIs' /\ SendingIs' /\ Sent' = Sent
  BY <1>1, SenderSame
<1>6. Done' = Done /\ Coming' = Coming
  <2>1. Done' = Done
    BY <1>1 DEF Done
  <2> QED
    BY <1>1, <2>1 DEF Coming
<1>7. ~ broken /\ payload = NoBuffer /\ lost <= Done /\ Done \in Nat /\ lost \in Nat
          /\ rcvState \in {"StartToRcvHeader", "RcvingHeader"}
  <2>1. ~ broken /\ payload = NoBuffer /\ rcvState \in {"StartToRcvHeader", "RcvingHeader"}
    BY <1>1 DEF IInv, EndIs, PayloadBufferIs, ForHeader
  <2>2. lost <= Done + 0 /\ Done \in Nat /\ lost \in Nat
    BY <2>1, Numbers DEF IInv, LostIs, Types
  <2> QED
    BY <2>1, <2>2
<1>8. CASE short
  <2>1. Read + Got # HeaderSize
    BY <1>2, <1>8
  <2>2. Read + Got \in 1 .. HeaderSize - 1 /\ Got < Asked
    <3>1. Got \in Int
      BY <1>2, <1>4
    <3> QED
      BY <1>2, <1>3, <2>1, <3>1
  <2>3. /\ rcvState' = "RcvingHeader" /\ running' = FALSE /\ broken' = broken
            /\ m_header' = m_header
        /\ wire' = <<>>
    BY <1>1, <1>4, <1>8, <2>2, Zenon
  <2>4. Read' = Read + Got
    BY <1>1, <1>2, <2>3 DEF Read
  <2>5. WireIs' /\ wire' \in Seq(Cell) /\ Len(wire') = Len(wire) - Got
    BY <1>1, <1>4, <1>6, <2>4, WireTaken
  <2>6. Types'
    <3>1. Len(wire') <= Cap
      <4>1. Len(wire') = 0 /\ Cap \in Nat
        BY <2>3, Capacity
      <4> QED
        BY <4>1
    <3> QED
      BY <1>1, <2>3, <2>5, <3>1 DEF IInv, Types
  <2>7. DeliveredIs'
    BY <1>1, <1>2, <1>5, <1>6 DEF IInv, DeliveredIs
  <2>8. HeaderBufferIs'
    <3>1. Part(header', Coming', 0, header'.last, HeaderSize)
      BY <1>1, <1>2, <1>6, Zenon
    <3>2. Proper(header)' /\ Len(header'.data) = HeaderSize /\ header'.last \in 1 .. HeaderSize - 1
      BY <1>1, <1>2, <2>2 DEF Proper
    <3> QED
      BY <3>1, <3>2, Zenon DEF HeaderBufferIs
  <2>9. PayloadBufferIs'
    <3>1. Proper(payload)'
      BY <1>1 DEF IInv, PayloadBufferIs, Proper
    <3> QED
      BY <1>1, <1>7, <2>3, <3>1 DEF PayloadBufferIs, ForHeader
  <2>10. LostIs'
    <3>1. lost' <= Done' + 0 /\ lost' <= Done' + 1
      BY <1>1, <1>6, <1>7
    <3> QED
      BY <3>1, Zenon DEF LostIs
  <2>11. EndIs'
    BY <1>1, <1>7, <2>3 DEF EndIs, BreaksOnlyAtEnd, NoDataForgotten
  <2> QED
    BY <1>5, <2>5, <2>6, <2>7, <2>8, <2>9, <2>10, <2>11 DEF IInv
<1>9. CASE ~ short
  <2>1. Read + Got = HeaderSize
    BY <1>2, <1>9
  <2>2. Part(b, Coming, 0, HeaderSize, HeaderSize)
    BY <1>2, <2>1
  <2>3. HeaderOf(b) = Header(Coming) /\ DecodeMsgHeader(b)
    BY <1>2, <2>2, WholeHeader
  <2>4. /\ rcvState' = "StartToRcvPayload" /\ running' = running /\ broken' = broken
        /\ m_header' = Header(Coming)
    BY <1>1, <1>9, <2>3, Zenon
  <2>5. Read' = Read + Got
    BY <2>1, <2>4 DEF Read
  <2>6. WireIs' /\ wire' \in Seq(Cell) /\ Len(wire') = Len(wire) - Got
    BY <1>1, <1>4, <1>6, <2>5, WireTaken
  <2>7. Types'
    <3>1. Len(wire') <= Cap
      <4>1. Len(wire) \in Nat /\ Len(wire) <= Cap /\ Cap \in Nat
        BY Capacity DEF IInv, Types
      <4> QED
        BY <1>4, <2>6, <4>1
    <3>2. m_header' \in [magic : 0 .. UIntMax, id : 0 .. UIntMax, len : 0 .. UIntMax]
      BY <1>2, <2>4, HeaderType
    <3> QED
      BY <1>1, <2>4, <2>6, <3>1, <3>2 DEF IInv, Types
  <2>8. DeliveredIs'
    BY <1>1, <1>2, <1>5, <1>6 DEF IInv, DeliveredIs
  <2>9. HeaderBufferIs'
    <3>1. Proper(header)' /\ Len(header'.data) = HeaderSize
      BY <1>1, <1>2 DEF Proper
    <3>2. rcvState' # "RcvingHeader"
      BY <2>4
    <3> QED
      BY <3>1, <3>2, Zenon DEF HeaderBufferIs
  <2>10. PayloadBufferIs'
    <3>1. Proper(payload)'
      BY <1>1 DEF IInv, PayloadBufferIs, Proper
    <3>2. m_header' = Header(Coming')
      BY <1>6, <2>4
    <3> QED
      BY <2>4, <3>1, <3>2 DEF PayloadBufferIs, ForHeader
  <2>11. LostIs'
    <3>1. lost' <= Done' + 0 /\ lost' <= Done' + 1
      BY <1>1, <1>6, <1>7
    <3> QED
      BY <3>1, Zenon DEF LostIs
  <2>12. EndIs'
    BY <1>1, <1>7, <2>4 DEF EndIs, BreaksOnlyAtEnd, NoDataForgotten
  <2> QED
    BY <1>5, <2>6, <2>7, <2>8, <2>9, <2>10, <2>11, <2>12 DEF IInv
<1> QED
  BY <1>8, <1>9
\* What a read for the payload leaves in the buffer.
LEMMA PayloadRead ==
  ASSUME IInv, ~ ForHeader, Got > 0
  PROVE  LET b == ReadInto(PayloadBuffer, Got)
             got == Read - HeaderSize + Got
         IN  /\ Done < Sent /\ Coming \in Msg /\ got \in 1 .. PayloadLen[Coming]
             /\ Part(b, Coming, HeaderSize, got, PayloadLen[Coming])
             /\ Proper(b) /\ b.last = got /\ AvailableLength(b) = got
<1> DEFINE b == ReadInto(PayloadBuffer, Got)
           n == Got
           h == HeaderSize
           r == Read - HeaderSize
           size == PayloadLen[Coming]
           t == Total(Coming)
           d == Read
<1>1. wire # <<>> /\ n \in 0 .. Len(wire) /\ n <= Asked /\ n > 0
  BY GotIs
<1>2. Done < Sent /\ Coming \in Msg
  BY <1>1, WireContinues
<1>3. \A i \in 1 .. Len(wire) : d + i <= t => wire[i] = CellOf(Coming, d + i)
  BY <1>1, WireContinues
<1>4. Begun(PayloadBuffer, Coming, h, r, size) /\ Asked = size - r
  BY PayloadAsks
<1>5. wire \in Seq(Cell) /\ Len(wire) \in Nat
  BY DEF IInv, Types
<1>6. h \in Nat /\ size \in Nat /\ r \in 0 .. size - 1 /\ d \in Nat
  BY <1>2, MsgFacts, ReadRange
<1>7. d = h + r /\ t = h + size
  <2>1. d = h + r
    BY <1>6
  <2>2. t = h + size
    BY DEF Total
  <2> QED
    BY <2>1, <2>2
<1> HIDE DEF n, h, r, size, t, d
<1>8. n \in Nat /\ r \in Nat /\ r + n <= size /\ n <= Len(wire) /\ r + n \in 1 .. size
  BY <1>1, <1>4, <1>5, <1>6
<1>9. ASSUME NEW i \in 1 .. n PROVE wire[i] = CellOf(Coming, h + r + i)
  <2>1. i \in 1 .. Len(wire) /\ d + i <= t /\ h + r + i = d + i
    BY <1>5, <1>6, <1>7, <1>8
  <2> QED
    BY <1>3, <2>1
<1>10. Part(ReadInto(PayloadBuffer, n), Coming, h, r + n, size)
  BY <1>1, <1>4, <1>5, <1>6, <1>8, <1>9, PartRead
<1> DEFINE got == r + n
<1>11. got \in Nat /\ got > 0 /\ got <= size /\ got \in 1 .. size
  BY <1>6, <1>8
<1>12. Part(b, Coming, h, got, size)
  BY <1>10 DEF n
<1> HIDE DEF b, got
<1>13. b.data \in Seq(Cell) /\ b.last = got /\ b.available = TRUE /\ Inside(b)
           /\ AvailableLength(b) = got
  BY <1>6, <1>11, <1>12, PartFacts
<1>14. Proper(b)
  BY <1>13, Zenon DEF Proper
<1> QED
  BY <1>2, <1>11, <1>12, <1>13, <1>14, Zenon DEF b, n, h, r, size, got

\* A whole payload in the buffer is that of one message only.
LEMMA WholePayload ==
  ASSUME NEW m \in Msg, NEW b, Part(b, m, HeaderSize, PayloadLen[m], PayloadLen[m]),
           NEW x \in Message(b)
  PROVE  x = m
<1>1. PayloadLen[m] \in Nat /\ PayloadLen[m] >= 1 /\ x \in Msg /\ PayloadLen[x] \in Nat
          /\ PayloadLen[x] >= 1
  BY MsgFacts DEF Message
<1>2. b.data[1] = CellOf(m, HeaderSize + 1)
  <2>1. PICK d \in Seq(Cell) : /\ b = Buf(d, 1, PayloadLen[m], Yes)
                               /\ \A i \in 1 .. PayloadLen[m] : d[i] = CellOf(m, HeaderSize + i)
    BY DEF Part
  <2>2. Buf(d, 1, PayloadLen[m], Yes).data = d
    BY BufFields
  <2>3. b.data = d
    BY <2>1, <2>2, Zenon
  <2>4. d[1] = CellOf(m, HeaderSize + 1)
    BY <1>1, <2>1
  <2> QED
    BY <2>3, <2>4
<1>3. b.data = [i \in 1 .. PayloadLen[x] |-> <<i % Base, x, HeaderSize + i>>]
  BY DEF Message
<1>4. b.data[1] = <<1 % Base, x, HeaderSize + 1>>
  BY <1>1, <1>3
<1>5. CellOf(m, HeaderSize + 1)[2] = m
  BY DEF CellOf
<1>6. <<1 % Base, x, HeaderSize + 1>>[2] = x
  OBVIOUS
<1> QED
  BY <1>2, <1>4, <1>5, <1>6, Zenon

LEMMA LostStays == ASSUME IInv, running
      PROVE Lost \in Nat /\ Lost <= Done + 1 /\ (ForHeader => Lost <= Done)
<1>1. ~ broken /\ lost \in Nat /\ Done \in Nat
  BY Numbers DEF IInv, EndIs, Types
<1>2. CASE rcvState = "RcvingPayload"
  <2>1. lost <= Done + 1 /\ Lost = lost /\ ~ ForHeader
    BY <1>2 DEF IInv, LostIs, Lost, Allocates, ForHeader
  <2> QED
    BY <1>1, <2>1
<1>3. CASE rcvState # "RcvingPayload"
  <2>1. lost <= Done + 0
    BY <1>1, <1>3, Zenon DEF IInv, LostIs
  <2>2. Lost = lost \/ Lost = lost + 1
    BY DEF Lost
  <2>3. ForHeader => Lost = lost
    BY DEF ForHeader, Lost, Allocates
  <2> QED
    BY <1>1, <2>1, <2>2, <2>3
<1> QED
  BY <1>2, <1>3

LEMMA ReadPayloadKeeps == ASSUME IInv, ReadPayload PROVE IInv'
<1> DEFINE b == ReadInto(PayloadBuffer, Got)
           short == AvailableLength(b) # m_header.len
           size == PayloadLen[Coming]
           got == Read - HeaderSize + Got
<1>1. /\ running /\ ~ ForHeader /\ Got > 0
      /\ wire' = SubSeq(wire, Got + 1, Len(wire))
      /\ IF short
         THEN /\ rcvState' = "RcvingPayload" /\ running' = FALSE /\ payload' = b
              /\ UNCHANGED delivered
         ELSE /\ rcvState' = "StartToRcvHeader" /\ payload' = NoBuffer
              /\ \E m \in Message(b) : delivered' = Append(delivered, m)
              /\ UNCHANGED running
      /\ lost' = Lost
      /\ UNCHANGED <<queue, sending, eof, edge, header, m_header, accepted, broken>>
  BY Zenon DEF ReadPayload, sndVars
<1>2. /\ Done < Sent /\ Coming \in Msg /\ got \in 1 .. size
      /\ Part(b, Coming, HeaderSize, got, size)
      /\ Proper(b) /\ b.last = got /\ AvailableLength(b) = got
  BY <1>1, PayloadRead
<1>3. /\ HeaderSize \in Nat /\ Read \in Nat /\ size \in Nat /\ Asked = size - (Read - HeaderSize)
      /\ m_header = Header(Coming) /\ m_header.len = size
  BY <1>1, <1>2, PayloadAsks, ReadRange, MsgFacts
<1>4. Got \in 0 .. Len(wire) /\ Got \in Int /\ (Got < Asked => wire' = <<>>)
  <2>1. Got \in 0 .. Len(wire) /\ (Got < Asked => wire' = <<>>)
    BY <1>1, GotIs
  <2> QED
    BY <2>1
<1>5. QueueIs' /\ SendingIs' /\ Sent' = Sent
  BY <1>1, SenderSame
<1>6. /\ ~ broken /\ Done \in Nat /\ lost' \in Nat /\ lost' <= Done + 1
      /\ delivered \in Seq(Msg) /\ Sent \in Nat /\ Sent <= Len(accepted) /\ Len(accepted) \in Nat
  BY <1>1, LostStays, Numbers DEF IInv, EndIs, Types
<1>7. got + HeaderSize = Read + Got
  BY <1>3, <1>4
<1> HIDE DEF b, size, got
<1>8. CASE short
  <2>1. got # size
    BY <1>2, <1>3, <1>8
  <2>2. got \in 1 .. size - 1 /\ Got < Asked
    <3>1. got \in 1 .. size - 1
      BY <1>2, <1>3, <2>1
    <3>2. Got < Asked
      BY <1>3, <1>4, <1>7, <3>1
    <3> QED
      BY <3>1, <3>2
  <2>3. /\ rcvState' = "RcvingPayload" /\ running' = FALSE /\ payload' = b /\ delivered' = delivered
        /\ wire' = <<>>
    BY <1>1, <1>4, <1>8, <2>2, Zenon
  <2>4. Done' = Done /\ Coming' = Coming
    <3>1. Done' = Done
      BY <2>3 DEF Done
    <3> QED
      BY <1>1, <3>1 DEF Coming
  <2>5. Read' = Read + Got
    <3>1. Read' = HeaderSize + payload'.last
      BY <2>3 DEF Read
    <3>2. payload'.last = got
      BY <1>2, <2>3
    <3> QED
      BY <1>2, <1>3, <1>7, <3>1, <3>2
  <2>6. WireIs' /\ wire' \in Seq(Cell) /\ Len(wire') = Len(wire) - Got
    BY <1>1, <1>4, <2>4, <2>5, WireTaken
  <2>7. Types'
    <3>1. Len(wire') <= Cap
      <4>1. Len(wire') = 0 /\ Cap \in Nat
        BY <2>3, Capacity
      <4> QED
        BY <4>1
    <3> QED
      BY <1>1, <1>6, <2>3, <2>6, <3>1 DEF IInv, Types
  <2>8. DeliveredIs'
    BY <1>1, <1>2, <1>5, <2>3, <2>4 DEF IInv, DeliveredIs
  <2>9. HeaderBufferIs'
    <3>1. Proper(header)' /\ Len(header'.data) = HeaderSize
      BY <1>1 DEF IInv, HeaderBufferIs, Proper
    <3> QED
      BY <2>3, <3>1 DEF HeaderBufferIs
  <2>10. PayloadBufferIs'
    <3>1. Proper(payload)'
      BY <1>2, <2>3 DEF Proper
    <3>2. m_header' = Header(Coming')
      BY <1>1, <1>3, <2>4
    <3>3. /\ payload'.last \in 1 .. PayloadLen[Coming'] - 1
          /\ Part(payload', Coming', HeaderSize, payload'.last, PayloadLen[Coming'])
      BY <1>2, <2>2, <2>3, <2>4, Zenon DEF size
    <3>4. ~ ForHeader'
      BY <2>3 DEF ForHeader
    <3> QED
      BY <3>1, <3>2, <3>3, <3>4, Zenon DEF PayloadBufferIs
  <2>11. LostIs'
    BY <1>6, <2>3, <2>4, Zenon DEF LostIs
  <2>12. EndIs'
    BY <1>1, <1>6, <2>3 DEF EndIs, BreaksOnlyAtEnd, NoDataForgotten
  <2> QED
    BY <1>5, <2>6, <2>7, <2>8, <2>9, <2>10, <2>11, <2>12 DEF IInv
<1>9. CASE ~ short
  <2>1. got = size
    BY <1>2, <1>3, <1>9
  <2>2. Part(b, Coming, HeaderSize, size, size)
    BY <1>2, <2>1
  <2>3. /\ rcvState' = "StartToRcvHeader" /\ payload' = NoBuffer /\ running' = running
        /\ \E m \in Message(b) : delivered' = Append(delivered, m)
    BY <1>1, <1>9, Zenon
  <2>4. delivered' = Append(delivered, Coming)
    <3>1. PICK m \in Message(b) : delivered' = Append(delivered, m)
      BY <2>3
    <3>2. m = Coming
      BY <1>2, <2>2, WholePayload DEF size
    <3> QED
      BY <3>1, <3>2
  <2>5. /\ delivered' \in Seq(Msg) /\ Done' = Done + 1
        /\ \A i \in 1 .. Done : delivered'[i] = delivered[i]
        /\ delivered'[Done + 1] = Coming
    BY <1>2, <1>6, <2>4 DEF Done
  <2>6. Read' = 0
    BY <2>3 DEF Read
  <2>7. Read + Got = Total(Coming)
    BY <1>3, <1>7, <2>1 DEF Total, size
  <2>8. WireIs' /\ wire' \in Seq(Cell) /\ Len(wire') = Len(wire) - Got
    BY <1>1, <1>2, <1>4, <2>5, <2>6, <2>7, WireTaken
  <2>9. Types'
    <3>1. Len(wire') <= Cap
      <4>1. Len(wire) \in Nat /\ Len(wire) <= Cap /\ Cap \in Nat
        BY Capacity DEF IInv, Types
      <4> QED
        BY <1>4, <2>8, <4>1
    <3> QED
      BY <1>1, <1>6, <2>3, <2>5, <2>8, <3>1 DEF IInv, Types
  <2>10. DeliveredIs'
    <3>1. Done' <= Sent'
      BY <1>2, <1>5, <1>6, <2>5
    <3>2. ASSUME NEW i \in 1 .. Done + 1 PROVE delivered'[i] = accepted'[i]
      <4>1. CASE i = Done + 1
        BY <1>1, <2>5, <4>1 DEF Coming
      <4>2. CASE i \in 1 .. Done
        BY <1>1, <2>5, <4>2 DEF IInv, DeliveredIs
      <4> QED
        BY <1>6, <4>1, <4>2
    <3> QED
      BY <2>3, <2>5, <3>1, <3>2 DEF DeliveredIs
  <2>11. HeaderBufferIs'
    <3>1. Proper(header)' /\ Len(header'.data) = HeaderSize
      BY <1>1 DEF IInv, HeaderBufferIs, Proper
    <3> QED
      BY <2>3, <3>1 DEF HeaderBufferIs
  <2>12. PayloadBufferIs'
    <3>1. Proper(NoBuffer)
      BY NoBufferFacts, Zenon DEF Proper
    <3>2. Proper(payload)'
      BY <2>3, <3>1 DEF Proper
    <3> QED
      BY <2>3, <3>2 DEF PayloadBufferIs, ForHeader
  <2>13. LostIs'
    <3>1. lost' <= Done' + 0 /\ lost' <= Done' + 1
      BY <1>6, <2>5
    <3> QED
      BY <3>1, Zenon DEF LostIs
  <2>14. EndIs'
    BY <1>1, <1>6, <2>3 DEF EndIs, BreaksOnlyAtEnd, NoDataForgotten
  <2> QED
    BY <1>5, <2>8, <2>9, <2>10, <2>11, <2>12, <2>13, <2>14 DEF IInv
<1> QED
  BY <1>8, <1>9
\* A read without data changes no more than the buffer it would have filled.
LEMMA NothingReadKeeps ==
  ASSUME IInv, running, NothingRead,
         UNCHANGED <<queue, sending, wire, eof, edge, rcvState, m_header, accepted, delivered>>
  PROVE  /\ QueueIs' /\ SendingIs' /\ DeliveredIs' /\ HeaderBufferIs' /\ PayloadBufferIs' /\ WireIs'
         /\ Done' = Done /\ lost' = Lost /\ lost' \in Nat
<1>1. QueueIs' /\ SendingIs' /\ Sent' = Sent
  BY SenderSame
<1>2. Done' = Done /\ Coming' = Coming
  <2>1. Done' = Done
    BY DEF Done
  <2> QED
    BY <2>1 DEF Coming
<1>3. /\ header' = (IF ForHeader THEN HeaderBuffer ELSE header)
      /\ payload' = PayloadBuffer /\ lost' = Lost /\ lost' \in Nat
  BY LostStays DEF NothingRead
<1>4. ForHeader' <=> ForHeader
  BY DEF ForHeader
<1>5. DeliveredIs'
  BY <1>1, <1>2 DEF IInv, DeliveredIs
<1>6. rcvState = "RcvingHeader" => header' = header
  BY <1>3 DEF HeaderBuffer
<1>7. rcvState = "RcvingPayload" => payload' = payload
  BY <1>3 DEF PayloadBuffer, Allocates
<1>8. Read' = Read
  BY <1>6, <1>7 DEF Read, IInv, Types
<1>9. HeaderBufferIs'
  <2>1. Proper(header') /\ Len(header'.data) = HeaderSize
    <3>1. CASE ForHeader
      <4>1. Proper(HeaderBuffer) /\ Len(HeaderBuffer.data) = HeaderSize
        BY <3>1, HeaderAsks
      <4> QED
        BY <1>3, <3>1, <4>1, Zenon
    <3>2. CASE ~ ForHeader
      <4>1. Proper(header) /\ Len(header.data) = HeaderSize
        BY DEF IInv, HeaderBufferIs
      <4> QED
        BY <1>3, <3>2, <4>1, Zenon
    <3> QED
      BY <3>1, <3>2
  <2>2. rcvState = "RcvingHeader" =>
          header'.last \in 1 .. HeaderSize - 1
              /\ Part(header', Coming', 0, header'.last, HeaderSize)
    BY <1>2, <1>6, Zenon DEF IInv, HeaderBufferIs
  <2> QED
    BY <2>1, <2>2 DEF HeaderBufferIs, Proper
<1>10. PayloadBufferIs'
  <2>1. Proper(payload') /\ (ForHeader => payload' = NoBuffer)
    <3>1. CASE ForHeader
      <4>1. Proper(payload) /\ payload = NoBuffer /\ PayloadBuffer = payload
        BY <3>1, HeaderAsks DEF IInv, PayloadBufferIs
      <4> QED
        BY <1>3, <4>1, Zenon
    <3>2. CASE ~ ForHeader
      <4>1. Proper(PayloadBuffer)
        BY <3>2, PayloadAsks
      <4> QED
        BY <1>3, <3>2, <4>1, Zenon
    <3> QED
      BY <3>1, <3>2
  <2>2. ~ ForHeader => m_header' = Header(Coming')
    BY <1>2 DEF IInv, PayloadBufferIs
  <2>3. rcvState = "RcvingPayload" =>
          /\ payload'.last \in 1 .. PayloadLen[Coming'] - 1
          /\ Part(payload', Coming', HeaderSize, payload'.last, PayloadLen[Coming'])
    BY <1>2, <1>7, Zenon DEF IInv, PayloadBufferIs
  <2> QED
    BY <1>4, <2>1, <2>2, <2>3 DEF PayloadBufferIs, Proper
<1>11. WireIs'
  <2>1. wire \in Seq(Cell) /\ 0 \in 0 .. Len(wire)
    BY DEF IInv, Types
  <2>2. wire' = SubSeq(wire, 0 + 1, Len(wire))
    BY <2>1
  <2>3. Read' = Read + 0
    BY <1>8, ReadRange
  <2> QED
    BY <1>2, <2>1, <2>2, <2>3, WireTaken
<1> QED
  BY <1>1, <1>2, <1>3, <1>5, <1>9, <1>10, <1>11

LEMMA ReadWouldBlockKeeps == ASSUME IInv, ReadWouldBlock PROVE IInv'
<1>1. /\ running /\ wire = <<>> /\ ~ eof /\ running' = FALSE /\ NothingRead
      /\ UNCHANGED <<queue, sending, wire, eof, edge, rcvState, m_header, accepted, delivered,
                     broken>>
  BY DEF ReadWouldBlock, WouldBlock, sndVars
<1>2. /\ QueueIs' /\ SendingIs' /\ DeliveredIs' /\ HeaderBufferIs' /\ PayloadBufferIs' /\ WireIs'
      /\ Done' = Done /\ lost' = Lost /\ lost' \in Nat
  BY <1>1, NothingReadKeeps
<1>3. ~ broken
  BY <1>1 DEF IInv, EndIs
<1>4. Types'
  BY <1>1, <1>2 DEF IInv, Types
<1>5. lost' = lost
  <2>1. ~ (rcvState = "StartToRcvPayload" /\ payload # NoBuffer)
    BY <1>1, Zenon DEF IInv, EndIs
  <2> QED
    BY <1>2, <2>1, Zenon DEF Lost, Allocates
<1>6. LostIs'
  BY <1>1, <1>2, <1>5 DEF IInv, LostIs
<1>7. EndIs'
  BY <1>1, <1>3 DEF EndIs, BreaksOnlyAtEnd, NoDataForgotten
<1> QED
  BY <1>2, <1>4, <1>6, <1>7 DEF IInv

LEMMA ReadAtEndKeeps == ASSUME IInv, ReadAtEnd PROVE IInv'
<1>1. /\ running /\ AtEnd /\ running' = FALSE /\ broken' = TRUE /\ NothingRead
      /\ UNCHANGED <<queue, sending, wire, eof, edge, rcvState, m_header, accepted, delivered>>
  BY DEF ReadAtEnd, sndVars
<1>2. /\ QueueIs' /\ SendingIs' /\ DeliveredIs' /\ HeaderBufferIs' /\ PayloadBufferIs' /\ WireIs'
      /\ Done' = Done /\ lost' = Lost /\ lost' \in Nat
  BY <1>1, NothingReadKeeps
<1>3. wire = <<>> /\ eof
  <2>1. Asked # 0
    BY SomethingAsked
  <2> QED
    BY <1>1, <2>1, Zenon DEF AtEnd
<1>4. Types'
  BY <1>1, <1>2 DEF IInv, Types
<1>5. LostIs'
  <2>1. lost' <= Done' + 1
    BY <1>1, <1>2, LostStays
  <2> QED
    BY <1>1, <2>1, Zenon DEF LostIs
<1>6. EndIs'
  BY <1>1, <1>3 DEF EndIs, BreaksOnlyAtEnd, NoDataForgotten
<1> QED
  BY <1>2, <1>4, <1>5, <1>6 DEF IInv

LEMMA NextKeeps == IInv /\ [Next]_vars => IInv'
<1> SUFFICES ASSUME IInv, [Next]_vars PROVE IInv'
  OBVIOUS
<1>1. ASSUME NEW m \in Msg, Push(m) PROVE IInv'
  BY <1>1, PushKeeps
<1>2. CASE Sender
  BY <1>2, PopAndEncodeKeeps, WriteKeeps DEF Sender
<1>3. CASE Close
  BY <1>3, CloseKeeps
<1>4. CASE Recv
  BY <1>4, EventWaitKeeps, ReadHeaderKeeps, ReadPayloadKeeps, ReadWouldBlockKeeps,
     ReadAtEndKeeps DEF Recv
<1>5. CASE UNCHANGED vars
  <2>1. UNCHANGED <<queue, sending, wire, eof, edge, running, rcvState, header, payload,
                    m_header, lost,
                    accepted, delivered, broken>>
    BY <1>5 DEF vars, sndVars, rcvVars
  <2>2. QueueIs' /\ SendingIs' /\ Sent' = Sent
            /\ AvailableLength(sending') = AvailableLength(sending)
    BY <2>1, SenderSame
  <2>3. DeliveredIs' /\ HeaderBufferIs' /\ PayloadBufferIs' /\ LostIs' /\ Done' = Done
            /\ Read' = Read
    <3>1. Sent <= Sent' /\ Sent' \in Nat
      BY <2>2, Numbers
    <3>2. \A i \in 1 .. Sent : accepted'[i] = accepted[i]
      BY <2>1
    <3> QED
      BY <2>1, <3>1, <3>2, ReceiverSame
  <2>4. Types' /\ EndIs'
    BY <2>1 DEF IInv, Types, EndIs, BreaksOnlyAtEnd, NoDataForgotten
  <2>5. WireIs'
    BY <2>1, <2>2, <2>3, Zenon DEF IInv, WireIs
  <2> QED
    BY <2>2, <2>3, <2>4, <2>5 DEF IInv
<1> QED
  BY <1>1, <1>2, <1>3, <1>4, <1>5 DEF Next

\* The invariant of the whole stream.
LEMMA StreamStays == Spec => []IInv
BY InitIInv, NextKeeps, PTL DEF Spec
-----------------------------------------------------------------------------
(* What the invariant says.                                                *)
LEMMA InvariantSays == IInv => StreamInv /\ NoDataForgotten
<1> SUFFICES ASSUME IInv PROVE StreamInv /\ NoDataForgotten
  OBVIOUS
<1>1. \A b \in {sending, header, payload} : b.data \in Seq(Cell) /\ b.available \in BOOLEAN
          /\ Inside(b)
  <2>1. Proper(sending) /\ Proper(header) /\ Proper(payload)
    BY LeftIs DEF IInv, HeaderBufferIs, PayloadBufferIs
  <2> QED
    BY <2>1, Zenon DEF Proper
<1>2. {eof, edge, running, broken} \subseteq BOOLEAN
  BY Zenon DEF IInv, Types
<1>3. StreamTypeOK
  BY <1>1, <1>2, Zenon DEF IInv, Types, StreamTypeOK
<1>4. OneBufferLostPerMessage
  <2>1. lost <= Done + 1
    <3>1. Done \in Nat /\ lost \in Nat
      BY Numbers DEF IInv, Types
    <3>2. lost <= Done + 0 \/ lost <= Done + 1
      BY Zenon DEF IInv, LostIs
    <3> QED
      BY <3>1, <3>2
  <2> QED
    BY <2>1 DEF OneBufferLostPerMessage, Done
<1>5. BreaksOnlyAtEnd /\ NoDataForgotten
  BY DEF IInv, EndIs
<1> QED
  BY <1>3, <1>4, <1>5 DEF StreamInv

\* Whatever the sizes of the pieces the stream comes in, the types hold, every cursor of a
\* buffer lies inside its memory, the connection breaks only at the end of what was
\* written, and no message costs two payload buffers (Recv, Send, SndMessage::Encode).
THEOREM StreamIsWhole == Spec => []StreamInv
BY StreamStays, InvariantSays, PTL

\* Recv never returns with unread bytes and no read event coming (PosixTcpNetStackWorker::
\* Recv under edge-triggered events).
THEOREM ReceiverForgetsNoData == Spec => []NoDataForgotten
BY StreamStays, InvariantSays, PTL

-----------------------------------------------------------------------------
(* The stream implements the channel.                                      *)
LEMMA InitIsChannelInit == Init => Channel!Init
BY Zenon DEF Init, Channel!Init

LEMMA PushAccepts == ASSUME NEW m \in Msg, Push(m) PROVE Channel!Accept(m)
BY DEF Push, rcvVars, Channel!Accept

\* What changes neither the messages nor the connection's state.
LEMMA Unseen ==
  ASSUME PopAndEncode \/ Write \/ Close \/ EventWait \/ ReadWouldBlock \/ UNCHANGED vars
  PROVE  UNCHANGED Channel!vars
BY DEF PopAndEncode, Write, Close, EventWait, ReadWouldBlock, vars, rcvVars, Channel!vars

\* A header never breaks the connection: it is one.
LEMMA ReadHeaderUnseen == ASSUME IInv, ReadHeader PROVE UNCHANGED Channel!vars
<1> DEFINE b == ReadInto(HeaderBuffer, Got)
<1>1. /\ ForHeader /\ Got > 0 /\ UNCHANGED <<accepted, delivered>>
      /\ IF AvailableLength(b) # TotalLength(b)
         THEN rcvState' = "RcvingHeader" /\ running' = FALSE /\ UNCHANGED broken
         ELSE IF DecodeMsgHeader(b)
         THEN rcvState' = "StartToRcvPayload" /\ UNCHANGED <<running, broken>>
         ELSE broken' = TRUE /\ running' = FALSE /\ UNCHANGED rcvState
  BY Zenon DEF ReadHeader
<1>2. /\ Coming \in Msg /\ Part(b, Coming, 0, Read + Got, HeaderSize)
      /\ AvailableLength(b) = Read + Got /\ TotalLength(b) = HeaderSize
  BY <1>1, HeaderRead
<1> HIDE DEF b
<1>3. CASE Read + Got = HeaderSize
  <2>1. Part(b, Coming, 0, HeaderSize, HeaderSize)
    BY <1>2, <1>3
  <2>2. DecodeMsgHeader(b)
    BY <1>2, <2>1, WholeHeader
  <2> QED
    BY <1>1, <2>2, Zenon DEF Channel!vars
<1>4. CASE Read + Got # HeaderSize
  BY <1>1, <1>2, <1>4, Zenon DEF Channel!vars
<1> QED
  BY <1>3, <1>4

\* A whole payload is that of the next message accepted.
LEMMA ReadPayloadDelivers == ASSUME IInv, ReadPayload
      PROVE Channel!Deliver \/ UNCHANGED Channel!vars
<1> DEFINE b == ReadInto(PayloadBuffer, Got)
           got == Read - HeaderSize + Got
<1>1. /\ running /\ ~ ForHeader /\ Got > 0 /\ UNCHANGED <<accepted, broken>>
      /\ IF AvailableLength(b) # m_header.len
         THEN delivered' = delivered
         ELSE \E m \in Message(b) : delivered' = Append(delivered, m)
  BY Zenon DEF ReadPayload
<1>2. /\ Done < Sent /\ Coming \in Msg
      /\ Part(b, Coming, HeaderSize, got, PayloadLen[Coming])
      /\ AvailableLength(b) = got
  BY <1>1, PayloadRead
<1>3. m_header.len = PayloadLen[Coming]
  BY <1>1, ReadRange
<1> HIDE DEF b, got
<1>4. CASE got # PayloadLen[Coming]
  BY <1>1, <1>2, <1>3, <1>4, Zenon DEF Channel!vars
<1>5. CASE got = PayloadLen[Coming]
  <2>1. PICK m \in Message(b) : delivered' = Append(delivered, m)
    BY <1>1, <1>2, <1>3, <1>5, Zenon
  <2>2. m = Coming
    BY <1>2, <1>5, WholePayload
  <2>3. ~ broken
    BY <1>1 DEF IInv, EndIs
  <2>4. Len(delivered) < Len(accepted)
    <3>1. Done < Sent /\ Sent <= Len(accepted) /\ Done \in Nat /\ Sent \in Nat
              /\ Len(accepted) \in Nat
      BY <1>2, Numbers
    <3> QED
      BY <3>1 DEF Done
  <2>5. delivered' = Append(delivered, accepted[Len(delivered) + 1])
    BY <2>1, <2>2 DEF Coming, Done
  <2> QED
    BY <1>1, <2>3, <2>4, <2>5 DEF Channel!Deliver
<1> QED
  BY <1>4, <1>5

LEMMA ReadAtEndBreaks == ASSUME IInv, ReadAtEnd PROVE Channel!Break
<1>1. ~ broken
  BY DEF IInv, EndIs, ReadAtEnd
<1> QED
  BY <1>1 DEF ReadAtEnd, Channel!Break

\* Every step is a step of the channel or none.
LEMMA StepIsChannelStep == IInv /\ [Next]_vars => [Channel!Next]_Channel!vars
<1> SUFFICES ASSUME IInv, [Next]_vars PROVE Channel!Next \/ UNCHANGED Channel!vars
  OBVIOUS
<1>1. ASSUME NEW m \in Msg, Push(m) PROVE Channel!Next
  BY <1>1, PushAccepts DEF Channel!Next
<1>2. CASE Sender \/ Close \/ EventWait \/ ReadWouldBlock \/ UNCHANGED vars
  BY <1>2, Unseen DEF Sender
<1>3. CASE ReadHeader
  BY <1>3, ReadHeaderUnseen
<1>4. CASE ReadPayload
  BY <1>4, ReadPayloadDelivers DEF Channel!Next
<1>5. CASE ReadAtEnd
  BY <1>5, ReadAtEndBreaks DEF Channel!Next
<1> QED
  BY <1>1, <1>2, <1>3, <1>4, <1>5 DEF Next, Recv

\* The receiver hands out the messages the sender accepted, whole, once each and in their
\* order, until the connection breaks: Send and Recv implement the channel, for every size
\* of the fields, of the payloads and of the pieces.
THEOREM MessagesComeOutInOrder == Spec => ImplementsChannel
<1>1. Init => Channel!Init
  BY InitIsChannelInit
<1>2. IInv /\ [Next]_vars => [Channel!Next]_Channel!vars
  BY StepIsChannelStep
<1> QED
  BY <1>1, <1>2, StreamStays, PTL DEF Spec, ImplementsChannel, Channel!Spec
=============================================================================
