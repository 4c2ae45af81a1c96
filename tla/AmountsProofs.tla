--------------------------- MODULE AmountsProofs ---------------------------
(***************************************************************************)
(* parse_units is exact.  Whatever the radix, the width and the number of  *)
(* decimals: what it makes of a price is read back as what the price comes *)
(* to in base units, unless that overflows.  The lemmas are the arithmetic *)
(* of digits: a digit more, digits behind digits, zeros before and behind, *)
(* and the numeral of a number.                                            *)
(***************************************************************************)
EXTENDS Amounts, Induction, SequenceTheorems, TLAPS

LEMMA RadixType == Radix \in Nat /\ Radix >= 2 /\ Radix <= 10 /\ Digit \subseteq Nat
BY AmountsAssumption DEF Digit

-----------------------------------------------------------------------------
(***************************************************************************)
(* Powers.                                                                 *)
(***************************************************************************)

LEMMA PowerIsLast ==
    ASSUME NEW n \in Nat
    PROVE  \E f \in [0 .. n -> Nat] :
             Power(n) = f[n] /\ f[0] = 1 /\ \A k \in 1 .. n : f[k] = Radix * f[k - 1]
<1> DEFINE F == [k \in 1 .. n |-> [x \in Nat |-> Radix * x]]
           Powers(f) == [k \in 0 .. n |-> IF k = 0 THEN 1 ELSE Radix * f[k - 1]]
           power == CHOOSE f : f = Powers(f)
<1>1. F \in [1 .. n -> [Nat -> Nat]]
  BY RadixType
<1>2. PICK f \in [0 .. n -> Nat] : f[0] = 1 /\ \A k \in 1 .. n : f[k] = F[k][f[k - 1]]
  <2> HIDE DEF F
  <2>1. 1 \in Nat
    OBVIOUS
  <2>2. Chain(n, Nat, 1, F) # {}
    BY <1>1, <2>1, Recursion, Zenon
  <2> QED
    BY <2>2 DEF Chain
<1>3. f = Powers(f)
  <2>1. ASSUME NEW k \in 1 .. n PROVE f[k] = Radix * f[k - 1]
    <3>1. f[k] = F[k][f[k - 1]] /\ f[k - 1] \in Nat
      BY <1>2
    <3>2. F[k] = [x \in Nat |-> Radix * x]
      OBVIOUS
    <3> QED
      BY <3>1, <3>2
  <2> QED
    BY <1>2, <2>1
<1>4. power = Powers(power)
  <2> HIDE DEF Powers
  <2> QED
    BY <1>3, Zenon
<1>5. Power(n) = power[n]
  BY DEF Power
<1> HIDE DEF power
<1>6. \A k \in 0 .. n : power[k] \in Nat
  <2> DEFINE T == {k \in 0 .. n : power[k] \in Nat}
  <2>1. 0 \in T
    BY <1>4
  <2>2. \A k \in 0 .. n - 1 : k \in T => k + 1 \in T
    BY <1>4, RadixType
  <2> HIDE DEF T
  <2>3. \A k \in 0 .. n : k \in T
    BY <2>1, <2>2, UpTo
  <2> QED
    BY <2>3 DEF T
<1>7. power \in [0 .. n -> Nat]
  BY <1>4, <1>6
<1>8. power[0] = 1 /\ \A k \in 1 .. n : power[k] = Radix * power[k - 1]
  BY <1>4
<1> QED
  BY <1>5, <1>7, <1>8, Zenon

LEMMA PowerStep ==
    ASSUME NEW n \in Nat
    PROVE  /\ Power(0) = 1
           /\ Power(n) \in Nat
           /\ Power(n + 1) = Radix * Power(n)
<1>1. PICK f \in [0 .. n -> Nat] :
        Power(n) = f[n] /\ f[0] = 1 /\ \A k \in 1 .. n : f[k] = Radix * f[k - 1]
  BY PowerIsLast
<1>2. PICK g \in [0 .. n + 1 -> Nat] :
        Power(n + 1) = g[n + 1] /\ g[0] = 1 /\ \A k \in 1 .. n + 1 : g[k] = Radix * g[k - 1]
  <2>1. n + 1 \in Nat
    OBVIOUS
  <2> QED
    BY <2>1, PowerIsLast, Zenon
<1>3. Power(0) = 1
  BY PowerIsLast
<1>4. f[n] = g[n]
  <2> DEFINE T == {k \in 0 .. n : f[k] = g[k]}
  <2>1. 0 \in T
    BY <1>1, <1>2
  <2>2. \A k \in 0 .. n - 1 : k \in T => k + 1 \in T
    BY <1>1, <1>2
  <2> HIDE DEF T
  <2>3. \A k \in 0 .. n : k \in T
    BY <2>1, <2>2, UpTo
  <2> QED
    BY <2>3 DEF T
<1>5. Power(n + 1) = Radix * g[n]
  BY <1>2
<1> QED
  BY <1>1, <1>3, <1>4, <1>5

LEMMA PowerIsPositive ==
    ASSUME NEW n \in Nat
    PROVE  Power(n) \in Nat /\ Power(n) >= 1
<1> DEFINE T == {k \in 0 .. n : Power(k) >= 1}
<1>1. 0 \in T
  BY PowerStep
<1>2. ASSUME NEW k \in 0 .. n - 1, k \in T PROVE k + 1 \in T
  <2>1. Power(k) \in Nat /\ Power(k) >= 1 /\ Power(k + 1) = Radix * Power(k)
    BY <1>2, PowerStep
  <2>2. Power(k + 1) >= 1
    BY <2>1, RadixType
  <2> QED
    BY <2>2
<1> HIDE DEF T
<1>3. \A k \in 0 .. n : k \in T
  BY <1>1, <1>2, UpTo
<1> QED
  BY <1>3, PowerStep DEF T

LEMMA PowerOfSum ==
    ASSUME NEW m \in Nat, NEW n \in Nat
    PROVE  Power(m + n) = Power(m) * Power(n)
<1> DEFINE T == {k \in 0 .. n : Power(m + k) = Power(m) * Power(k)}
<1>1. 0 \in T
  BY PowerStep
<1>2. ASSUME NEW k \in 0 .. n - 1, k \in T PROVE k + 1 \in T
  <2>1. Power(m) \in Nat /\ Power(k) \in Nat /\ Power(k + 1) = Radix * Power(k)
    BY PowerStep
  <2>2. Power(m + k) \in Nat /\ Power((m + k) + 1) = Radix * Power(m + k)
    BY PowerStep
  <2>3. Power(m + k) = Power(m) * Power(k)
    BY <1>2
  <2>4. Radix * (Power(m) * Power(k)) = Power(m) * (Radix * Power(k))
    BY <2>1, RadixType
  <2>5. (m + k) + 1 = m + (k + 1)
    OBVIOUS
  <2> QED
    BY <2>1, <2>2, <2>3, <2>4, <2>5
<1> HIDE DEF T
<1>3. \A k \in 0 .. n : k \in T
  BY <1>1, <1>2, UpTo
<1> QED
  BY <1>3 DEF T

-----------------------------------------------------------------------------
(***************************************************************************)
(* What digits are worth.                                                  *)
(***************************************************************************)

LEMMA ValueIsLast ==
    ASSUME NEW d \in Seq(Nat)
    PROVE  \E f \in [0 .. Len(d) -> Nat] :
             /\ Value(d) = f[Len(d)] /\ f[0] = 0
             /\ \A k \in 1 .. Len(d) : f[k] = Radix * f[k - 1] + d[k]
<1> DEFINE n == Len(d)
           F == [k \in 1 .. n |-> [x \in Nat |-> Radix * x + d[k]]]
           Values(f) == [k \in 0 .. n |-> IF k = 0 THEN 0 ELSE Radix * f[k - 1] + d[k]]
           value == CHOOSE f : f = Values(f)
<1>1. n \in Nat /\ \A k \in 1 .. n : d[k] \in Nat
  BY ElementOfSeq, LenProperties
<1>2. F \in [1 .. n -> [Nat -> Nat]]
  BY <1>1, RadixType
<1>3. PICK f \in [0 .. n -> Nat] : f[0] = 0 /\ \A k \in 1 .. n : f[k] = F[k][f[k - 1]]
  <2> HIDE DEF F, n
  <2>1. 0 \in Nat
    OBVIOUS
  <2>2. Chain(n, Nat, 0, F) # {}
    BY <1>1, <1>2, <2>1, Recursion, Zenon
  <2> QED
    BY <2>2 DEF Chain
<1>4. f = Values(f)
  <2>1. ASSUME NEW k \in 1 .. n PROVE f[k] = Radix * f[k - 1] + d[k]
    <3> HIDE DEF F, n
    <3>1. f[k] = F[k][f[k - 1]] /\ f[k - 1] \in Nat
      BY <1>1, <1>3
    <3>2. F[k] = [x \in Nat |-> Radix * x + d[k]]
      BY DEF F
    <3> QED
      BY <3>1, <3>2
  <2> QED
    BY <1>1, <1>3, <2>1
<1>5. value = Values(value)
  <2> HIDE DEF Values
  <2> QED
    BY <1>4, Zenon
<1>6. Value(d) = value[n]
  BY DEF Value
<1> HIDE DEF value
<1>7. \A k \in 0 .. n : value[k] \in Nat
  <2> DEFINE T == {k \in 0 .. n : value[k] \in Nat}
  <2>1. 0 \in T
    BY <1>1, <1>5
  <2>2. \A k \in 0 .. n - 1 : k \in T => k + 1 \in T
    BY <1>1, <1>5, RadixType
  <2> HIDE DEF T
  <2>3. \A k \in 0 .. n : k \in T
    BY <1>1, <2>1, <2>2, UpTo
  <2> QED
    BY <2>3 DEF T
<1>8. value \in [0 .. n -> Nat]
  BY <1>5, <1>7
<1>9. value[0] = 0 /\ \A k \in 1 .. n : value[k] = Radix * value[k - 1] + d[k]
  BY <1>1, <1>5
<1> QED
  BY <1>6, <1>8, <1>9, Zenon

\* A digit more.
LEMMA ValueStep ==
    ASSUME NEW d \in Seq(Nat), NEW c \in Nat
    PROVE  /\ Value(<<>>) = 0
           /\ Value(d) \in Nat
           /\ Value(Append(d, c)) = Radix * Value(d) + c
<1> DEFINE n == Len(d)
           e == Append(d, c)
<1>1. n \in Nat
  BY LenProperties
<1>2. e \in Seq(Nat) /\ Len(e) = n + 1 /\ e[n + 1] = c /\ \A k \in 1 .. n : e[k] = d[k]
  BY AppendProperties
<1>3. PICK f \in [0 .. n -> Nat] :
        /\ Value(d) = f[n] /\ f[0] = 0
        /\ \A k \in 1 .. n : f[k] = Radix * f[k - 1] + d[k]
  BY ValueIsLast
<1> HIDE DEF e
<1>4. PICK g \in [0 .. n + 1 -> Nat] :
        /\ Value(e) = g[n + 1] /\ g[0] = 0
        /\ \A k \in 1 .. n + 1 : g[k] = Radix * g[k - 1] + e[k]
  <2>1. \E g \in [0 .. Len(e) -> Nat] :
          /\ Value(e) = g[Len(e)] /\ g[0] = 0
          /\ \A k \in 1 .. Len(e) : g[k] = Radix * g[k - 1] + e[k]
    BY <1>2, ValueIsLast, Zenon
  <2> QED
    BY <1>2, <2>1
<1>5. Value(<<>>) = 0
  BY ValueIsLast, EmptySeq
<1>6. f[n] = g[n]
  <2> DEFINE T == {k \in 0 .. n : f[k] = g[k]}
  <2>1. 0 \in T
    BY <1>1, <1>3, <1>4
  <2>2. \A k \in 0 .. n - 1 : k \in T => k + 1 \in T
    BY <1>1, <1>2, <1>3, <1>4
  <2> HIDE DEF T
  <2>3. \A k \in 0 .. n : k \in T
    BY <1>1, <2>1, <2>2, UpTo
  <2> QED
    BY <1>1, <2>3 DEF T
<1>7. Value(e) = Radix * g[n] + c
  <2>1. n + 1 \in 1 .. n + 1 /\ (n + 1) - 1 = n
    BY <1>1
  <2> HIDE DEF n
  <2>2. g[n + 1] = Radix * g[(n + 1) - 1] + e[n + 1]
    BY <1>4, <2>1
  <2> QED
    BY <1>2, <1>4, <2>1, <2>2
<1> QED
  BY <1>1, <1>3, <1>5, <1>6, <1>7 DEF e

\* The first of some digits, and the first with one more.
LEMMA PrefixStep ==
    ASSUME NEW S, NEW d \in Seq(S), NEW m \in 0 .. Len(d) - 1
    PROVE  /\ SubSeq(d, 1, m) \in Seq(S) /\ d[m + 1] \in S
           /\ SubSeq(d, 1, m + 1) = Append(SubSeq(d, 1, m), d[m + 1])
<1>1. /\ Len(d) \in Nat /\ 1 \in 1 .. Len(d) /\ m + 1 \in 1 .. Len(d)
      /\ m \in Int /\ (m + 1) - 1 = m /\ m + 1 \in 1 .. Len(d)
  BY LenProperties
<1>2. \A i \in 1 .. Len(d) : d[i] \in S
  BY ElementOfSeq
<1>3. SubSeq(d, 1, m) \in Seq(S)
  <2>1. \A i \in 1 .. m : d[i] \in S
    BY <1>1, <1>2
  <2> QED
    BY <1>1, <2>1, SubSeqProperties
<1>4. SubSeq(d, 1, m + 1) = SubSeq(d, 1, m) \o <<d[m + 1]>>
  BY <1>1, SubSeqRecursiveSecond
<1> QED
  BY <1>1, <1>2, <1>3, <1>4, AppendIsConcat

LEMMA AppendBehind ==
    ASSUME NEW a \in Seq(Nat), NEW d \in Seq(Nat), NEW c \in Nat
    PROVE  a \o Append(d, c) = Append(a \o d, c)
<1>1. a \o d \in Seq(Nat)
  BY ConcatProperties
<1>2. Append(d, c) = d \o <<c>>
  BY AppendIsConcat
<1>3. Append(a \o d, c) = (a \o d) \o <<c>>
  BY <1>1, AppendIsConcat
<1>4. <<c>> \in Seq(Nat)
  OBVIOUS
<1> QED
  BY <1>2, <1>3, <1>4, ConcatAssociative

LEMMA AppendIsFilled ==
    ASSUME NEW d \in Seq(Nat), NEW c \in Nat
    PROVE  Append(d, c) # <<>>
BY AppendProperties

\* Digits behind digits.
LEMMA ValueOfConcat ==
    ASSUME NEW a \in Seq(Nat), NEW b \in Seq(Nat)
    PROVE  Value(a \o b) = Value(a) * Power(Len(b)) + Value(b)
<1> DEFINE P == [m \in 0 .. Len(b) |-> SubSeq(b, 1, m)]
           T == {m \in 0 .. Len(b) : Value(a \o P[m]) = Value(a) * Power(m) + Value(P[m])}
<1>1. Len(b) \in Nat /\ Value(a) \in Nat
  BY LenProperties, ValueStep
<1>2. 0 \in T
  <2>1. P[0] = <<>>
    BY <1>1, SubSeqEmpty
  <2>2. a \o P[0] = a
    BY <2>1, ConcatEmptySeq
  <2>3. Power(0) = 1 /\ Value(P[0]) = 0
    BY <2>1, PowerStep, ValueStep
  <2> HIDE DEF P
  <2>4. Value(a \o P[0]) = Value(a) * Power(0) + Value(P[0])
    BY <1>1, <2>2, <2>3
  <2> QED
    BY <1>1, <2>4
<1>3. ASSUME NEW m \in 0 .. Len(b) - 1, m \in T PROVE m + 1 \in T
  <2> DEFINE c == b[m + 1]
  <2>1. m \in Nat /\ m + 1 \in 0 .. Len(b)
    BY <1>1
  <2>2. P[m] \in Seq(Nat) /\ c \in Nat /\ P[m + 1] = Append(P[m], c)
    BY <2>1, PrefixStep
  <2>3. Value(a \o P[m]) = Value(a) * Power(m) + Value(P[m])
    BY <1>3
  <2> HIDE DEF P, c
  <2>4. a \o P[m] \in Seq(Nat)
    BY <2>2, ConcatProperties
  <2>5. a \o P[m + 1] = Append(a \o P[m], c)
    BY <2>2, AppendBehind, ZenonT(30)
  <2>6. /\ Value(a \o P[m + 1]) = Radix * Value(a \o P[m]) + c
        /\ Value(P[m + 1]) = Radix * Value(P[m]) + c
        /\ Value(P[m]) \in Nat
    BY <2>2, <2>4, <2>5, ValueStep
  <2>7. Power(m) \in Nat /\ Power(m + 1) = Radix * Power(m)
    BY <2>1, PowerStep
  <2>8. Radix * (Value(a) * Power(m) + Value(P[m])) + c
          = Value(a) * (Radix * Power(m)) + (Radix * Value(P[m]) + c)
    BY <1>1, <2>2, <2>6, <2>7, RadixType
  <2>9. Value(a \o P[m + 1]) = Value(a) * Power(m + 1) + Value(P[m + 1])
    BY <2>3, <2>6, <2>7, <2>8
  <2> QED
    BY <2>1, <2>9 DEF P
<1> HIDE DEF T
<1>4. \A m \in 0 .. Len(b) : m \in T
  BY <1>1, <1>2, <1>3, UpTo
<1>5. Value(a \o P[Len(b)]) = Value(a) * Power(Len(b)) + Value(P[Len(b)])
  BY <1>1, <1>4 DEF T
<1>6. P[Len(b)] = b
  BY <1>1, SubSeqFull
<1> QED
  BY <1>5, <1>6

\* Nothing but zeros.
LEMMA ValueOfZeros ==
    ASSUME NEW d \in Seq(Nat), \A i \in 1 .. Len(d) : d[i] = 0
    PROVE  Value(d) = 0
<1>1. Len(d) \in Nat
  BY LenProperties
<1>2. PICK f \in [0 .. Len(d) -> Nat] :
        /\ Value(d) = f[Len(d)] /\ f[0] = 0
        /\ \A k \in 1 .. Len(d) : f[k] = Radix * f[k - 1] + d[k]
  BY ValueIsLast
<1> DEFINE T == {k \in 0 .. Len(d) : f[k] = 0}
<1>3. 0 \in T
  BY <1>1, <1>2
<1>4. \A k \in 0 .. Len(d) - 1 : k \in T => k + 1 \in T
  BY <1>1, <1>2, RadixType
<1> HIDE DEF T
<1>5. \A k \in 0 .. Len(d) : k \in T
  BY <1>1, <1>3, <1>4, UpTo
<1> QED
  BY <1>1, <1>2, <1>5 DEF T

LEMMA ZerosAreDigits ==
    ASSUME NEW n \in Nat
    PROVE  Zeros(n) \in Seq(Digit) /\ Len(Zeros(n)) = n /\ Value(Zeros(n)) = 0
<1>1. Zeros(n) \in Seq(Digit) /\ Len(Zeros(n)) = n /\ \A i \in 1 .. n : Zeros(n)[i] = 0
  <2>1. 0 \in Digit
    BY RadixType DEF Digit
  <2> QED
    BY <2>1 DEF Zeros
<1>2. Zeros(n) \in Seq(Nat)
  BY <1>1, RadixType, SeqMonotonic
<1> QED
  BY <1>1, <1>2, ValueOfZeros

-----------------------------------------------------------------------------
(***************************************************************************)
(* The numeral of a number is worth the number.                            *)
(***************************************************************************)

LEMMA QuotientIsLess ==
    ASSUME NEW k \in Nat, k >= Radix
    PROVE  /\ k \div Radix \in 0 .. k - 1
           /\ k % Radix \in Digit /\ k % Radix \in Nat
           /\ Radix * (k \div Radix) + (k % Radix) = k
<1> DEFINE q == k \div Radix
           r == k % Radix
<1>1. k = Radix * q + r /\ r \in 0 .. Radix - 1 /\ q \in Nat
  BY RadixType
<1> HIDE DEF q, r
<1>2. q < k
  BY <1>1, RadixType
<1> QED
  BY <1>1, <1>2, RadixType DEF Digit, q, r

LEMMA NumeralIsLast ==
    ASSUME NEW n \in Nat
    PROVE  \E f \in [0 .. n -> Seq(Digit)] :
             /\ Numeral(n) = f[n]
             /\ \A k \in 0 .. n : f[k] = IF k < Radix THEN <<k>>
                                       ELSE Append(f[k \div Radix], k % Radix)
<1> DEFINE Made(f, k) == IF k < Radix THEN <<k>> ELSE Append(f[k \div Radix], k % Radix)
           Begun(f, m) == \A k \in 0 .. m : f[k] = Made(f, k)
           Numerals(f) == [k \in 0 .. n |-> Made(f, k)]
           numeral == CHOOSE f : f = Numerals(f)
           T == {m \in 0 .. n : \E f \in [0 .. m -> Seq(Digit)] : Begun(f, m)}
<1>1. \A k \in Nat : k >= Radix => /\ k \div Radix \in 0 .. k - 1
                                   /\ k % Radix \in Digit
  BY QuotientIsLess
<1>2. \A k \in Nat : k < Radix => <<k>> \in Seq(Digit)
  BY RadixType DEF Digit
<1>3. ASSUME NEW m \in Nat, NEW f, \A k \in 0 .. m - 1 : f[k] \in Seq(Digit)
      PROVE  Made(f, m) \in Seq(Digit)
  <2>1. CASE m < Radix
    BY <1>2, <2>1
  <2>2. CASE m >= Radix
    <3>1. f[m \div Radix] \in Seq(Digit) /\ m % Radix \in Digit
      BY <1>1, <1>3, <2>2
    <3> QED
      BY <2>2, <3>1, AppendProperties, RadixType
  <2> QED
    BY <2>1, <2>2, RadixType
<1>4. 0 \in T
  <2> DEFINE g == [k \in 0 .. 0 |-> <<0>>]
  <2>1. g \in [0 .. 0 -> Seq(Digit)] /\ Begun(g, 0)
    BY <1>2, RadixType
  <2> HIDE DEF g, Begun
  <2> QED
    BY <2>1
<1>5. ASSUME NEW m \in 0 .. n - 1, m \in T PROVE m + 1 \in T
  <2>1. PICK f \in [0 .. m -> Seq(Digit)] : Begun(f, m)
    BY <1>5
  <2> DEFINE g == [k \in 0 .. m + 1 |-> IF k = m + 1 THEN Made(f, m + 1) ELSE f[k]]
  <2>2. Made(f, m + 1) \in Seq(Digit)
    <3> HIDE DEF Made
    <3> QED
      BY <1>3
  <2>3. g \in [0 .. m + 1 -> Seq(Digit)]
    <3> HIDE DEF Made
    <3> QED
      BY <2>2
  <2>4. ASSUME NEW k \in 0 .. m + 1 PROVE g[k] = Made(g, k)
    <3>1. k >= Radix => g[k \div Radix] = f[k \div Radix]
      <4> HIDE DEF Made
      <4>1. k >= Radix => k \div Radix \in 0 .. m
        BY <1>1
      <4> QED
        BY <4>1
    <3>2. g[k] = Made(f, k)
      <4> HIDE DEF Made
      <4> QED
        BY <2>1
    <3>3. Made(g, k) = Made(f, k)
      <4> HIDE DEF g
      <4> QED
        BY <3>1, RadixType
    <3> QED
      BY <3>2, <3>3
  <2>5. m + 1 \in 0 .. n
    OBVIOUS
  <2> HIDE DEF g, Made
  <2> QED
    BY <2>3, <2>4, <2>5
<1> HIDE DEF T
<1>6. \A m \in 0 .. n : m \in T
  BY <1>4, <1>5, UpTo
<1> HIDE DEF Begun
<1>7. PICK f \in [0 .. n -> Seq(Digit)] : Begun(f, n)
  <2>1. n \in T
    BY <1>6
  <2> QED
    BY <2>1 DEF T
<1> HIDE DEF Made
<1>8. f = Numerals(f)
  BY <1>7 DEF Begun
<1>9. numeral = Numerals(numeral)
  <2> HIDE DEF Numerals
  <2> QED
    BY <1>8, Zenon
<1>10. Numeral(n) = numeral[n]
  BY DEF Numeral, Made
<1> HIDE DEF numeral
<1>11. \A m \in 0 .. n : numeral[m] = Made(numeral, m)
  BY <1>9
<1>12. \A m \in 0 .. n : numeral[m] \in Seq(Digit)
  <2> DEFINE S == {m \in 0 .. n : \A k \in 0 .. m : numeral[k] \in Seq(Digit)}
  <2>1. 0 \in S
    BY <1>3, <1>11
  <2>2. ASSUME NEW m \in 0 .. n - 1, m \in S PROVE m + 1 \in S
    BY <1>3, <1>11, <2>2
  <2> HIDE DEF S
  <2>3. \A m \in 0 .. n : m \in S
    BY <2>1, <2>2, UpTo
  <2>4. ASSUME NEW m \in 0 .. n PROVE numeral[m] \in Seq(Digit)
    <3>1. m \in S /\ m \in 0 .. m
      BY <2>3
    <3> QED
      BY <3>1 DEF S
  <2> QED
    BY <2>4
<1>13. numeral \in [0 .. n -> Seq(Digit)]
  BY <1>9, <1>12
<1> QED
  BY <1>10, <1>11, <1>13, Zenon DEF Made

\* to_string of an integer is read back as the integer.
LEMMA NumeralIsRead ==
    ASSUME NEW n \in Nat
    PROVE  Numeral(n) \in Seq(Digit) /\ Numeral(n) # <<>> /\ Value(Numeral(n)) = n
<1>1. PICK f \in [0 .. n -> Seq(Digit)] :
        /\ Numeral(n) = f[n]
        /\ \A k \in 0 .. n : f[k] = IF k < Radix THEN <<k>>
                                  ELSE Append(f[k \div Radix], k % Radix)
  BY NumeralIsLast
<1> DEFINE S == {m \in 0 .. n : \A k \in 0 .. m : f[k] # <<>> /\ Value(f[k]) = k}
<1>2. ASSUME NEW k \in 0 .. n, k < Radix PROVE f[k] # <<>> /\ Value(f[k]) = k
  <2>1. f[k] = <<k>> /\ <<k>> = Append(<<>>, k)
    BY <1>1, <1>2
  <2>2. <<>> \in Seq(Nat) /\ k \in Nat
    OBVIOUS
  <2>3. Value(Append(<<>>, k)) = Radix * Value(<<>>) + k /\ Value(<<>>) = 0
    BY <2>2, ValueStep, Zenon
  <2>4. Value(f[k]) = k
    BY <2>1, <2>2, <2>3, RadixType
  <2> QED
    BY <2>1, <2>4
<1>3. ASSUME NEW k \in 0 .. n, k >= Radix, Value(f[k \div Radix]) = k \div Radix
      PROVE  f[k] # <<>> /\ Value(f[k]) = k
  <2> DEFINE q == k \div Radix
             r == k % Radix
  <2>1. q \in 0 .. k - 1 /\ r \in Digit /\ r \in Nat /\ Radix * q + r = k
    BY <1>3, QuotientIsLess
  <2>2. f[k] = Append(f[q], r)
    <3>1. ~(k < Radix)
      BY <1>3, RadixType
    <3>2. f[k] = IF k < Radix THEN <<k>> ELSE Append(f[q], r)
      BY <1>1
    <3> HIDE DEF q, r
    <3> QED
      BY <3>1, <3>2
  <2>3. Value(f[q]) = q
    BY <1>3
  <2> HIDE DEF q, r
  <2>4. f[q] \in Seq(Nat)
    <3>1. f[q] \in Seq(Digit)
      BY <2>1
    <3> QED
      BY <3>1, RadixType, SeqMonotonic
  <2>5. Value(Append(f[q], r)) = Radix * Value(f[q]) + r
    BY <2>1, <2>4, ValueStep, Zenon
  <2>6. Append(f[q], r) # <<>>
    BY <2>1, <2>4, AppendIsFilled, Zenon
  <2> QED
    BY <2>1, <2>2, <2>3, <2>5, <2>6
<1>4. 0 \in S
  BY <1>2, RadixType
<1>5. ASSUME NEW m \in 0 .. n - 1, m \in S PROVE m + 1 \in S
  <2>1. m + 1 \in 0 .. n /\ m + 1 \in Nat
    OBVIOUS
  <2>2. \A k \in 0 .. m : f[k] # <<>> /\ Value(f[k]) = k
    BY <1>5
  <2>3. f[m + 1] # <<>> /\ Value(f[m + 1]) = m + 1
    <3>1. CASE m + 1 < Radix
      BY <1>2, <2>1, <3>1
    <3>2. CASE m + 1 >= Radix
      <4>1. (m + 1) \div Radix \in 0 .. m
        BY <2>1, <3>2, QuotientIsLess
      <4>2. Value(f[(m + 1) \div Radix]) = (m + 1) \div Radix
        BY <2>2, <4>1
      <4> QED
        BY <1>3, <2>1, <3>2, <4>2
    <3> QED
      BY <2>1, <3>1, <3>2, RadixType
  <2> QED
    BY <2>1, <2>2, <2>3
<1> HIDE DEF S
<1>6. \A m \in 0 .. n : m \in S
  BY <1>4, <1>5, UpTo
<1>7. n \in S /\ n \in 0 .. n
  BY <1>6
<1> QED
  BY <1>1, <1>7 DEF S


-----------------------------------------------------------------------------
(***************************************************************************)
(* Texts that a number is read from.                                       *)
(***************************************************************************)

\* Digits, perhaps after a plus, that are worth v.
Spells(text, v) ==
    \E d \in Seq(Digit) :
      /\ d # <<>> /\ Value(d) = v
      /\ text = d \/ text = <<Plus>> \o d

LEMMA DigitsAreNat ==
    ASSUME NEW d \in Seq(Digit)
    PROVE  /\ d \in Seq(Nat) /\ Len(d) \in Nat
           /\ \A i \in 1 .. Len(d) : d[i] \in Digit
           /\ ToSet(d) \subseteq Digit
<1>1. d \in Seq(Nat) /\ Len(d) \in Nat /\ \A i \in 1 .. Len(d) : d[i] \in Digit
  BY RadixType, SeqMonotonic, LenProperties, ElementOfSeq
<1>2. ToSet(d) \subseteq Digit
  BY <1>1, LenProperties DEF ToSet
<1> QED
  BY <1>1, <1>2

LEMMA NumeralIsDigits ==
    ASSUME NEW text \in Seq(Nat)
    PROVE  IsNumeral(text) <=> text # <<>> /\ text \in Seq(Digit)
<1>1. ASSUME ToSet(text) \subseteq Digit PROVE text \in Seq(Digit)
  <2>1. Len(text) \in Nat /\ text \in [1 .. Len(text) -> Nat] /\ DOMAIN text = 1 .. Len(text)
    BY LenProperties
  <2>2. \A i \in 1 .. Len(text) : text[i] \in Digit
    BY <1>1, <2>1 DEF ToSet
  <2>3. text \in [1 .. Len(text) -> Digit]
    BY <2>1, <2>2
  <2> QED
    BY <2>1, <2>3, SeqDef
<1> QED
  BY <1>1, DigitsAreNat DEF IsNumeral

\* A plus before digits.
LEMMA PlusBefore ==
    ASSUME NEW d \in Seq(Nat)
    PROVE  LET t == <<Plus>> \o d
           IN  /\ t \in Seq(Nat) /\ t # <<>> /\ Len(t) = Len(d) + 1
               /\ t[1] = Plus /\ Head(t) = Plus /\ Tail(t) = d
               /\ \A i \in 1 .. Len(d) : t[i + 1] = d[i]
<1> DEFINE one == <<Plus>>
           t == one \o d
<1>1. one \in Seq(Nat) /\ Len(one) = 1 /\ one[1] = Plus
  BY DEF Plus
<1>2. Len(d) \in Nat
  BY LenProperties
<1> HIDE DEF one
<1>3. /\ t \in Seq(Nat) /\ Len(t) = Len(one) + Len(d)
      /\ \A i \in 1 .. Len(one) + Len(d) :
           t[i] = IF i <= Len(one) THEN one[i] ELSE d[i - Len(one)]
  BY <1>1, ConcatProperties
<1>4. /\ Len(t) = Len(d) + 1 /\ t[1] = Plus
      /\ \A i \in 1 .. Len(d) : t[i + 1] = d[i]
  BY <1>1, <1>2, <1>3
<1> HIDE DEF t
<1>5. t # <<>>
  BY <1>2, <1>3, <1>4, EmptySeq
<1>6. Head(t) = Plus /\ Tail(t) \in Seq(Nat) /\ Len(Tail(t)) = Len(d)
  BY <1>2, <1>3, <1>4, <1>5, HeadTailProperties
<1>7. \A i \in 1 .. Len(d) : Tail(t)[i] = d[i]
  BY <1>3, <1>4, <1>5, <1>6, HeadTailProperties
<1>8. Tail(t) = d
  BY <1>6, <1>7, SeqEqual
<1> QED
  BY <1>3, <1>4, <1>5, <1>6, <1>8 DEF t, one

\* What is spelled is read (str::parse).
LEMMA SpelledIsRead ==
    ASSUME NEW text, NEW v \in Nat, Spells(text, v), NEW limit \in Nat
    PROVE  /\ text \in Seq(Nat) /\ text # Err
           /\ \A i \in 1 .. Len(text) : text[i] \in Digit \cup {Plus}
           /\ Number(text, limit) = IF v < limit THEN v ELSE NotANumber
<1>1. PICK d \in Seq(Digit) :
        /\ d # <<>> /\ Value(d) = v
        /\ text = d \/ text = <<Plus>> \o d
  BY DEF Spells
<1>2. d \in Seq(Nat) /\ Len(d) \in Nat /\ \A i \in 1 .. Len(d) : d[i] \in Digit
  BY DigitsAreNat
<1>3. text \in Seq(Nat) /\ Unsigned(text) = d
  <2>1. CASE text = d
    <3>1. Head(d) \in Digit
      <4>1. Len(d) # 0
        BY <1>1, <1>2
      <4>2. 1 \in 1 .. Len(d) /\ Head(d) = d[1]
        BY <1>2, <4>1
      <4> QED
        BY <1>2, <4>2
    <3>2. Head(d) # Plus
      BY <3>1, RadixType DEF Digit, Plus
    <3> QED
      BY <1>2, <2>1, <3>2 DEF Unsigned
  <2>2. CASE text = <<Plus>> \o d
    BY <1>2, <2>2, PlusBefore DEF Unsigned
  <2> QED
    BY <1>1, <2>1, <2>2
<1>4. text # Err
  <2>1. \A i \in 1 .. Len(text) : text[i] \in Nat
    BY <1>3, ElementOfSeq
  <2> SUFFICES ASSUME text = <<-2>> PROVE FALSE
    BY DEF Err
  <2>2. Len(text) = 1 /\ text[1] = -2
    OBVIOUS
  <2> QED
    BY <2>1, <2>2
<1>5. \A i \in 1 .. Len(text) : text[i] \in Digit \cup {Plus}
  <2>1. CASE text = d
    BY <1>2, <2>1
  <2>2. CASE text = <<Plus>> \o d
    <3>1. /\ Len(text) = Len(d) + 1 /\ text[1] = Plus
          /\ \A i \in 1 .. Len(d) : text[i + 1] = d[i]
      BY <1>2, <2>2, PlusBefore
    <3>2. ASSUME NEW i \in 1 .. Len(text), i # 1 PROVE text[i] \in Digit
      <4>1. i - 1 \in 1 .. Len(d) /\ (i - 1) + 1 = i
        BY <1>2, <3>1, <3>2
      <4> QED
        BY <1>2, <3>1, <4>1
    <3> QED
      BY <3>1, <3>2
  <2> QED
    BY <1>1, <2>1, <2>2
<1>6. IsNumeral(d)
  BY <1>1, <1>2, NumeralIsDigits, Zenon
<1>7. IsNumeral(Unsigned(text)) /\ Value(Unsigned(text)) = v
  BY <1>1, <1>3, <1>6
<1>8. Number(text, limit) = IF v < limit THEN v ELSE NotANumber
  BY <1>7 DEF Number
<1> QED
  BY <1>3, <1>4, <1>5, <1>8

\* Zeros before digits are worth nothing (trim_start_matches).
LEMMA TrimmedIsWorth ==
    ASSUME NEW d \in Seq(Digit)
    PROVE  /\ TrimZeros(d) \in Seq(Digit) /\ TrimZeros(d) # <<>>
           /\ Value(TrimZeros(d)) = Value(d)
<1> DEFINE I == {i \in 1 .. Len(d) : d[i] # 0}
           first == SelectInSeq(d, LAMBDA c : c # 0)
<1>1. d \in Seq(Nat) /\ Len(d) \in Nat /\ \A i \in 1 .. Len(d) : d[i] \in Digit
  BY DigitsAreNat
<1>2. first = IF I # {} THEN Min(I) ELSE 0
  BY DEF SelectInSeq
<1>3. TrimZeros(d) = IF first = 0 THEN <<0>> ELSE SubSeq(d, first, Len(d))
  BY DEF TrimZeros
<1> HIDE DEF first
<1>4. CASE I = {}
  <2>1. TrimZeros(d) = <<0>>
    BY <1>2, <1>3, <1>4
  <2>2. Value(d) = 0
    BY <1>1, <1>4, ValueOfZeros
  <2>3. 0 \in Digit /\ <<0>> \in Seq(Nat)
    BY RadixType DEF Digit
  <2>4. Value(<<0>>) = 0
    <3>1. \A i \in 1 .. Len(<<0>>) : <<0>>[i] = 0
      OBVIOUS
    <3> QED
      BY <2>3, <3>1, ValueOfZeros, Zenon
  <2> QED
    BY <2>1, <2>2, <2>3, <2>4
<1>5. CASE I # {}
  <2>1. \E m \in I : \A i \in I : m <= i
    <3>1. I \in SUBSET Nat
      BY <1>1
    <3> HIDE DEF I
    <3> QED
      BY <1>5, <3>1, Smallest, Zenon
  <2>2. first \in I /\ \A i \in I : first <= i
    BY <1>2, <1>5, <2>1 DEF Min
  <2> DEFINE a == SubSeq(d, 1, first - 1)
             b == SubSeq(d, first, Len(d))
  <2>3. first \in 1 .. Len(d) /\ d[first] # 0 /\ \A i \in 1 .. first - 1 : d[i] = 0
    BY <1>1, <2>2
  <2>4. /\ a \in Seq(Digit) /\ Len(a) = first - 1
        /\ \A i \in 1 .. first - 1 : a[i] = d[1 + i - 1]
    <3>1. \A i \in 1 .. first - 1 : d[i] \in Digit
      BY <1>1, <2>3
    <3> QED
      BY <2>3, <3>1, SubSeqProperties
  <2>5. b \in Seq(Digit) /\ Len(b) = Len(d) - first + 1
    <3>1. \A i \in first .. Len(d) : d[i] \in Digit
      BY <1>1, <2>3
    <3> QED
      BY <1>1, <2>3, <3>1, SubSeqProperties
  <2>6. a \o b = d
    <3>1. /\ 1 \in 1 .. Len(d) + 1 /\ first - 1 \in 1 - 1 .. Len(d)
          /\ Len(d) \in first - 1 .. Len(d) /\ (first - 1) + 1 = first
      BY <1>1, <2>3
    <3>2. SubSeq(d, 1, first - 1) \o SubSeq(d, (first - 1) + 1, Len(d)) = SubSeq(d, 1, Len(d))
      BY <3>1, ConcatAdjacentSubSeq
    <3> QED
      BY <3>1, <3>2, SubSeqFull
  <2>7. TrimZeros(d) = b
    BY <1>3, <2>3
  <2> HIDE DEF a, b
  <2>8. a \in Seq(Nat) /\ b \in Seq(Nat)
    BY <2>4, <2>5, DigitsAreNat
  <2>9. Value(a) = 0
    <3>1. \A i \in 1 .. Len(a) : a[i] = 0
      BY <2>3, <2>4
    <3> QED
      BY <2>8, <3>1, ValueOfZeros
  <2>10. Value(d) = 0 * Power(Len(b)) + Value(b)
    BY <2>6, <2>8, <2>9, ValueOfConcat
  <2>11. Len(b) \in Nat /\ Len(b) # 0
    BY <1>1, <2>3, <2>5
  <2>12. b # <<>>
    BY <2>11, EmptySeq
  <2>13. Power(Len(b)) \in Nat
    BY <2>11, PowerStep
  <2>14. Value(b) \in Nat
    BY <2>8, ValueStep
  <2> QED
    BY <2>5, <2>7, <2>10, <2>12, <2>13, <2>14
<1> QED
  BY <1>4, <1>5

\* A text that begins with a plus has no zeros before it.
LEMMA SignedIsNotTrimmed ==
    ASSUME NEW d \in Seq(Nat)
    PROVE  TrimZeros(<<Plus>> \o d) = <<Plus>> \o d
<1> DEFINE t == <<Plus>> \o d
           I == {i \in 1 .. Len(t) : t[i] # 0}
           first == SelectInSeq(t, LAMBDA c : c # 0)
<1>1. t \in Seq(Nat) /\ Len(t) \in Nat /\ Len(t) >= 1 /\ t[1] = Plus
  BY PlusBefore, LenProperties
<1>2. first = IF I # {} THEN Min(I) ELSE 0
  BY DEF SelectInSeq
<1>3. TrimZeros(t) = IF first = 0 THEN <<0>> ELSE SubSeq(t, first, Len(t))
  BY DEF TrimZeros
<1> HIDE DEF first, t
<1>4. 1 \in I /\ \A i \in I : 1 <= i
  BY <1>1 DEF Plus
<1>5. first = 1
  BY <1>2, <1>4 DEF Min
<1>6. SubSeq(t, 1, Len(t)) = t
  BY <1>1, SubSeqFull, Zenon
<1>7. TrimZeros(t) = t
  BY <1>3, <1>5, <1>6
<1> QED
  BY <1>7 DEF t


-----------------------------------------------------------------------------
(***************************************************************************)
(* The parts of a price.                                                   *)
(***************************************************************************)

LEMMA DotAt ==
    ASSUME NEW text \in Seq(Nat)
    PROVE  Dot \in ToSet(text) <=> \E i \in 1 .. Len(text) : text[i] = Dot
BY LenProperties DEF ToSet

LEMMA PartsAt ==
    ASSUME NEW text \in Seq(Nat), NEW n \in 1 .. Len(text), text[n] = Dot,
           \A i \in 1 .. n - 1 : text[i] # Dot
    PROVE  /\ Whole(text) = SubSeq(text, 1, n - 1)
           /\ Fraction(text) = SubSeq(text, n + 1, Len(text))
           /\ Whole(text) \in Seq(Nat) /\ Len(Whole(text)) = n - 1
           /\ \A i \in 1 .. n - 1 : Whole(text)[i] = text[i]
           /\ Fraction(text) \in Seq(Nat) /\ Len(Fraction(text)) = Len(text) - n
           /\ \A i \in 1 .. Len(text) - n : Fraction(text)[i] = text[n + i]
<1> DEFINE I == {i \in 1 .. Len(text) : text[i] = Dot}
           first == SelectInSeq(text, LAMBDA c : c = Dot)
<1>1. Len(text) \in Nat /\ \A i \in 1 .. Len(text) : text[i] \in Nat
  BY LenProperties, ElementOfSeq
<1>2. first = IF I # {} THEN Min(I) ELSE 0
  BY DEF SelectInSeq
<1>3. /\ Whole(text) = SubSeq(text, 1, first - 1)
      /\ Fraction(text) = SubSeq(text, first + 1, Len(text))
  BY DEF Whole, Fraction
<1> HIDE DEF first
<1>4. n \in I /\ \A i \in I : n <= i
  BY <1>1
<1>5. first = n
  BY <1>1, <1>2, <1>4 DEF Min
<1>6. /\ SubSeq(text, 1, n - 1) \in Seq(Nat) /\ Len(SubSeq(text, 1, n - 1)) = n - 1
      /\ \A i \in 1 .. n - 1 : SubSeq(text, 1, n - 1)[i] = text[i]
  <2>1. \A i \in 1 .. n - 1 : text[i] \in Nat
    BY <1>1
  <2> QED
    BY <1>1, <2>1, SubSeqProperties
<1>7. /\ SubSeq(text, n + 1, Len(text)) \in Seq(Nat)
      /\ Len(SubSeq(text, n + 1, Len(text))) = Len(text) - n
      /\ \A i \in 1 .. Len(text) - n : SubSeq(text, n + 1, Len(text))[i] = text[n + i]
  <2>1. \A i \in n + 1 .. Len(text) : text[i] \in Nat
    BY <1>1
  <2> QED
    BY <1>1, <2>1, SubSeqProperties
<1> QED
  BY <1>3, <1>5, <1>6, <1>7

LEMMA FirstDot ==
    ASSUME NEW text \in Seq(Nat), Dot \in ToSet(text)
    PROVE  \E n \in 1 .. Len(text) : text[n] = Dot /\ \A i \in 1 .. n - 1 : text[i] # Dot
<1> DEFINE I == {i \in 1 .. Len(text) : text[i] = Dot}
<1>1. Len(text) \in Nat
  BY LenProperties
<1>2. I \in SUBSET Nat /\ I # {}
  BY <1>1, DotAt
<1>3. PICK n \in I : \A i \in I : n <= i
  <2> HIDE DEF I
  <2> QED
    BY <1>2, Smallest, Zenon
<1> QED
  BY <1>1, <1>3

\* A plus before a price is before its whole part.
LEMMA PartsOfSigned ==
    ASSUME NEW u \in Seq(Nat)
    PROVE  LET t == <<Plus>> \o u
           IN  /\ Dot \in ToSet(t) <=> Dot \in ToSet(u)
               /\ Dot \in ToSet(u) => /\ Whole(t) = <<Plus>> \o Whole(u)
                                      /\ Fraction(t) = Fraction(u)
<1> DEFINE t == <<Plus>> \o u
<1>1. Len(u) \in Nat
  BY LenProperties
<1>2. /\ t \in Seq(Nat) /\ Len(t) = Len(u) + 1 /\ t[1] = Plus /\ Plus # Dot
      /\ \A i \in 1 .. Len(u) : t[i + 1] = u[i]
  BY PlusBefore DEF Plus, Dot
<1> HIDE DEF t
<1>3. \A i \in 2 .. Len(t) : t[i] = u[i - 1]
  BY <1>1, <1>2
<1>4. Dot \in ToSet(t) <=> Dot \in ToSet(u)
  <2>1. ASSUME NEW i \in 1 .. Len(t), t[i] = Dot
        PROVE  \E k \in 1 .. Len(u) : u[k] = Dot
    <3>1. i - 1 \in 1 .. Len(u) /\ u[i - 1] = Dot
      BY <1>1, <1>2, <1>3, <2>1
    <3> QED
      BY <3>1
  <2>2. ASSUME NEW i \in 1 .. Len(u), u[i] = Dot
        PROVE  \E k \in 1 .. Len(t) : t[k] = Dot
    <3>1. i + 1 \in 1 .. Len(t) /\ t[i + 1] = Dot
      BY <1>1, <1>2, <2>2
    <3> QED
      BY <3>1
  <2> QED
    BY <1>2, <2>1, <2>2, DotAt
<1>5. ASSUME Dot \in ToSet(u)
      PROVE  Whole(t) = <<Plus>> \o Whole(u) /\ Fraction(t) = Fraction(u)
  <2>1. PICK n \in 1 .. Len(u) : u[n] = Dot /\ \A i \in 1 .. n - 1 : u[i] # Dot
    BY <1>5, FirstDot
  <2>2. /\ Whole(u) \in Seq(Nat) /\ Len(Whole(u)) = n - 1
        /\ \A i \in 1 .. n - 1 : Whole(u)[i] = u[i]
        /\ Fraction(u) \in Seq(Nat) /\ Len(Fraction(u)) = Len(u) - n
        /\ \A i \in 1 .. Len(u) - n : Fraction(u)[i] = u[n + i]
    BY <2>1, PartsAt
  <2>3. /\ n + 1 \in 1 .. Len(t) /\ t[n + 1] = Dot
        /\ \A i \in 1 .. (n + 1) - 1 : t[i] # Dot
    <3>1. n + 1 \in 1 .. Len(t) /\ t[n + 1] = Dot
      BY <1>1, <1>2, <2>1
    <3>2. ASSUME NEW i \in 1 .. (n + 1) - 1 PROVE t[i] # Dot
      <4>1. CASE i = 1
        BY <1>2, <4>1
      <4>2. CASE i # 1
        <5>1. i \in 2 .. Len(t) /\ i - 1 \in 1 .. n - 1
          BY <1>1, <1>2, <4>2
        <5> QED
          BY <1>3, <2>1, <5>1
      <4> QED
        BY <4>1, <4>2
    <3> QED
      BY <3>1, <3>2
  <2>4. /\ Whole(t) \in Seq(Nat) /\ Len(Whole(t)) = (n + 1) - 1
        /\ \A i \in 1 .. (n + 1) - 1 : Whole(t)[i] = t[i]
        /\ Fraction(t) \in Seq(Nat) /\ Len(Fraction(t)) = Len(t) - (n + 1)
        /\ \A i \in 1 .. Len(t) - (n + 1) : Fraction(t)[i] = t[(n + 1) + i]
    BY <1>2, <2>3, PartsAt
  <2>5. /\ <<Plus>> \o Whole(u) \in Seq(Nat) /\ Len(<<Plus>> \o Whole(u)) = n
        /\ (<<Plus>> \o Whole(u))[1] = Plus
        /\ \A i \in 1 .. n - 1 : (<<Plus>> \o Whole(u))[i + 1] = u[i]
    BY <2>2, PlusBefore
  <2>6. \A i \in 1 .. n : Whole(t)[i] = (<<Plus>> \o Whole(u))[i]
    <3> SUFFICES ASSUME NEW i \in 1 .. n
                 PROVE  Whole(t)[i] = (<<Plus>> \o Whole(u))[i]
      OBVIOUS
    <3>1. i \in 1 .. (n + 1) - 1 /\ Whole(t)[i] = t[i]
      BY <2>4
    <3>2. CASE i = 1
      BY <1>2, <2>5, <3>1, <3>2
    <3>3. CASE i # 1
      <4>1. i - 1 \in 1 .. n - 1 /\ (i - 1) + 1 = i /\ i \in 2 .. Len(t)
        BY <1>1, <1>2, <3>3
      <4>2. (<<Plus>> \o Whole(u))[(i - 1) + 1] = u[i - 1]
        BY <2>5, <4>1
      <4> QED
        BY <1>3, <3>1, <4>1, <4>2
    <3> QED
      BY <3>2, <3>3
  <2>7. Whole(t) = <<Plus>> \o Whole(u)
    <3>1. Len(Whole(t)) = n /\ Len(<<Plus>> \o Whole(u)) = n
      BY <2>4, <2>5
    <3> QED
      BY <2>4, <2>5, <2>6, <3>1, SeqEqual, Zenon
  <2>8. \A i \in 1 .. Len(u) - n : Fraction(t)[i] = Fraction(u)[i]
    <3> SUFFICES ASSUME NEW i \in 1 .. Len(u) - n
                 PROVE  Fraction(t)[i] = Fraction(u)[i]
      OBVIOUS
    <3>1. /\ (n + 1) + i \in 2 .. Len(t) /\ ((n + 1) + i) - 1 = n + i
          /\ i \in 1 .. Len(t) - (n + 1)
      BY <1>1, <1>2
    <3> QED
      BY <1>3, <2>2, <2>4, <3>1
  <2>9. Fraction(t) = Fraction(u)
    <3>1. Len(Fraction(t)) = Len(Fraction(u)) /\ Len(Fraction(t)) = Len(u) - n
      BY <1>1, <1>2, <2>2, <2>4
    <3> QED
      BY <2>2, <2>4, <2>8, <3>1, SeqEqual, Zenon
  <2> QED
    BY <2>7, <2>9
<1> QED
  BY <1>4, <1>5 DEF t

\* A whole part, a fraction and zeros, as one number.
LEMMA WorthOfParts ==
    ASSUME NEW w \in Seq(Nat), NEW f \in Seq(Nat), IsNumeral(w \o f), NEW k \in Nat
    PROVE  LET z == w \o f \o Zeros(k)
           IN  /\ z \in Seq(Digit) /\ z # <<>>
               /\ Value(z) = Value(w) * Power(Len(f) + k) + Value(f) * Power(k)
<1> DEFINE d == w \o f
           z == d \o Zeros(k)
<1>1. d \in Seq(Nat) /\ Len(d) = Len(w) + Len(f)
  BY ConcatProperties
<1>2. Value(d) = Value(w) * Power(Len(f)) + Value(f)
  BY ValueOfConcat
<1> HIDE DEF d
<1>3. d # <<>> /\ d \in Seq(Digit)
  BY <1>1, NumeralIsDigits DEF d
<1>4. Zeros(k) \in Seq(Digit) /\ Zeros(k) \in Seq(Nat) /\ Len(Zeros(k)) = k /\ Value(Zeros(k)) = 0
  BY ZerosAreDigits, DigitsAreNat
<1>5. z \in Seq(Digit)
  BY <1>3, <1>4, ConcatProperties
<1>6. z # <<>>
  BY <1>1, <1>3, <1>4, ConcatEqualIffEmpty
<1>7. Value(z) = Value(d) * Power(k) + 0
  BY <1>1, <1>4, ValueOfConcat
<1>8. /\ Len(f) \in Nat /\ Value(w) \in Nat /\ Value(f) \in Nat
      /\ Power(Len(f)) \in Nat /\ Power(k) \in Nat
  BY LenProperties, ValueStep, PowerStep
<1>9. Power(Len(f) + k) = Power(Len(f)) * Power(k)
  BY <1>8, PowerOfSum
<1> HIDE DEF z
<1>10. (Value(w) * Power(Len(f)) + Value(f)) * Power(k)
         = Value(w) * (Power(Len(f)) * Power(k)) + Value(f) * Power(k)
  BY <1>8
<1> QED
  BY <1>2, <1>5, <1>6, <1>7, <1>8, <1>9, <1>10 DEF z, d


-----------------------------------------------------------------------------

\* What parse_units makes of a price spells what the price comes to.
LEMMA PriceIsSpelled ==
    ASSUME NEW price \in Seq(Nat), NEW decimals \in Nat,
           BaseUnits(price, decimals) \in 0 .. U128 - 1
    PROVE  Spells(parse_units(price, decimals), BaseUnits(price, decimals))
<1> DEFINE u == Unsigned(price)
           v == BaseUnits(price, decimals)
<1>1. u \in Seq(Nat) /\ (price = u \/ price = <<Plus>> \o u)
  <2>1. CASE price # <<>> /\ Head(price) = Plus
    <3>1. u = Tail(price) /\ u \in Seq(Nat)
      BY <2>1, HeadTailProperties DEF Unsigned
    <3>2. price = <<Plus>> \o Tail(price)
      <4>1. /\ Len(price) = Len(Tail(price)) + 1 /\ price[1] = Plus /\ Len(price) \in Nat
            /\ \A i \in 1 .. Len(Tail(price)) : Tail(price)[i] = price[i + 1]
        BY <2>1, HeadTailProperties, LenProperties
      <4>2. /\ <<Plus>> \o Tail(price) \in Seq(Nat)
            /\ Len(<<Plus>> \o Tail(price)) = Len(Tail(price)) + 1
            /\ (<<Plus>> \o Tail(price))[1] = Plus
            /\ \A i \in 1 .. Len(Tail(price)) :
                 (<<Plus>> \o Tail(price))[i + 1] = Tail(price)[i]
        BY <3>1, PlusBefore
      <4>3. ASSUME NEW i \in 1 .. Len(price) PROVE price[i] = (<<Plus>> \o Tail(price))[i]
        <5>1. CASE i = 1
          BY <4>1, <4>2, <5>1
        <5>2. CASE i # 1
          <6>1. i - 1 \in 1 .. Len(Tail(price)) /\ (i - 1) + 1 = i
            BY <4>1, <5>2
          <6>2. Tail(price)[i - 1] = price[(i - 1) + 1]
            BY <4>1, <6>1
          <6>3. (<<Plus>> \o Tail(price))[(i - 1) + 1] = Tail(price)[i - 1]
            BY <4>2, <6>1
          <6> QED
            BY <6>1, <6>2, <6>3
        <5> QED
          BY <5>1, <5>2
      <4> QED
        BY <4>1, <4>2, <4>3, SeqEqual, Zenon
    <3> QED
      BY <3>1, <3>2
  <2>2. CASE ~(price # <<>> /\ Head(price) = Plus)
    BY <2>2 DEF Unsigned
  <2> QED
    BY <2>1, <2>2
<1>2. IsPrice(price, decimals) /\ v \in Nat /\ v < U128
  BY AmountsAssumption DEF BaseUnits, NotANumber
<1>3. Dot \in ToSet(price) <=> Dot \in ToSet(u)
  BY <1>1, PartsOfSigned
<1> HIDE DEF u
<1>4. CASE Dot \in ToSet(u)
  <2> DEFINE w == Whole(u)
             f == Fraction(u)
             k == decimals - Len(f)
             z == w \o f \o Zeros(k)
             all == Whole(price) \o Fraction(price) \o Zeros(decimals - Len(Fraction(price)))
  <2>1. IsNumeral(w \o f) /\ Len(f) <= decimals
    BY <1>2, <1>4 DEF IsPrice, u
  <2>2. v = Value(w) * Power(decimals) + Value(f) * Power(k)
    BY <1>2, <1>4 DEF BaseUnits, u
  <2>3. w \in Seq(Nat) /\ f \in Seq(Nat) /\ Len(f) \in Nat
    BY <1>1, <1>4, FirstDot, PartsAt, LenProperties
  <2>4. k \in Nat /\ Len(f) + k = decimals
    BY <2>1, <2>3
  <2>5. z \in Seq(Digit) /\ z # <<>> /\ Value(z) = v
    <3> HIDE DEF w, f, k, v
    <3> QED
      BY <2>1, <2>2, <2>3, <2>4, WorthOfParts
  <2>6. Len(Fraction(price)) <= decimals /\ parse_units(price, decimals) = TrimZeros(all)
    <3>1. Fraction(price) = f
      BY <1>1, <1>4, PartsOfSigned
    <3>2. ~(Len(Fraction(price)) > decimals)
      BY <2>1, <2>3, <3>1
    <3> QED
      BY <1>3, <1>4, <2>1, <3>1, <3>2 DEF parse_units
  <2>7. CASE price = u
    <3>1. all = z
      BY <2>7
    <3>2. TrimZeros(z) \in Seq(Digit) /\ TrimZeros(z) # <<>> /\ Value(TrimZeros(z)) = v
      BY <2>5, TrimmedIsWorth
    <3> HIDE DEF z, all, v
    <3> QED
      BY <2>6, <3>1, <3>2 DEF Spells, v
  <2>8. CASE price = <<Plus>> \o u
    <3>1. Whole(price) = <<Plus>> \o w /\ Fraction(price) = f
      BY <1>1, <1>4, <2>8, PartsOfSigned
    <3>2. all = <<Plus>> \o z
      <4>1. <<Plus>> \in Seq(Nat)
        BY DEF Plus
      <4>2. Zeros(k) \in Seq(Nat)
        BY <2>4, ZerosAreDigits, DigitsAreNat
      <4>3. w \o f \in Seq(Nat)
        BY <2>3, ConcatProperties
      <4>4. (<<Plus>> \o w) \o f = <<Plus>> \o (w \o f)
        BY <2>3, <4>1, ConcatAssociative, SMTT(30)
      <4> HIDE DEF w, f, k
      <4>5. (<<Plus>> \o (w \o f)) \o Zeros(k) = <<Plus>> \o ((w \o f) \o Zeros(k))
        BY <4>1, <4>2, <4>3, ConcatAssociative, SMTT(30)
      <4> QED
        BY <3>1, <4>4, <4>5 DEF k
    <3>3. TrimZeros(<<Plus>> \o z) = <<Plus>> \o z
      BY <2>5, DigitsAreNat, SignedIsNotTrimmed
    <3> HIDE DEF z, all, v
    <3> QED
      BY <2>5, <2>6, <3>2, <3>3 DEF Spells, v
  <2> QED
    BY <1>1, <2>7, <2>8
<1>5. CASE Dot \notin ToSet(u)
  <2>1. IsNumeral(u) /\ v = Value(u) * Power(decimals)
    BY <1>2, <1>5 DEF IsPrice, BaseUnits, u
  <2>2. Value(u) \in Nat /\ Power(decimals) \in Nat /\ Power(decimals) >= 1
    BY <1>1, ValueStep, PowerIsPositive
  <2>3. Value(u) <= Value(u) * Power(decimals)
    BY <2>2
  <2>4. Number(price, U128) = Value(u) /\ Value(u) # NotANumber
    <3>1. Value(u) < U128
      BY <1>2, <2>1, <2>2, <2>3, AmountsAssumption
    <3> QED
      BY <2>1, <2>2, <3>1 DEF Number, u, NotANumber
  <2>5. parse_units(price, decimals) = Numeral(v % U128)
    BY <1>3, <1>5, <2>1, <2>4 DEF parse_units
  <2>6. v % U128 = v
    <3> HIDE DEF v
    <3> QED
      BY <1>2, AmountsAssumption
  <2> HIDE DEF v
  <2>7. Numeral(v) \in Seq(Digit) /\ Numeral(v) # <<>> /\ Value(Numeral(v)) = v
    BY <1>2, NumeralIsRead
  <2> QED
    BY <2>5, <2>6, <2>7 DEF Spells, v
<1> QED
  BY <1>4, <1>5

\* parse_units is exact: unless what a price comes to is beyond the width of
\* its arithmetic, the text it yields is a number for every reader, and it is
\* what the price comes to (parse_units, parse_amount).
THEOREM PricesAreExact ==
    ASSUME NEW price \in Seq(Nat), NEW decimals \in Nat,
           BaseUnits(price, decimals) \in 0 .. U128 - 1, NEW limit \in Nat
    PROVE  LET amount == parse_units(price, decimals)
               due == BaseUnits(price, decimals)
           IN  /\ amount \in Seq(Nat) /\ amount # Err
               /\ \A i \in 1 .. Len(amount) : amount[i] \in Digit \cup {Plus}
               /\ Number(amount, limit) = IF due < limit THEN due ELSE NotANumber
<1>1. BaseUnits(price, decimals) \in Nat
  BY AmountsAssumption
<1> QED
  BY <1>1, PriceIsSpelled, SpelledIsRead

=============================================================================
