------------------------------ MODULE Amounts ------------------------------
(***************************************************************************)
(* Amounts are decimal texts until the client signs: what parse_units      *)
(* makes of a price, what str::parse makes of base units, and, as the      *)
(* reference, what a price is in base units.                               *)
(***************************************************************************)
EXTENDS Texts

CONSTANTS
    Radix,  \* 10 in the code; smaller, so that a short text overflows
    U64,    \* 2^64
    U128    \* 2^128

ASSUME AmountsAssumption ==
    /\ Radix \in 2 .. 10
    /\ U64 \in Nat \ {0}
    /\ U128 \in Nat
    /\ U64 <= U128

Digit == 0 .. Radix - 1

Value(digits) ==
    LET value[n \in 0 .. Len(digits)] ==
          IF n = 0 THEN 0 ELSE Radix * value[n - 1] + digits[n]
    IN  value[Len(digits)]

\* The digits of a number.
Numeral(n) ==
    LET numeral[k \in 0 .. n] ==
          IF k < Radix THEN <<k>> ELSE Append(numeral[k \div Radix], k % Radix)
    IN  numeral[n]

\* Radix to the n-th.
Power(n) ==
    LET power[k \in 0 .. n] == IF k = 0 THEN 1 ELSE Radix * power[k - 1]
    IN  power[n]

\* One plus is allowed before a number.
Unsigned(text) == IF text # <<>> /\ Head(text) = Plus THEN Tail(text) ELSE text

IsNumeral(text) == text # <<>> /\ ToSet(text) \subseteq Digit

\* str::parse of an unsigned integer below limit.
Number(text, limit) ==
    LET u == Unsigned(text)
        value == IF IsNumeral(u) THEN Value(u) ELSE NotANumber
    IN  IF value < limit THEN value ELSE NotANumber

Zeros(n) == [i \in 1 .. n |-> 0]

\* trim_start_matches('0'), and "0" for what is nothing but zeros.
TrimZeros(text) ==
    LET first == SelectInSeq(text, LAMBDA c : c # 0)
    IN  IF first = 0 THEN <<0>> ELSE SubSeq(text, first, Len(text))

\* The parts of a text before and after its first dot.
Whole(text) == SubSeq(text, 1, SelectInSeq(text, LAMBDA c : c = Dot) - 1)
Fraction(text) ==
    SubSeq(text, SelectInSeq(text, LAMBDA c : c = Dot) + 1, Len(text))

\* Mutant: the fraction is not padded.
parse_unitsUnpadded(amount, decimals) ==
    IF Dot \in ToSet(amount) /\ Len(Fraction(amount)) <= decimals
    THEN TrimZeros(Whole(amount) \o Fraction(amount)) ELSE Err

\* With a dot the text is only padded; without one it is a number, whose
\* product wraps as it does in a release build.
parse_units(amount, decimals) ==
    IF Dot \in ToSet(amount)
    THEN IF Len(Fraction(amount)) > decimals THEN Err
         ELSE TrimZeros(Whole(amount) \o Fraction(amount)
                        \o Zeros(decimals - Len(Fraction(amount))))
    ELSE IF Number(amount, U128) = NotANumber THEN Err
         ELSE Numeral((Number(amount, U128) * Power(decimals)) % U128)

\* ChargeRequest::validate_max_amount, parse_amount included.
WithinMaximum(amount, max_amount) ==
    /\ Number(amount, U64) # NotANumber
    /\ Number(max_amount, U64) # NotANumber
    /\ Number(amount, U64) <= Number(max_amount, U64)

-----------------------------------------------------------------------------

\* A price is digits with at most one dot among them, perhaps after a plus.
IsPrice(text, decimals) ==
    LET u == Unsigned(text)
    IN  IF Dot \in ToSet(u)
        THEN IsNumeral(Whole(u) \o Fraction(u)) /\ Len(Fraction(u)) <= decimals
        ELSE IsNumeral(u)

\* The base units a price stands for, computed without any width.
BaseUnits(text, decimals) ==
    LET u == Unsigned(text)
    IN  IF ~IsPrice(text, decimals) THEN NotANumber
        ELSE IF Dot \in ToSet(u)
        THEN Value(Whole(u)) * Power(decimals)
             + Value(Fraction(u)) * Power(decimals - Len(Fraction(u)))
        ELSE Value(u) * Power(decimals)
=============================================================================
