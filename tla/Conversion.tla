------------------------------ MODULE Conversion ------------------------------
(***************************************************************************)
(* Integers as text (bbg/src/conversion.c): my_itoa writes `input' in      *)
(* `base', and my_atoi reads back what it wrote.  The log is written with  *)
(* my_itoa (bbg/src/logger_queue.c, log_integer).                          *)
(*                                                                         *)
(* An int32_t is an integer from -Half to Half - 1.  Mixed with base,      *)
(* which is unsigned, it is taken modulo 2 * Half.  Characters are their   *)
(* ASCII codes.                                                            *)
(***************************************************************************)
EXTENDS Integers, Sequences

CONSTANTS
    Half,             \* 2^31
    Bases             \* bases asked for

ASSUME ConvAssumption ==
    /\ Half \in Nat /\ Half > 16
    /\ Bases \subseteq Nat

VARIABLES
    input,            \* what my_itoa is called with
    base,
    data,             \* what is left to be written
    str,              \* the string at ptr
    length,           \* what my_itoa returns
    head, tail,       \* of my_reverse
    pos,              \* my_atoi has read the characters before pos
    value, sign,      \* of my_atoi
    convPc            \* where the program is

convVars == <<input, base, data, str, length, head, tail, pos, value, sign, convPc>>

NUL == 0
MINUS == 45

Int32 == -Half .. Half - 1
Unsigned(i) == i % (2 * Half)
Signed(i) ==
    LET u == i % (2 * Half) IN IF u >= Half THEN u - 2 * Half ELSE u

ConvTypeOK ==
    /\ input \in Int32 /\ base \in Bases
    /\ data \in Int32 /\ value \in Int32 /\ sign \in {1, -1}
    /\ str \in Seq(0..127)
    /\ length \in 0 .. Len(str)
    /\ head \in 1 .. Len(str) + 1 /\ tail \in 0 .. Len(str)
    /\ pos \in 1 .. Len(str) + 1
    /\ convPc \in {"itoa", "refused", "digits", "reverse", "atoi", "done"}

ConvInit ==
    /\ input \in Int32 /\ base \in Bases
    /\ data = input
    /\ str = <<>> /\ length = 0
    /\ head = 1 /\ tail = 0
    /\ pos = 1 /\ value = 0 /\ sign = 1
    /\ convPc = "itoa"

-----------------------------------------------------------------------------
(* my_itoa.                                                                *)

\* [mutant] the negation is computed in more than 32 bits
NegatedWide(i) == -i

\* the negation of the least integer is itself
Negated(i) == Signed(-i)

\* Only a decimal has a sign.
ItoaStart ==
    /\ convPc = "itoa"
    /\ IF base \in 2..16
       THEN /\ convPc' = "digits"
            /\ IF data < 0 /\ base = 10
               THEN str' = <<MINUS>> /\ data' = Negated(data)
               ELSE UNCHANGED <<str, data>>
       ELSE /\ convPc' = "refused"
            /\ UNCHANGED <<str, data>>
    /\ head' = Len(str') + 1
    /\ UNCHANGED <<input, base, length, tail, pos, value, sign>>

Char(digit) == IF digit <= 9 THEN digit + 48 ELSE digit - 10 + 65

\* [mutant] the division is signed
QuotientSigned(i) == IF i < 0 THEN -((-i) \div base) ELSE i \div base

Quotient(i) == Unsigned(i) \div base

\* the last digit first
ItoaDigit ==
    /\ convPc = "digits"
    /\ str' = Append(str, Char(Unsigned(data) % base))
    /\ data' = Quotient(data)
    /\ length' = length + 1
    /\ tail' = Len(str')
    /\ convPc' = IF data' = 0 THEN "reverse" ELSE "digits"
    /\ UNCHANGED <<input, base, head, pos, value, sign>>

\* [mutant] the two in the middle are not swapped
MustSwapLess == head + 1 < tail

MustSwap == head < tail

\* my_reverse
Swap ==
    /\ convPc = "reverse"
    /\ MustSwap
    /\ str' = [str EXCEPT ![head] = str[tail], ![tail] = str[head]]
    /\ head' = head + 1 /\ tail' = tail - 1
    /\ UNCHANGED <<input, base, data, length, pos, value, sign, convPc>>

\* the terminator counts, the sign does not
ItoaEnd ==
    /\ convPc = "reverse"
    /\ ~MustSwap
    /\ str' = Append(str, NUL)
    /\ length' = length + 1
    /\ convPc' = "atoi"
    /\ UNCHANGED <<input, base, data, head, tail, pos, value, sign>>

-----------------------------------------------------------------------------
(* my_atoi.                                                                *)

\* letters are digits of the bases above 10, whatever the base
IsDigit(c) == c \in 48..57 \/ (base > 10 /\ c \in (65..90) \cup (97..122))

DigitOf(c) ==
    CASE c \in 48..57 -> c - 48
      [] c \in 65..90 -> c - 65 + 10
      [] c \in 97..122 -> c - 97 + 10

IsSign(c) == c = MINUS /\ pos = 1

AtoiDigit ==
    /\ convPc = "atoi"
    /\ LET c == str[pos]
       IN \/ /\ IsSign(c)
             /\ sign' = -1
             /\ value' = Signed(Unsigned(value) * base)
          \/ /\ ~IsSign(c) /\ IsDigit(c)
             /\ value' = Signed(Unsigned(value) * base + DigitOf(c))
             /\ UNCHANGED sign
    /\ pos' = pos + 1
    /\ UNCHANGED <<input, base, data, str, length, head, tail, convPc>>

\* the terminator, or what is not a digit
AtoiEnd ==
    /\ convPc = "atoi"
    /\ ~IsSign(str[pos]) /\ ~IsDigit(str[pos])
    /\ value' = Signed(sign * value)
    /\ convPc' = "done"
    /\ UNCHANGED <<input, base, data, str, length, head, tail, pos, sign>>

ConvNext == ItoaStart \/ ItoaDigit \/ Swap \/ ItoaEnd \/ AtoiDigit \/ AtoiEnd

ConvSpec == ConvInit /\ [][ConvNext]_convVars

-----------------------------------------------------------------------------
(* Properties.                                                             *)

\* my_atoi returns what my_itoa was given, in every base, the negative numbers
\* and the least of them included: what one does modulo 2^32 the other undoes.
RoundTrip == convPc = "done" => value = input

Negative == base = 10 /\ input < 0
Magnitude == IF Negative THEN -input ELSE Unsigned(input)

FirstDigit == IF str[1] = MINUS THEN 2 ELSE 1
Digits == Len(str) - FirstDigit

\* the number that the first i digits stand for
Prefix[i \in 0 .. Digits] ==
    IF i = 0 THEN 0
    ELSE Prefix[i - 1] * base + DigitOf(str[FirstDigit + i - 1])

\* The digits that are written are those of the number, most significant first
\* and without leading zeros: of its magnitude in decimal, of its two's
\* complement in any other base.
WritesNumeral ==
    convPc = "atoi" =>
        /\ Prefix[Digits] = Magnitude
        /\ str[1] = MINUS <=> Negative
        /\ Digits > 0
        /\ Digits > 1 => DigitOf(str[FirstDigit]) # 0
        /\ \A i \in FirstDigit .. Len(str) - 1 : DigitOf(str[i]) \in 0 .. base - 1
=============================================================================
