--------------------------- MODULE Conversion_proofs ---------------------------
(***************************************************************************)
(* The text conversions keep to their memory and to 32 bits, my_itoa       *)
(* writes the numeral of its argument, and my_atoi reads back what it      *)
(* wrote: for every width of the integers and every base.                  *)
(*                                                                         *)
(* ConvTypeOK is not inductive: that my_atoi stops inside the string       *)
(* follows from the terminator that my_itoa has put at its end.  What the  *)
(* digits stand for is kept as the function of the successive quotients of *)
(* the number: q[i] is what my_itoa has left after i digits.               *)
(***************************************************************************)
EXTENDS Conversion, FiniteSetTheorems, SequenceTheorems, WellFoundedInduction,
        TLAPS

USE ConvAssumption

-----------------------------------------------------------------------------
(* Arithmetic.                                                             *)

LEMMA ModRange == \A a \in Int, b \in Nat \ {0} : a % b \in 0 .. b - 1
OBVIOUS

\* a digit of my_itoa, and what is left of a number without its last digit
LEMMA DigitRange == \A a \in 0 .. 2 * Half - 1, b \in 2..16 : a % b \in 0..15
BY ModRange

LEMMA QuotientRange == \A a \in 0 .. 2 * Half - 1, b \in 2..16 : a \div b \in 0 .. Half - 1
OBVIOUS

LEMMA UnsignedRange == \A i \in Int : Unsigned(i) \in 0 .. 2 * Half - 1
BY ModRange DEF Unsigned

LEMMA SignedRange == \A i \in Int : Signed(i) \in Int32
<1> SUFFICES ASSUME NEW i \in Int PROVE Signed(i) \in Int32
    OBVIOUS
<1> DEFINE u == i % (2 * Half)
<1>1. u \in 0 .. 2 * Half - 1
    BY ModRange
<1>2. Signed(i) = IF u >= Half THEN u - 2 * Half ELSE u
    BY Zenon DEF Signed
<1> HIDE DEF u
<1> QED BY <1>1, <1>2 DEF Int32

-----------------------------------------------------------------------------
(* The invariant.                                                          *)

\* my_itoa goes on with the bases it knows only.
Converts == convPc \in {"digits", "reverse", "atoi", "done"}

\* my_atoi has its terminator before it.
BeforeNul == str[Len(str)] = NUL /\ pos <= Len(str)

ConvInv ==
    /\ ConvTypeOK
    /\ Converts => base \in 2..16
    /\ convPc = "itoa" => str = <<>> /\ length = 0 /\ tail = 0
    /\ convPc # "atoi" /\ convPc # "done" => pos = 1
    /\ convPc = "atoi" => str # <<>> /\ BeforeNul

LEMMA ConvInvInit == ConvInit => ConvInv
<1> SUFFICES ASSUME ConvInit PROVE ConvInv
    OBVIOUS
<1>1. str \in Seq(0..127) /\ Len(str) = 0
    BY EmptySeq DEF ConvInit
<1> QED BY <1>1 DEF ConvInit, ConvInv, ConvTypeOK, Converts, Int32

LEMMA StartInv == ConvInv /\ ItoaStart => ConvInv'
<1> SUFFICES ASSUME ConvInv, ItoaStart PROVE ConvInv'
    OBVIOUS
<1>1. data' \in Int32
    <2>1. data \in Int32 /\ -data \in Int
        BY DEF ConvInv, ConvTypeOK, Int32
    <2>2. data' = data \/ data' = Signed(-data)
        BY DEF ItoaStart, Negated
    <2> QED BY <2>1, <2>2, SignedRange
<1>2. str' \in Seq(0..127) /\ Len(str') \in Nat
    <2>1. str' = str \/ str' = <<MINUS>>
        BY DEF ItoaStart
    <2>2. <<MINUS>> \in Seq(0..127)
        BY DEF MINUS
    <2> QED BY <2>1, <2>2, LenProperties DEF ConvInv, ConvTypeOK
<1>3. /\ convPc' \in {"digits", "refused"} /\ (convPc' = "digits" => base \in 2..16)
      /\ head' = Len(str') + 1
      /\ UNCHANGED <<input, base, length, tail, pos, value, sign>>
      /\ length = 0 /\ tail = 0 /\ pos = 1
    BY DEF ItoaStart, ConvInv
<1> QED BY <1>1, <1>2, <1>3 DEF ConvInv, ConvTypeOK, Converts

LEMMA DigitInv == ConvInv /\ ItoaDigit => ConvInv'
<1> SUFFICES ASSUME ConvInv, ItoaDigit PROVE ConvInv'
    OBVIOUS
<1>1. base \in 2..16 /\ data \in Int /\ Len(str) \in Nat /\ str \in Seq(0..127)
    BY LenProperties DEF ConvInv, ConvTypeOK, Converts, ItoaDigit, Int32
<1>2. Unsigned(data) \in 0 .. 2 * Half - 1
    BY <1>1, UnsignedRange
<1>3. data' \in Int32
    <2>1. data' = Unsigned(data) \div base
        BY DEF ItoaDigit, Quotient
    <2>2. data' \in 0 .. Half - 1
        BY <1>1, <1>2, <2>1, QuotientRange, Zenon
    <2> QED BY <2>2 DEF Int32
<1>4. /\ str' = Append(str, Char(Unsigned(data) % base))
      /\ Char(Unsigned(data) % base) \in 0..127
    <2>1. Unsigned(data) % base \in 0..15
        BY <1>1, <1>2, DigitRange, Zenon
    <2>2. \A d \in 0..15 : Char(d) \in 0..127
        BY DEF Char
    <2>3. str' = Append(str, Char(Unsigned(data) % base))
        BY DEF ItoaDigit
    <2> QED BY <2>1, <2>2, <2>3, Zenon
<1>5. str' \in Seq(0..127) /\ Len(str') = Len(str) + 1
    BY <1>1, <1>4, AppendProperties
<1>6. /\ length' = length + 1 /\ tail' = Len(str') /\ convPc' \in {"reverse", "digits"}
      /\ UNCHANGED <<input, base, head, pos, value, sign>> /\ pos = 1
    BY DEF ItoaDigit, ConvInv
<1> QED BY <1>1, <1>3, <1>5, <1>6 DEF ConvInv, ConvTypeOK, Converts

LEMMA SwapInv == ConvInv /\ Swap => ConvInv'
<1> SUFFICES ASSUME ConvInv, Swap PROVE ConvInv'
    OBVIOUS
<1>1. /\ str \in Seq(0..127) /\ Len(str) \in Nat
      /\ head \in 1 .. Len(str) + 1 /\ tail \in 0 .. Len(str) /\ head < tail
      /\ head' = head + 1 /\ tail' = tail - 1
      /\ UNCHANGED <<input, base, data, length, pos, value, sign, convPc>>
      /\ convPc = "reverse"
    BY LenProperties DEF ConvInv, ConvTypeOK, Swap, MustSwap
<1>2. str[head] \in 0..127 /\ str[tail] \in 0..127
    <2>1. head \in 1 .. Len(str) /\ tail \in 1 .. Len(str)
        BY <1>1
    <2> QED BY <1>1, <2>1, ElementOfSeq, Zenon
<1>3. str' \in Seq(0..127) /\ Len(str') = Len(str)
    <2> DEFINE half == [str EXCEPT ![head] = str[tail]]
    <2>1. half \in Seq(0..127) /\ Len(half) = Len(str)
        BY <1>1, <1>2, ExceptSeq
    <2>2. str' = [half EXCEPT ![tail] = str[head]]
        BY DEF Swap
    <2> HIDE DEF half
    <2> QED BY <1>1, <1>2, <2>1, <2>2, ExceptSeq
<1> QED BY <1>1, <1>3 DEF ConvInv, ConvTypeOK, Converts

LEMMA EndInv == ConvInv /\ ItoaEnd => ConvInv'
<1> SUFFICES ASSUME ConvInv, ItoaEnd PROVE ConvInv'
    OBVIOUS
<1>1. str \in Seq(0..127) /\ Len(str) \in Nat /\ NUL \in 0..127
    BY LenProperties DEF ConvInv, ConvTypeOK, NUL
<1>2. /\ str' = Append(str, NUL) /\ length' = length + 1 /\ convPc = "reverse"
      /\ convPc' = "atoi" /\ pos = 1
      /\ UNCHANGED <<input, base, data, head, tail, pos, value, sign>>
    BY DEF ItoaEnd, ConvInv
<1>3. str' \in Seq(0..127) /\ Len(str') = Len(str) + 1 /\ str'[Len(str')] = NUL
    BY <1>1, <1>2, AppendProperties
<1>4. str' # <<>>
    BY <1>1, <1>3
<1> QED BY <1>1, <1>2, <1>3, <1>4 DEF ConvInv, ConvTypeOK, Converts, BeforeNul

-----------------------------------------------------------------------------
(* my_atoi.                                                                *)

LEMMA AtoiDigitInv == ConvInv /\ AtoiDigit => ConvInv'
<1> SUFFICES ASSUME ConvInv, AtoiDigit PROVE ConvInv'
    OBVIOUS
<1> DEFINE c == str[pos]
<1>1. /\ convPc = "atoi" /\ base \in 2..16 /\ Len(str) \in Nat /\ str # <<>>
      /\ str[Len(str)] = NUL /\ pos \in 1 .. Len(str) /\ value \in Int
    BY LenProperties DEF ConvInv, ConvTypeOK, Converts, BeforeNul, AtoiDigit, Int32
<1>2. IsSign(c) \/ IsDigit(c)
    BY DEF AtoiDigit
<1>3. pos < Len(str)
    <2>1. c # NUL
        BY <1>2 DEF IsSign, IsDigit, NUL, MINUS
    <2> QED BY <1>1, <2>1
<1>4. value' \in Int32 /\ sign' \in {1, -1}
    <2>1. Unsigned(value) * base \in Int
        BY <1>1, UnsignedRange
    <2>2. CASE IsSign(c)
        BY <2>1, <2>2, SignedRange DEF AtoiDigit
    <2>3. CASE ~IsSign(c)
        <3>1. IsDigit(c) /\ value' = Signed(Unsigned(value) * base + DigitOf(c)) /\ sign' = sign
            BY <2>3 DEF AtoiDigit
        <3>2. DigitOf(c) \in Int
            BY <3>1 DEF IsDigit, DigitOf
        <3>3. Unsigned(value) * base + DigitOf(c) \in Int
            BY <2>1, <3>2
        <3> QED BY <3>1, <3>3, SignedRange DEF ConvInv, ConvTypeOK
    <2> QED BY <2>2, <2>3
<1>5. pos' = pos + 1 /\ UNCHANGED <<input, base, data, str, length, head, tail, convPc>>
    BY DEF AtoiDigit
<1> HIDE DEF c
<1> QED BY <1>1, <1>3, <1>4, <1>5 DEF ConvInv, ConvTypeOK, Converts, BeforeNul

LEMMA AtoiEndInv == ConvInv /\ AtoiEnd => ConvInv'
<1> SUFFICES ASSUME ConvInv, AtoiEnd PROVE ConvInv'
    OBVIOUS
<1>1. value' \in Int32
    <2>1. sign * value \in Int
        BY DEF ConvInv, ConvTypeOK, Int32
    <2>2. value' = Signed(sign * value)
        BY DEF AtoiEnd
    <2> QED BY <2>1, <2>2, SignedRange
<1>2. /\ convPc = "atoi" /\ convPc' = "done"
      /\ UNCHANGED <<input, base, data, str, length, head, tail, pos, sign>>
    BY DEF AtoiEnd
<1> QED BY <1>1, <1>2 DEF ConvInv, ConvTypeOK, Converts

-----------------------------------------------------------------------------
(* The theorems.                                                           *)

LEMMA ConvInvStep == ConvInv /\ [ConvNext]_convVars => ConvInv'
<1> SUFFICES ASSUME ConvInv, [ConvNext]_convVars PROVE ConvInv'
    OBVIOUS
<1>1. CASE ConvNext
    BY <1>1, StartInv, DigitInv, SwapInv, EndInv, AtoiDigitInv, AtoiEndInv DEF ConvNext
<1>2. CASE UNCHANGED convVars
    BY <1>2 DEF convVars, ConvInv, ConvTypeOK, Converts, BeforeNul
<1> QED BY <1>1, <1>2

\* my_itoa, my_reverse and my_atoi use no character outside the string, which ends
\* with the terminator that my_atoi stops at, and all their integers are int32_t.
THEOREM TypeCorrect == ConvSpec => []ConvTypeOK
<1>1. ConvInv => ConvTypeOK
    BY DEF ConvInv
<1> QED BY <1>1, ConvInvInit, ConvInvStep, PTL DEF ConvSpec
-----------------------------------------------------------------------------
(* The numeral.                                                            *)

LEMMA Division == \A a \in Nat, b \in Nat \ {0} : a = (a \div b) * b + (a % b)
OBVIOUS

LEMMA QuotientNat == \A a \in Nat, b \in Nat \ {0} : a \div b \in Nat
OBVIOUS

LEMMA ModOf == \A b \in Nat \ {0} : \A a \in -b .. b - 1 : a % b = IF a < 0 THEN a + b ELSE a
OBVIOUS

LEMMA UnsignedOf == \A i \in Int32 : Unsigned(i) = IF i < 0 THEN i + 2 * Half ELSE i
<1> SUFFICES ASSUME NEW i \in Int32 PROVE Unsigned(i) = IF i < 0 THEN i + 2 * Half ELSE i
    OBVIOUS
<1>1. 2 * Half \in Nat \ {0} /\ i \in -(2 * Half) .. 2 * Half - 1
    BY DEF Int32
<1>2. i % (2 * Half) = IF i < 0 THEN i + 2 * Half ELSE i
    BY <1>1, ModOf
<1> QED BY <1>2 DEF Unsigned

LEMMA SignedOf ==
    \A i \in -Half .. 2 * Half - 1 : Signed(i) = IF i >= Half THEN i - 2 * Half ELSE i
<1> SUFFICES ASSUME NEW i \in -Half .. 2 * Half - 1
             PROVE  Signed(i) = IF i >= Half THEN i - 2 * Half ELSE i
    OBVIOUS
<1> DEFINE u == i % (2 * Half)
<1>1. 2 * Half \in Nat \ {0} /\ i \in -(2 * Half) .. 2 * Half - 1
    OBVIOUS
<1>2. u = IF i < 0 THEN i + 2 * Half ELSE i
    BY <1>1, ModOf
<1>3. Signed(i) = IF u >= Half THEN u - 2 * Half ELSE u
    BY Zenon DEF Signed
<1> HIDE DEF u
<1> QED BY <1>2, <1>3

\* nothing is lost between an unsigned number and an int32_t
LEMMA UnsignedSigned == \A u \in 0 .. 2 * Half - 1 : Unsigned(Signed(u)) = u
<1> SUFFICES ASSUME NEW u \in 0 .. 2 * Half - 1 PROVE Unsigned(Signed(u)) = u
    OBVIOUS
<1>1. Signed(u) = IF u >= Half THEN u - 2 * Half ELSE u
    BY SignedOf
<1>2. Signed(u) \in Int32
    BY SignedRange
<1>3. Unsigned(Signed(u)) = IF Signed(u) < 0 THEN Signed(u) + 2 * Half ELSE Signed(u)
    BY <1>2, UnsignedOf, Zenon
<1> QED BY <1>1, <1>3

LEMMA CharOf ==
    \A d \in 0..15 : /\ DigitOf(Char(d)) = d /\ Char(d) # MINUS
                     /\ d < base /\ base \in 2..16 => IsDigit(Char(d))
BY DEF DigitOf, Char, IsDigit, MINUS

\* where the digits start
Place == IF Negative THEN 2 ELSE 1

\* what my_itoa leaves of the magnitude after each of n digits
Divided(n, q) ==
    /\ n \in Nat /\ q \in [0 .. n -> 0 .. 2 * Half - 1]
    /\ q[0] = Magnitude
    /\ \A i \in 1 .. n : q[i] = q[i - 1] \div base
    /\ \A i \in 1 .. n - 1 : q[i] # 0

LastDigit(u) == Char(u % base)

SignWritten == Negative => str[1] = MINUS

Writing(n, q) ==
    /\ Divided(n, q) /\ q[n] = Unsigned(data) /\ (n > 0 => q[n] # 0)
    /\ SignWritten
    /\ head = Place /\ Len(str) = Place - 1 + n
    /\ \A i \in 0 .. n - 1 : str[Place + i] = LastDigit(q[i])

\* my_reverse has swapped the digits outside head .. tail.
Reversing(n, q) ==
    /\ Divided(n, q) /\ q[n] = 0 /\ n > 0
    /\ SignWritten
    /\ Len(str) = Place - 1 + n
    /\ head >= Place /\ head + tail = Place + Len(str) /\ head <= tail + 1
    /\ \A i \in 0 .. n - 1 :
           str[Place + i] = LastDigit(q[IF Place + i \in head .. tail THEN i ELSE n - 1 - i])

\* most significant digit first
Numeral(n, q) ==
    /\ Divided(n, q) /\ q[n] = 0 /\ n > 0
    /\ SignWritten
    /\ Len(str) = Place + n /\ str[Len(str)] = NUL
    /\ \A i \in 0 .. n - 1 : str[Place + i] = LastDigit(q[n - 1 - i])

\* my_atoi has read the number without the digits that follow.
Reading(n, q) ==
    \/ Negative /\ pos = 1 /\ value = 0 /\ sign = 1
    \/ /\ pos \in Place .. Place + n
       /\ Unsigned(value) = q[n - (pos - Place)]
       /\ sign = IF Negative THEN -1 ELSE 1

TextInv ==
    /\ convPc = "itoa" => data = input
    /\ convPc \in {"itoa", "digits", "reverse"} => value = 0 /\ sign = 1
    /\ convPc = "digits" => \E n, q : Writing(n, q)
    /\ convPc = "reverse" => \E n, q : Reversing(n, q)
    /\ convPc = "atoi" => \E n, q : Numeral(n, q) /\ Reading(n, q)
    /\ RoundTrip
LEMMA MagnitudeRange ==
    ConvInv => /\ Magnitude \in 0 .. 2 * Half - 1 /\ input \in Int32
               /\ Negative => Magnitude = -input /\ -input \in 1 .. Half
<1> SUFFICES ASSUME ConvInv
             PROVE  /\ Magnitude \in 0 .. 2 * Half - 1 /\ input \in Int32
                    /\ Negative => Magnitude = -input /\ -input \in 1 .. Half
    OBVIOUS
<1>1. input \in Int32
    BY DEF ConvInv, ConvTypeOK
<1>2. Negative => -input \in 1 .. Half
    BY <1>1 DEF Negative, Int32
<1>3. Unsigned(input) \in 0 .. 2 * Half - 1
    BY <1>1, UnsignedRange DEF Int32
<1> QED BY <1>1, <1>2, <1>3 DEF Magnitude

LEMMA TextInit == ConvInit => TextInv
BY DEF ConvInit, TextInv, RoundTrip

LEMMA StartText == ConvInv /\ TextInv /\ ItoaStart => TextInv'
<1> SUFFICES ASSUME ConvInv, TextInv, ItoaStart PROVE TextInv'
    OBVIOUS
<1>1. /\ data = input /\ value = 0 /\ sign = 1 /\ str = <<>>
      /\ UNCHANGED <<input, base, value, sign>>
      /\ convPc' \in {"digits", "refused"}
      /\ head' = Len(str') + 1
    BY DEF ItoaStart, TextInv, ConvInv
<1>2. (Negative <=> Negative') /\ Place' = Place /\ Magnitude' = Magnitude
    BY <1>1 DEF Place, Negative, Magnitude
<1>3. ASSUME convPc' = "digits" PROVE \E n, q : Writing(n, q)'
    <2>1. IF Negative THEN str' = <<MINUS>> /\ data' = Negated(input)
          ELSE str' = <<>> /\ data' = input
        BY <1>1, <1>3 DEF ItoaStart, Negative
    <2>2. Unsigned(data') = Magnitude
        <3>1. CASE Negative
            <4>1. -input \in 1 .. Half /\ Magnitude = -input
                BY <3>1, MagnitudeRange
            <4>2. data' = Signed(-input)
                BY <2>1, <3>1 DEF Negated
            <4>3. -input \in 0 .. 2 * Half - 1
                BY <4>1
            <4> QED BY <4>1, <4>2, <4>3, UnsignedSigned
        <3>2. CASE ~Negative
            BY <2>1, <3>2 DEF Magnitude
        <3> QED BY <3>1, <3>2
    <2>3. Len(str') = Place - 1 /\ (Negative => str'[1] = MINUS)
        <3>1. Len(<<>>) = 0 /\ Len(<<MINUS>>) = 1 /\ <<MINUS>>[1] = MINUS
            OBVIOUS
        <3>2. CASE Negative
            BY <2>1, <3>1, <3>2 DEF Place
        <3>3. CASE ~Negative
            BY <2>1, <3>1, <3>3 DEF Place
        <3> QED BY <3>2, <3>3
    <2> DEFINE q == [i \in 0 .. 0 |-> Magnitude]
    <2>4. Divided(0, q)'
        <3>1. Magnitude \in 0 .. 2 * Half - 1
            BY MagnitudeRange
        <3> QED BY <1>2, <3>1 DEF Divided
    <2>5. Writing(0, q)'
        BY <1>1, <1>2, <2>2, <2>3, <2>4 DEF Writing, SignWritten, Place
    <2> QED BY <2>5
<1>4. RoundTrip'
    BY <1>1 DEF RoundTrip
<1> QED BY <1>1, <1>3, <1>4 DEF TextInv

\* one more digit
LEMMA OneMore ==
    ASSUME ConvInv, base \in 2..16, NEW n, NEW q, Divided(n, q), n > 0 => q[n] # 0
    PROVE  \E r : /\ Divided(n + 1, r) /\ r[n + 1] = q[n] \div base
                  /\ \A i \in 0 .. n : r[i] = q[i]
<1> DEFINE r == [i \in 0 .. n + 1 |-> IF i = n + 1 THEN q[n] \div base ELSE q[i]]
<1>1. n \in Nat /\ q \in [0 .. n -> 0 .. 2 * Half - 1]
    BY DEF Divided
<1>2. q[n] \in 0 .. 2 * Half - 1 /\ q[n] \div base \in 0 .. 2 * Half - 1
    <2>1. q[n] \in 0 .. 2 * Half - 1
        BY <1>1
    <2>2. q[n] \div base \in 0 .. Half - 1
        BY <2>1, QuotientRange, Zenon
    <2> QED BY <2>1, <2>2
<1>3. r[n + 1] = q[n] \div base /\ \A i \in 0 .. n : r[i] = q[i]
    BY <1>1
<1>4. r \in [0 .. n + 1 -> 0 .. 2 * Half - 1]
    BY <1>1, <1>2
<1> HIDE DEF r
<1>5. r[0] = Magnitude
    BY <1>1, <1>3 DEF Divided
<1>6. ASSUME NEW i \in 1 .. n + 1 PROVE r[i] = r[i - 1] \div base
    <2>1. CASE i = n + 1
        BY <1>1, <1>3, <2>1
    <2>2. CASE i # n + 1
        <3>1. i \in 1 .. n /\ i \in 0 .. n /\ i - 1 \in 0 .. n
            BY <1>1, <2>2
        <3> QED BY <1>3, <3>1 DEF Divided
    <2> QED BY <2>1, <2>2
<1>7. ASSUME NEW i \in 1 .. n PROVE r[i] # 0
    <2>1. CASE i = n
        BY <1>1, <1>3, <2>1
    <2>2. CASE i # n
        <3>1. i \in 1 .. n - 1 /\ i \in 0 .. n
            BY <1>1, <2>2
        <3> QED BY <1>3, <3>1 DEF Divided
    <2> QED BY <2>1, <2>2
<1>8. n + 1 \in Nat /\ n + 1 - 1 = n
    BY <1>1
<1>9. Divided(n + 1, r)
    BY <1>4, <1>5, <1>6, <1>7, <1>8 DEF Divided
<1> QED BY <1>3, <1>9

LEMMA DigitText == ConvInv /\ TextInv /\ ItoaDigit => TextInv'
<1> SUFFICES ASSUME ConvInv, TextInv, ItoaDigit PROVE TextInv'
    OBVIOUS
<1>1. PICK n, q : Writing(n, q)
    BY DEF TextInv, ItoaDigit
<1>2. /\ base \in 2..16 /\ str \in Seq(0..127) /\ Len(str) \in Nat /\ data \in Int
      /\ UNCHANGED <<input, base, head, value, sign>>
      /\ value = 0 /\ sign = 1
      /\ str' = Append(str, LastDigit(Unsigned(data)))
      /\ data' = Unsigned(data) \div base
      /\ tail' = Len(str')
      /\ convPc' = IF data' = 0 THEN "reverse" ELSE "digits"
    BY LenProperties
       DEF ConvInv, ConvTypeOK, Converts, TextInv, ItoaDigit, LastDigit, Quotient, Int32
<1>3. PICK r : /\ Divided(n + 1, r) /\ r[n + 1] = q[n] \div base
               /\ \A i \in 0 .. n : r[i] = q[i]
    BY <1>1, <1>2, OneMore DEF Writing
<1>4. n \in Nat /\ Len(str) = Place - 1 + n /\ q[n] = Unsigned(data)
    BY <1>1 DEF Writing, Divided
<1>5. (Negative <=> Negative') /\ Place' = Place /\ Magnitude' = Magnitude /\ Place \in 1..2
    BY <1>2 DEF Place, Negative, Magnitude
<1>6. Divided(n + 1, r)'
    BY <1>2, <1>3, <1>5 DEF Divided
<1>7. /\ Len(str') = Place + n
      /\ \A i \in 1 .. Len(str) : str'[i] = str[i]
      /\ str'[Len(str) + 1] = LastDigit(Unsigned(data))
    <2>1. LastDigit(Unsigned(data)) \in 0..127
        <3>1. Unsigned(data) % base \in 0..15
            BY <1>2, UnsignedRange, DigitRange, Zenon
        <3> QED BY <3>1 DEF LastDigit, Char
    <2> QED BY <1>2, <1>4, <1>5, <2>1, AppendProperties
<1>8. SignWritten'
    <2> SUFFICES ASSUME Negative PROVE str'[1] = MINUS
        BY <1>5 DEF SignWritten
    <2>1. 1 \in 1 .. Len(str)
        BY <1>4 DEF Place
    <2> QED BY <1>1, <1>7, <2>1 DEF Writing, SignWritten
<1>9. \A i \in 0 .. n : str'[Place + i] = LastDigit(r[i])
    <2> SUFFICES ASSUME NEW i \in 0 .. n PROVE str'[Place + i] = LastDigit(r[i])
        OBVIOUS
    <2>1. CASE i = n
        <3>1. Place + i = Len(str) + 1
            BY <1>4, <1>5, <2>1
        <3> QED BY <1>3, <1>4, <1>7, <2>1, <3>1
    <2>2. CASE i # n
        <3>1. i \in 0 .. n - 1 /\ Place + i \in 1 .. Len(str)
            BY <1>4, <1>5, <2>2
        <3> QED BY <1>1, <1>3, <1>7, <3>1 DEF Writing
    <2> QED BY <2>1, <2>2
<1>10. \A i : LastDigit(i)' = LastDigit(i)
    BY <1>2 DEF LastDigit
<1>11. Unsigned(data') = data' /\ data' = r[n + 1]
    <2>1. data' \in 0 .. Half - 1
        <3>1. Unsigned(data) \in 0 .. 2 * Half - 1
            BY <1>2, UnsignedRange, Zenon
        <3>2. data' = Unsigned(data) \div base
            BY <1>2
        <3> QED BY <1>2, <3>1, <3>2, QuotientRange, Zenon
    <2>2. data' \in Int32 /\ ~(data' < 0)
        BY <2>1 DEF Int32
    <2> QED BY <1>2, <1>3, <1>4, <2>2, UnsignedOf
<1>12. CASE data' = 0
    <2>1. Reversing(n + 1, r)'
        <3>1. \A i \in 0 .. n : Place + i \in head .. tail'
            <4>1. head = Place /\ tail' = Place + n
                BY <1>1, <1>2, <1>7 DEF Writing
            <4> QED BY <1>4, <1>5, <4>1
        <3>2. \A i \in 0 .. n :
                  str'[Place + i] =
                      LastDigit(r[IF Place + i \in head .. tail' THEN i ELSE n + 1 - 1 - i])
            BY <1>9, <3>1
        <3> QED BY <1>1, <1>2, <1>4, <1>5, <1>6, <1>7, <1>8, <1>10, <1>11, <1>12, <3>2
                DEF Reversing, Writing
    <2> QED BY <1>2, <1>12, <2>1 DEF TextInv, RoundTrip
<1>13. CASE data' # 0
    <2>1. Writing(n + 1, r)'
        BY <1>1, <1>2, <1>4, <1>5, <1>6, <1>7, <1>8, <1>9, <1>10, <1>11, <1>13
           DEF Writing
    <2> QED BY <1>2, <1>13, <2>1 DEF TextInv, RoundTrip
<1> QED BY <1>12, <1>13
\* the digits that have changed places
LEMMA SwapText == ConvInv /\ TextInv /\ Swap => TextInv'
<1> SUFFICES ASSUME ConvInv, TextInv, Swap PROVE TextInv'
    OBVIOUS
<1>1. PICK n, q : Reversing(n, q)
    BY DEF TextInv, Swap
<1>2. /\ str \in Seq(0..127) /\ Len(str) \in Nat /\ base \in 2..16
      /\ head \in 1 .. Len(str) + 1 /\ tail \in 0 .. Len(str) /\ head < tail
      /\ head' = head + 1 /\ tail' = tail - 1
      /\ UNCHANGED <<input, base, data, length, pos, value, sign, convPc>>
      /\ convPc = "reverse"
      /\ str' = [str EXCEPT ![head] = str[tail], ![tail] = str[head]]
    BY LenProperties DEF ConvInv, ConvTypeOK, Converts, Swap, MustSwap
<1>3. /\ n \in Nat /\ n > 0 /\ Len(str) = Place - 1 + n /\ Place \in 1..2
      /\ head >= Place /\ head + tail = Place + Len(str)
    BY <1>1 DEF Reversing, Divided, Place
<1>4. /\ Len(str') = Len(str)
      /\ \A i \in 1 .. Len(str) :
             str'[i] = IF i = tail THEN str[head] ELSE IF i = head THEN str[tail] ELSE str[i]
    <2>1. /\ head \in 1 .. Len(str) /\ tail \in 1 .. Len(str)
          /\ str[head] \in 0..127 /\ str[tail] \in 0..127
        <3>1. head \in 1 .. Len(str) /\ tail \in 1 .. Len(str)
            BY <1>2
        <3> QED BY <1>2, <3>1, ElementOfSeq, Zenon
    <2>3. str' \in Seq(0..127) /\ Len(str') = Len(str)
        <3> DEFINE half == [str EXCEPT ![head] = str[tail]]
        <3>1. half \in Seq(0..127) /\ Len(half) = Len(str)
            BY <1>2, <2>1, ExceptSeq
        <3>2. str' = [half EXCEPT ![tail] = str[head]]
            BY <1>2
        <3> HIDE DEF half
        <3> QED BY <1>2, <2>1, <3>1, <3>2, ExceptSeq
    <2>4. DOMAIN str = 1 .. Len(str)
        BY <1>2, LenProperties
    <2> QED BY <1>2, <2>1, <2>3, <2>4
<1>5. /\ (Negative <=> Negative') /\ Place' = Place /\ Magnitude' = Magnitude
      /\ \A i : LastDigit(i)' = LastDigit(i)
    BY <1>2 DEF Place, Negative, Magnitude, LastDigit
<1>6. Divided(n, q)'
    BY <1>1, <1>2, <1>5 DEF Divided, Reversing
<1>7. SignWritten'
    <2> SUFFICES ASSUME Negative PROVE str'[1] = MINUS
        BY <1>5 DEF SignWritten
    <2>1. 1 \in 1 .. Len(str) /\ 1 # head /\ 1 # tail
        BY <1>2, <1>3 DEF Place
    <2> QED BY <1>1, <1>4, <2>1 DEF Reversing, SignWritten
<1>8. ASSUME NEW i \in 0 .. n - 1
      PROVE  str'[Place + i] =
                 LastDigit(q[IF Place + i \in head + 1 .. tail - 1 THEN i ELSE n - 1 - i])
    <2> DEFINE digit(j) == LastDigit(q[IF Place + j \in head .. tail THEN j ELSE n - 1 - j])
    <2>1. \A j \in 0 .. n - 1 : str[Place + j] = digit(j)
        BY <1>1 DEF Reversing
    <2>2. Place + i \in 1 .. Len(str)
        BY <1>3
    <2> HIDE DEF digit
    <2>3. head \in Int /\ tail \in Int /\ head < tail
        BY <1>2
    <2>4. /\ Place \in Int /\ i \in Int /\ n \in Int /\ 0 <= i /\ i <= n - 1
          /\ head + tail = Place + (Place - 1 + n)
        BY <1>3
    <2>5. CASE Place + i = tail
        <3>1. n - 1 - i \in 0 .. n - 1 /\ Place + (n - 1 - i) = head
            BY <2>3, <2>4, <2>5
        <3>2. str[head] = LastDigit(q[n - 1 - i])
            BY <1>2, <2>1, <2>3, <3>1 DEF digit
        <3>3. ~(Place + i \in head + 1 .. tail - 1)
            BY <2>3, <2>4, <2>5
        <3> QED BY <1>4, <2>2, <2>5, <3>2, <3>3
    <2>6. CASE Place + i = head
        <3>1. n - 1 - i \in 0 .. n - 1 /\ Place + (n - 1 - i) = tail
            BY <2>3, <2>4, <2>6
        <3>2. str[tail] = LastDigit(q[n - 1 - i])
            BY <1>2, <2>1, <2>3, <3>1 DEF digit
        <3>3. ~(Place + i \in head + 1 .. tail - 1) /\ Place + i # tail
            BY <2>3, <2>4, <2>6
        <3> QED BY <1>4, <2>2, <2>6, <3>2, <3>3
    <2>7. CASE Place + i # head /\ Place + i # tail
        <3>1. Place + i \in head .. tail <=> Place + i \in head + 1 .. tail - 1
            BY <2>3, <2>4, <2>7
        <3>2. str'[Place + i] = str[Place + i]
            BY <1>4, <2>2, <2>7
        <3> QED BY <2>1, <3>1, <3>2 DEF digit
    <2> QED BY <2>5, <2>6, <2>7
<1>9. head + 1 >= Place /\ head + 1 + (tail - 1) = Place + Len(str) /\ head + 1 <= tail - 1 + 1
    BY <1>2, <1>3
<1>10. Reversing(n, q)'
    <2>1. q[n] = 0
        BY <1>1 DEF Reversing
    <2>2. /\ Len(str') = Place' - 1 + n
          /\ head' >= Place' /\ head' + tail' = Place' + Len(str') /\ head' <= tail' + 1
        BY <1>2, <1>3, <1>4, <1>5, <1>9
    <2>3. \A i \in 0 .. n - 1 :
              (str[Place + i] =
                   LastDigit(q[IF Place + i \in head .. tail THEN i ELSE n - 1 - i]))'
        BY <1>2, <1>5, <1>8
    <2> QED BY <1>3, <1>6, <1>7, <2>1, <2>2, <2>3 DEF Reversing
<1> QED BY <1>2, <1>10 DEF TextInv, RoundTrip

LEMMA EndText == ConvInv /\ TextInv /\ ItoaEnd => TextInv'
<1> SUFFICES ASSUME ConvInv, TextInv, ItoaEnd PROVE TextInv'
    OBVIOUS
<1>1. PICK n, q : Reversing(n, q)
    BY DEF TextInv, ItoaEnd
<1>2. /\ str \in Seq(0..127) /\ Len(str) \in Nat /\ head \in Int /\ tail \in Int
      /\ ~(head < tail)
      /\ str' = Append(str, NUL) /\ convPc' = "atoi"
      /\ UNCHANGED <<input, base, pos, value, sign>>
      /\ pos = 1 /\ value = 0 /\ sign = 1
    BY LenProperties DEF ConvInv, ConvTypeOK, ItoaEnd, MustSwap, TextInv
<1>3. /\ n \in Nat /\ n > 0 /\ Len(str) = Place - 1 + n /\ Place \in 1..2
      /\ head + tail = Place + Len(str) /\ head <= tail + 1 /\ q[n] = 0
    BY <1>1 DEF Reversing, Divided, Place
<1>4. /\ Len(str') = Place + n /\ str'[Place + n] = NUL
      /\ \A i \in 1 .. Len(str) : str'[i] = str[i]
    <2>1. NUL \in 0..127 /\ Len(str) + 1 = Place + n
        BY <1>3 DEF NUL
    <2> QED BY <1>2, <1>3, <2>1, AppendProperties
<1>5. /\ (Negative <=> Negative') /\ Place' = Place /\ Magnitude' = Magnitude
      /\ \A i : LastDigit(i)' = LastDigit(i)
    BY <1>2 DEF Place, Negative, Magnitude, LastDigit
<1>6. Divided(n, q)'
    BY <1>1, <1>2, <1>5 DEF Divided, Reversing
<1>7. SignWritten'
    <2> SUFFICES ASSUME Negative PROVE str'[1] = MINUS
        BY <1>5 DEF SignWritten
    <2>1. 1 \in 1 .. Len(str)
        BY <1>3
    <2> QED BY <1>1, <1>4, <2>1 DEF Reversing, SignWritten
<1>8. ASSUME NEW i \in 0 .. n - 1 PROVE str'[Place + i] = LastDigit(q[n - 1 - i])
    <2>1. Place + i \in 1 .. Len(str)
        BY <1>3
    <2>2. str[Place + i] = LastDigit(q[IF Place + i \in head .. tail THEN i ELSE n - 1 - i])
        BY <1>1 DEF Reversing
    <2>3. Place + i \in head .. tail => n - 1 - i = i
        BY <1>2, <1>3
    <2> QED BY <1>4, <2>1, <2>2, <2>3
<1>9. Numeral(n, q)'
    BY <1>3, <1>4, <1>5, <1>6, <1>7, <1>8 DEF Numeral
<1>10. Reading(n, q)'
    <2>1. CASE Negative
        BY <1>2, <1>5, <2>1 DEF Reading
    <2>2. CASE ~Negative
        <3>1. Place = 1 /\ pos' \in Place .. Place + n /\ n - (pos' - Place) = n
            BY <1>2, <1>3, <2>2 DEF Place
        <3>2. Unsigned(value') = 0
            <4>1. 0 \in Int32 /\ ~(0 < 0)
                BY DEF Int32
            <4> QED BY <1>2, <4>1, UnsignedOf
        <3> QED BY <1>2, <1>3, <1>5, <2>2, <3>1, <3>2 DEF Reading
    <2> QED BY <2>1, <2>2
<1> QED BY <1>2, <1>9, <1>10 DEF TextInv, RoundTrip
-----------------------------------------------------------------------------
(* my_atoi reads the digits of the numeral, and nothing else.              *)

LEMMA DigitRead ==
    ASSUME base \in 2..16, NEW u \in 0 .. 2 * Half - 1
    PROVE  /\ LastDigit(u) # MINUS /\ IsDigit(LastDigit(u))
           /\ DigitOf(LastDigit(u)) = u % base /\ u % base \in 0 .. base - 1
<1>1. u % base \in 0..15 /\ u % base \in 0 .. base - 1
    BY DigitRange, ModRange
<1> DEFINE d == u % base
<1>2. d < base
    BY <1>1
<1> HIDE DEF d
<1>3. d \in 0..15
    BY <1>1 DEF d
<1>4. DigitOf(Char(d)) = d /\ Char(d) # MINUS /\ IsDigit(Char(d))
    BY <1>2, <1>3, CharOf
<1> QED BY <1>1, <1>4 DEF LastDigit, d

\* What my_atoi reads at pos.
LEMMA NextDigit ==
    ASSUME ConvInv, convPc = "atoi", NEW n, NEW q, Numeral(n, q), Reading(n, q)
    PROVE  \/ /\ Negative /\ pos = 1 /\ value = 0 /\ sign = 1 /\ IsSign(str[pos])
           \/ \E k \in 0 .. n - 1 :
                  /\ pos = Place + (n - 1 - k) /\ sign = IF Negative THEN -1 ELSE 1
                  /\ Unsigned(value) = q[k] \div base
                  /\ q[k] \in 0 .. 2 * Half - 1
                  /\ ~IsSign(str[pos]) /\ IsDigit(str[pos])
                  /\ DigitOf(str[pos]) = q[k] % base
           \/ /\ pos = Place + n /\ sign = IF Negative THEN -1 ELSE 1
              /\ Unsigned(value) = Magnitude
              /\ ~IsSign(str[pos]) /\ ~IsDigit(str[pos])
<1>1. /\ n \in Nat /\ q[0] = Magnitude /\ \A i \in 0 .. n : q[i] \in 0 .. 2 * Half - 1
      /\ \A i \in 1 .. n : q[i] = q[i - 1] \div base
      /\ Len(str) = Place + n /\ str[Len(str)] = NUL /\ Place \in 1..2
      /\ \A i \in 0 .. n - 1 : str[Place + i] = LastDigit(q[n - 1 - i])
      /\ base \in 2..16
    BY DEF Numeral, Divided, Place, ConvInv, Converts
<1>2. CASE Negative /\ pos = 1 /\ value = 0 /\ sign = 1
    <2>1. str[1] = MINUS
        BY <1>2 DEF Numeral, SignWritten
    <2> QED BY <1>2, <2>1 DEF IsSign
<1>3. CASE /\ pos \in Place .. Place + n
           /\ Unsigned(value) = q[n - (pos - Place)]
           /\ sign = IF Negative THEN -1 ELSE 1
    <2>1. CASE pos = Place + n
        <3>1. str[pos] = NUL /\ n - (pos - Place) = 0
            BY <1>1, <2>1
        <3>2. ~IsSign(NUL) /\ ~IsDigit(NUL)
            BY DEF IsSign, IsDigit, NUL, MINUS
        <3> QED BY <1>1, <1>3, <2>1, <3>1, <3>2
    <2>2. CASE pos # Place + n
        <3> DEFINE k == n - 1 - (pos - Place)
        <3>1. /\ k \in 0 .. n - 1 /\ pos = Place + (n - 1 - k) /\ k + 1 = n - (pos - Place)
              /\ pos - Place \in 0 .. n - 1 /\ Place + (pos - Place) = pos
              /\ k \in 0 .. n /\ k + 1 \in 1 .. n /\ k + 1 - 1 = k
            BY <1>1, <1>3, <2>2
        <3>2. str[pos] = LastDigit(q[k])
            BY <1>1, <3>1
        <3> HIDE DEF k
        <3>3. q[k + 1] = q[k] \div base
            BY <1>1, <3>1
        <3>4. q[k] \in 0 .. 2 * Half - 1
            BY <1>1, <3>1
        <3>5. /\ str[pos] # MINUS /\ IsDigit(str[pos])
              /\ DigitOf(str[pos]) = q[k] % base
            BY <1>1, <3>2, <3>4, DigitRead
        <3>6. ~IsSign(str[pos])
            BY <3>5 DEF IsSign
        <3> QED BY <1>3, <3>1, <3>3, <3>4, <3>5, <3>6
    <2> QED BY <2>1, <2>2
<1> QED BY <1>2, <1>3 DEF Reading

LEMMA AtoiDigitText == ConvInv /\ TextInv /\ AtoiDigit => TextInv'
<1> SUFFICES ASSUME ConvInv, TextInv, AtoiDigit PROVE TextInv'
    OBVIOUS
<1>1. convPc = "atoi" /\ convPc' = "atoi" /\ pos' = pos + 1
      /\ UNCHANGED <<input, base, str>> /\ base \in 2..16
    BY DEF AtoiDigit, ConvInv, Converts
<1>2. PICK n, q : Numeral(n, q) /\ Reading(n, q)
    BY <1>1 DEF TextInv
<1>3. /\ (Negative <=> Negative') /\ Place' = Place /\ Magnitude' = Magnitude
      /\ \A i : LastDigit(i)' = LastDigit(i)
    BY <1>1 DEF Place, Negative, Magnitude, LastDigit
<1>4. Numeral(n, q)'
    BY <1>1, <1>2, <1>3 DEF Numeral, Divided, SignWritten
<1>5. n \in Nat /\ Place \in 1..2 /\ q[n] = 0
    BY <1>2 DEF Numeral, Divided, Place
<1>6. CASE Negative /\ pos = 1 /\ value = 0 /\ sign = 1 /\ IsSign(str[pos])
    <2>1. Unsigned(0) = 0 /\ Signed(0) = 0
        <3>1. 0 \in Int32 /\ 0 \in -Half .. 2 * Half - 1
            BY DEF Int32
        <3> QED BY <3>1, UnsignedOf, SignedOf
    <2>2. sign' = -1 /\ value' = Signed(Unsigned(0) * base)
        BY <1>6 DEF AtoiDigit
    <2>3. value' = 0
        BY <1>1, <2>1, <2>2
    <2>4. pos' = Place /\ n - (pos' - Place) = n
        BY <1>1, <1>5, <1>6 DEF Place
    <2> QED BY <1>1, <1>3, <1>4, <1>5, <1>6, <2>1, <2>2, <2>3, <2>4
            DEF Reading, TextInv, RoundTrip
<1>7. CASE \E k \in 0 .. n - 1 :
               /\ pos = Place + (n - 1 - k) /\ sign = IF Negative THEN -1 ELSE 1
               /\ Unsigned(value) = q[k] \div base
               /\ q[k] \in 0 .. 2 * Half - 1
               /\ ~IsSign(str[pos]) /\ IsDigit(str[pos])
               /\ DigitOf(str[pos]) = q[k] % base
    <2>1. PICK k \in 0 .. n - 1 :
               /\ pos = Place + (n - 1 - k) /\ sign = IF Negative THEN -1 ELSE 1
               /\ Unsigned(value) = q[k] \div base
               /\ q[k] \in 0 .. 2 * Half - 1
               /\ ~IsSign(str[pos]) /\ IsDigit(str[pos])
               /\ DigitOf(str[pos]) = q[k] % base
        BY <1>7
    <2>2. sign' = sign /\ value' = Signed(Unsigned(value) * base + DigitOf(str[pos]))
        BY <2>1 DEF AtoiDigit
    <2>3. Unsigned(value) * base + DigitOf(str[pos]) = q[k]
        <3>1. q[k] \in Nat /\ base \in Nat \ {0}
            BY <1>1, <2>1
        <3>2. q[k] = (q[k] \div base) * base + (q[k] % base)
            BY <3>1, Division, Zenon
        <3> QED BY <2>1, <3>2
    <2>4. Unsigned(value') = q[k]
        BY <2>1, <2>2, <2>3, UnsignedSigned
    <2>5. pos' \in Place .. Place + n /\ n - (pos' - Place) = k
        BY <1>1, <1>5, <2>1
    <2> QED BY <1>1, <1>3, <1>4, <2>1, <2>2, <2>4, <2>5 DEF Reading, TextInv, RoundTrip
<1>8. IsSign(str[pos]) \/ IsDigit(str[pos])
    BY DEF AtoiDigit
<1> QED BY <1>1, <1>2, <1>6, <1>7, <1>8, NextDigit

\* The sign is put back, and that of the least integer makes no difference.
LEMMA AtoiEndText == ConvInv /\ TextInv /\ AtoiEnd => TextInv'
<1> SUFFICES ASSUME ConvInv, TextInv, AtoiEnd PROVE TextInv'
    OBVIOUS
<1>1. /\ convPc = "atoi" /\ convPc' = "done" /\ UNCHANGED <<input, base, str>>
      /\ ~IsSign(str[pos]) /\ ~IsDigit(str[pos])
      /\ value' = Signed(sign * value)
    BY DEF AtoiEnd
<1>2. PICK n, q : Numeral(n, q) /\ Reading(n, q)
    BY <1>1 DEF TextInv
<1>3. Unsigned(value) = Magnitude /\ sign = IF Negative THEN -1 ELSE 1
    BY <1>1, <1>2, NextDigit
<1>4. value \in Int32 /\ input \in Int32
    BY DEF ConvInv, ConvTypeOK
<1>5. Unsigned(value) = IF value < 0 THEN value + 2 * Half ELSE value
    BY <1>4, UnsignedOf
<1>6. value' = input
    <2>1. CASE Negative
        <3>1. -input \in 1 .. Half /\ Unsigned(value) = -input
            BY <1>3, <2>1, MagnitudeRange
        <3>2. value = -input \/ (value = -Half /\ -input = Half)
            BY <1>4, <1>5, <3>1 DEF Int32
        <3>3. sign * value = -value
            BY <1>3, <1>4, <2>1 DEF Int32
        <3>4. -value \in -Half .. 2 * Half - 1
            BY <1>4 DEF Int32
        <3>5. Signed(-value) = IF -value >= Half THEN -value - 2 * Half ELSE -value
            BY <3>4, SignedOf
        <3> QED BY <1>1, <1>4, <3>1, <3>2, <3>3, <3>5 DEF Int32
    <2>2. CASE ~Negative
        <3>1. Unsigned(value) = Unsigned(input) /\ sign * value = value
            BY <1>3, <1>4, <2>2 DEF Magnitude, Int32
        <3>2. Unsigned(input) = IF input < 0 THEN input + 2 * Half ELSE input
            BY <1>4, UnsignedOf
        <3>3. value = input
            BY <1>4, <1>5, <3>1, <3>2 DEF Int32
        <3>4. Signed(value) = value
            <4>1. value \in -Half .. 2 * Half - 1 /\ ~(value >= Half)
                BY <1>4 DEF Int32
            <4> QED BY <4>1, SignedOf
        <3> QED BY <1>1, <3>1, <3>3, <3>4
    <2> QED BY <2>1, <2>2
<1> QED BY <1>1, <1>6 DEF TextInv, RoundTrip

LEMMA TextStep == ConvInv /\ TextInv /\ [ConvNext]_convVars => TextInv'
<1> SUFFICES ASSUME ConvInv, TextInv, [ConvNext]_convVars PROVE TextInv'
    OBVIOUS
<1>1. CASE ConvNext
    BY <1>1, StartText, DigitText, SwapText, EndText, AtoiDigitText, AtoiEndText
       DEF ConvNext
<1>2. CASE UNCHANGED convVars
    <2>1. UNCHANGED <<input, base, data, str, head, tail, pos, value, sign, convPc>>
        BY <1>2 DEF convVars
    <2>2. /\ (Negative <=> Negative') /\ Place' = Place /\ Magnitude' = Magnitude
          /\ \A u : LastDigit(u)' = LastDigit(u)
        BY <2>1 DEF Place, Negative, Magnitude, LastDigit
    <2>3. \A n, q : Divided(n, q) => Divided(n, q)'
        BY <2>1, <2>2 DEF Divided
    <2>4. \A n, q : /\ Writing(n, q) => Writing(n, q)'
                    /\ Reversing(n, q) => Reversing(n, q)'
                    /\ Numeral(n, q) => Numeral(n, q)'
                    /\ Reading(n, q) => Reading(n, q)'
        BY <2>1, <2>2, <2>3 DEF Writing, Reversing, Numeral, Reading, SignWritten
    <2> QED BY <2>1, <2>4 DEF TextInv, RoundTrip
<1> QED BY <1>1, <1>2

-----------------------------------------------------------------------------
(* What is written is the numeral.                                         *)

\* Induction on the naturals: a set of them that has an element has a least one.
LEMMA LeastElement ==
    ASSUME NEW T, T \subseteq Nat, T # {}
    PROVE  \E m \in T : \A k \in T : m <= k
<1> DEFINE R == OpToRel(<, Nat)
<1>1. IsWellFoundedOn(R, Nat)
    BY NatLessThanWellFounded
<1>2. \A x, y \in Nat : x < y => <<x, y>> \in R
    BY DEF OpToRel
<1>3. \A RR : IsWellFoundedOn(RR, Nat) => \E x \in T : \A y \in T : ~(<<y, x>> \in RR)
    BY WFMin, Zenon
<1> HIDE DEF R
<1>4. \E x \in T : \A y \in T : ~(y < x)
    BY <1>1, <1>2, <1>3, Zenon
<1> QED BY <1>4

\* The first i digits stand for what my_itoa left after the n - i last ones.
LEMMA PrefixValue ==
    ASSUME ConvInv, convPc = "atoi", NEW n, NEW q, Numeral(n, q), Digits = n,
           FirstDigit = Place
    PROVE  \A i \in 0 .. n : Prefix[i] = q[n - i]
<1>1. /\ n \in Nat /\ q \in [0 .. n -> 0 .. 2 * Half - 1] /\ q[n] = 0 /\ base \in 2..16
      /\ \A i \in 1 .. n : q[i] = q[i - 1] \div base
      /\ \A i \in 0 .. n - 1 : str[Place + i] = LastDigit(q[n - 1 - i])
      /\ Place \in 1..2
    BY DEF Numeral, Divided, ConvInv, Converts, Place
<1>2. ASSUME NEW i \in 1 .. n
      PROVE  q[n - i] = q[n - (i - 1)] * base + DigitOf(str[FirstDigit + i - 1])
    <2>1. /\ n - i \in 0 .. n - 1 /\ n - (i - 1) \in 1 .. n /\ n - (i - 1) - 1 = n - i
          /\ i - 1 \in 0 .. n - 1 /\ n - 1 - (i - 1) = n - i
          /\ FirstDigit + i - 1 = Place + (i - 1)
        BY <1>1
    <2>2. q[n - i] \in 0 .. 2 * Half - 1 /\ q[n - i] \in Nat /\ base \in Nat \ {0}
        BY <1>1, <2>1
    <2>3. q[n - (i - 1)] = q[n - i] \div base
        BY <1>1, <2>1
    <2>4. DigitOf(str[Place + (i - 1)]) = q[n - i] % base
        BY <1>1, <2>1, <2>2, DigitRead
    <2>5. q[n - i] = (q[n - i] \div base) * base + (q[n - i] % base)
        BY <2>2, Division, Zenon
    <2> QED BY <2>1, <2>3, <2>4, <2>5
<1> DEFINE step(f, i) == IF i = 0 THEN 0
                         ELSE f[i - 1] * base + DigitOf(str[FirstDigit + i - 1])
<1>3. \E f : f = [i \in 0 .. Digits |-> step(f, i)]
    <2> DEFINE f == [i \in 0 .. n |-> q[n - i]]
    <2>1. ASSUME NEW i \in 0 .. n PROVE f[i] = step(f, i)
        <3>1. CASE i = 0
            BY <1>1, <3>1
        <3>2. CASE i # 0
            <4>1. i \in 1 .. n /\ f[i] = q[n - i] /\ f[i - 1] = q[n - (i - 1)]
                BY <1>1, <3>2
            <4> HIDE DEF f
            <4> QED BY <1>2, <3>2, <4>1
        <3> QED BY <3>1, <3>2
    <2>2. f = [i \in 0 .. n |-> f[i]]
        OBVIOUS
    <2> HIDE DEF f
    <2>3. f = [i \in 0 .. n |-> step(f, i)]
        BY <2>1, <2>2
    <2> QED BY <2>3
<1>4. Prefix = [i \in 0 .. Digits |-> step(Prefix, i)]
    BY <1>3 DEF Prefix
<1>5. ASSUME NEW i \in 0 .. n PROVE Prefix[i] = step(Prefix, i)
    BY <1>4
<1> HIDE DEF step
<1> DEFINE T == {i \in 0 .. n : Prefix[i] # q[n - i]}
<1>6. T = {}
    <2> SUFFICES ASSUME T # {} PROVE FALSE
        OBVIOUS
    <2>1. T \subseteq Nat
        BY <1>1
    <2>2. PICK m \in T : \A k \in T : m <= k
        BY <2>1, LeastElement
    <2>3. m \in 0 .. n /\ Prefix[m] # q[n - m]
        OBVIOUS
    <2>4. CASE m = 0
        BY <1>1, <1>5, <2>3, <2>4 DEF step
    <2>5. CASE m # 0
        <3>1. m \in 1 .. n /\ m - 1 \in 0 .. n /\ ~(m <= m - 1)
            BY <1>1, <2>3, <2>5
        <3>2. m - 1 \notin T
            BY <2>2, <3>1
        <3>3. Prefix[m - 1] = q[n - (m - 1)]
            BY <3>1, <3>2
        <3> QED BY <1>2, <1>5, <2>3, <2>5, <3>1, <3>3 DEF step
    <2> QED BY <2>4, <2>5
<1> QED BY <1>6

\* The digits of my_itoa are those of the number, without leading zeros, for
\* every integer of every width, in every base from 2 to 16.
THEOREM NumeralOfTheNumber == ConvSpec => []WritesNumeral
<1>1. ConvInv /\ TextInv => WritesNumeral
    <2> SUFFICES ASSUME ConvInv, TextInv, convPc = "atoi"
                 PROVE  /\ Prefix[Digits] = Magnitude
                        /\ str[1] = MINUS <=> Negative
                        /\ Digits > 0
                        /\ Digits > 1 => DigitOf(str[FirstDigit]) # 0
                        /\ \A i \in FirstDigit .. Len(str) - 1 :
                               DigitOf(str[i]) \in 0 .. base - 1
        BY DEF WritesNumeral
    <2>1. PICK n, q : Numeral(n, q)
        BY DEF TextInv
    <2>2. /\ n \in Nat /\ n > 0 /\ q \in [0 .. n -> 0 .. 2 * Half - 1] /\ q[n] = 0
          /\ q[0] = Magnitude /\ base \in 2..16 /\ Len(str) = Place + n /\ Place \in 1..2
          /\ \A i \in 1 .. n : q[i] = q[i - 1] \div base
          /\ \A i \in 1 .. n - 1 : q[i] # 0
        BY <2>1 DEF Numeral, Divided, ConvInv, Converts, Place
    <2>3. ASSUME NEW i \in 0 .. n - 1
          PROVE  /\ DigitOf(str[Place + i]) = q[n - 1 - i] % base
                 /\ q[n - 1 - i] % base \in 0 .. base - 1
                 /\ str[Place + i] # MINUS
        <3>1. q[n - 1 - i] \in 0 .. 2 * Half - 1
            BY <2>2
        <3>2. str[Place + i] = LastDigit(q[n - 1 - i])
            BY <2>1 DEF Numeral
        <3> QED BY <2>2, <3>1, <3>2, DigitRead
    <2>4. str[1] = MINUS <=> Negative
        <3>1. CASE Negative
            BY <2>1, <3>1 DEF Numeral, SignWritten
        <3>2. CASE ~Negative
            <4>1. Place + 0 = 1 /\ 0 \in 0 .. n - 1
                BY <2>2, <3>2 DEF Place
            <4>2. str[Place + 0] # MINUS
                BY <2>3, <4>1
            <4> QED BY <3>2, <4>1, <4>2
        <3> QED BY <3>1, <3>2
    <2>5. FirstDigit = Place /\ Digits = n
        <3>1. FirstDigit = Place
            BY <2>4 DEF FirstDigit, Place
        <3> QED BY <2>2, <3>1 DEF Digits
    <2>6. Prefix[Digits] = Magnitude
        <3>1. \A i \in 0 .. n : Prefix[i] = q[n - i]
            BY <2>1, <2>5, PrefixValue
        <3>2. n \in 0 .. n /\ n - n = 0
            BY <2>2
        <3> QED BY <2>2, <2>5, <3>1, <3>2
    <2>7. n > 1 => DigitOf(str[FirstDigit]) # 0
        <3> SUFFICES ASSUME n > 1 PROVE DigitOf(str[FirstDigit]) # 0
            OBVIOUS
        <3>1. DigitOf(str[Place + 0]) = q[n - 1 - 0] % base
            <4>1. 0 \in 0 .. n - 1
                BY <2>2
            <4> QED BY <2>3, <4>1
        <3>2. /\ Place + 0 = FirstDigit /\ n - 1 - 0 = n - 1 /\ n \in 1 .. n
              /\ n - 1 \in 1 .. n - 1 /\ n - 1 \in 0 .. n
            BY <2>2, <2>5
        <3>3. q[n - 1] \in Nat /\ q[n - 1] # 0 /\ base \in Nat \ {0}
            BY <2>2, <3>2
        <3>4. q[n - 1] \div base = 0
            BY <2>2, <3>2
        <3>5. q[n - 1] = (q[n - 1] \div base) * base + (q[n - 1] % base)
            BY <3>3, Division, Zenon
        <3>6. q[n - 1] = q[n - 1] % base
            BY <3>3, <3>4, <3>5
        <3> QED BY <3>1, <3>2, <3>3, <3>6
    <2>8. ASSUME NEW i \in FirstDigit .. Len(str) - 1
          PROVE  DigitOf(str[i]) \in 0 .. base - 1
        <3>1. i - Place \in 0 .. n - 1 /\ Place + (i - Place) = i
            BY <2>2, <2>5
        <3> QED BY <2>3, <3>1
    <2> QED BY <2>2, <2>4, <2>5, <2>6, <2>7, <2>8
<1> QED BY <1>1, ConvInvInit, ConvInvStep, TextInit, TextStep, PTL DEF ConvSpec

\* my_atoi returns what my_itoa was given, for every integer of every width, in
\* every base from 2 to 16.
THEOREM ReadsWhatWasWritten == ConvSpec => []RoundTrip
<1>1. TextInv => RoundTrip
    BY DEF TextInv
<1> QED BY <1>1, ConvInvInit, ConvInvStep, TextInit, TextStep, PTL DEF ConvSpec
===============================================================================
