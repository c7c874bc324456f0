------------------------------- MODULE V8Numbers ------------------------------
(***************************************************************************)
(* What V8's runtime computes on numbers (runtime.cc): conversions to      *)
(* integers and from strings, bitwise operations, comparisons, rounding    *)
(* and the time a Date is set to.                                          *)
(*                                                                         *)
(* A number is NaN, an infinity, or a sign and a magnitude counted in      *)
(* units of 2^-UnitBits, so that 0 and -0 differ.  int32_t has IntBits     *)
(* bits here and a double FractionBits of a fraction.                      *)
(***************************************************************************)
EXTENDS Integers, Sequences, FiniteSets, FiniteSetsExt, SequencesExt, Bitwise

CONSTANTS IntBits,        \* 32 in the code, and here another power of two
          SmiBits,        \* kSmiValueSize, 31 or 32
          FractionBits,   \* 52
          UnitBits,
          MaxSmiDigits,   \* the digits of the largest small integer, 10
          kMaxTime, kMaxTimeBeforeUTC   \* kMaxTimeInMs, kMaxTimeBeforeUTCInMs

NaN              == [kind |-> "nan", neg |-> FALSE, units |-> 0]
Infinity(neg)    == [kind |-> "infinity", neg |-> neg, units |-> 0]
Finite(neg, u)   == [kind |-> "finite", neg |-> neg, units |-> u]
One              == 2^UnitBits
Magnitude(i)     == IF i < 0 THEN -i ELSE i
Number(i)        == Finite(i < 0, Magnitude(i) * One)
MinusZero        == Finite(TRUE, 0)
IsFinite(x)      == x.kind = "finite"
Units(x)         == IF x.neg THEN -x.units ELSE x.units

SmiMax  == 2^(SmiBits - 1) - 1
IsSmi(x) == /\ IsFinite(x) /\ x # MinusZero /\ x.units % One = 0
            /\ Units(x) >= -(SmiMax + 1) * One /\ Units(x) <= SmiMax * One

\* C++'s conversions between int32_t and uint32_t, and what is kept of a wider integer.
Unsigned(i) == i % 2^IntBits
Signed(i)   == LET u == Unsigned(i) IN IF u >= 2^(IntBits - 1) THEN u - 2^IntBits ELSE u

\* conversions.h: towards zero, the sign kept; and modulo 2^32.
DoubleToInteger(x) ==
  CASE x.kind = "nan" -> Number(0)
    [] IsFinite(x)    -> Finite(x.neg, (x.units \div One) * One)
    [] OTHER          -> x

DoubleToInt32(x) ==
  IF ~IsFinite(x) THEN 0
  ELSE Signed(IF x.neg THEN -(x.units \div One) ELSE x.units \div One)

DoubleToUint32(x) == Unsigned(DoubleToInt32(x))
-----------------------------------------------------------------------------
(* Conversions to integers.                                                *)

\* The fast case: neither 0 nor -0, and small enough.
Fast(x) == IsFinite(x) /\ Units(x) > 0 /\ Units(x) <= SmiMax * One

Runtime_NumberToInteger(x) ==
  IF Fast(x) THEN Number(x.units \div One) ELSE DoubleToInteger(x)

Runtime_NumberToIntegerMapMinusZero(x) ==
  LET d == DoubleToInteger(x)
  IN CASE Fast(x)  -> Number(x.units \div One)
       [] ~Fast(x) /\ IsFinite(d) /\ d.units = 0 -> Number(0)
       [] OTHER    -> d

Runtime_NumberToJSUint32(x) == Number(Unsigned(Signed(DoubleToUint32(x))))
Runtime_NumberToJSInt32(x)  ==
  IF Fast(x) THEN Number(x.units \div One) ELSE Number(DoubleToInt32(x))

\* FastD2I truncates, and what does not fit becomes the smallest integer.
FastD2I(x) ==
  LET i == IF x.neg THEN -(x.units \div One) ELSE x.units \div One
  IN IF IsFinite(x) /\ i = Signed(i) THEN i ELSE -2^(IntBits - 1)

RuntimeHidden_NumberToSmi(x) ==
  LET i == FastD2I(x)
  IN IF IsSmi(x) \/ (IsFinite(x) /\ Units(x) = i * One /\ IsSmi(Number(i))) THEN Number(i) ELSE NaN
-----------------------------------------------------------------------------
(* Arithmetic on 32 bits.                                                  *)

Bitwise32(op, x, y) ==
  LET a == Unsigned(DoubleToInt32(x))  b == Unsigned(DoubleToInt32(y))
  IN Number(Signed(CASE op = "or"   -> a | b
                  [] op = "and"  -> a & b
                  [] op = "xor"  -> a ^^ b
                  [] op = "imul" -> a * b))

ShiftCount(y) == DoubleToInt32(y) % IntBits   \* y & 0x1f

Runtime_NumberShl(x, y) == Number(Signed(DoubleToInt32(x) * 2^ShiftCount(y)))
Runtime_NumberShr(x, y) == Number(DoubleToUint32(x) \div 2^ShiftCount(y))
Runtime_NumberSar(x, y) == Number(DoubleToInt32(x) \div 2^ShiftCount(y))
-----------------------------------------------------------------------------
(* Comparisons.                                                            *)

LESS == -1    EQUAL == 0    GREATER == 1

\* Infinities compare beyond every finite number.
Beyond == 2^30
Rank(x) == IF IsFinite(x) THEN Units(x) ELSE IF x.neg THEN -Beyond ELSE Beyond

Runtime_NumberEquals(x, y) == x # NaN /\ y # NaN /\ Rank(x) = Rank(y)

Runtime_NumberCompare(x, y, uncomparable) ==
  CASE x = NaN \/ y = NaN -> uncomparable
    [] OTHER -> IF Rank(x) = Rank(y) THEN EQUAL ELSE IF Rank(x) < Rank(y) THEN LESS ELSE GREATER

Compare(a, b, tie) == CASE a < b -> LESS [] a > b -> GREATER [] a = b -> tie

kPowersOf10 == [i \in 0..9 |-> 10^i]

IntegerLog2(n) == CHOOSE k \in 0..IntBits : 2^k <= n /\ n < 2^(k + 1)

\* The number of decimal digits, less one, from the number of bits.
Log10(n) ==
  LET log10 == ((IntegerLog2(n) + 1) * 1233) \div 2^12
  IN IF n < kPowersOf10[log10] THEN log10 - 1 ELSE log10

\* Mutant: the shorter number is scaled up by all the digits it lacks.
ScaledUp(shorter, longer, digits) ==
  [shorter |-> Unsigned(shorter * kPowersOf10[digits]), longer |-> longer]

\* A number that is digits shorter, and the longer one, on one number of digits: all
\* the digits could overflow, so the last one of the longer number is dropped.
Scaled(shorter, longer, digits) ==
  [shorter |-> Unsigned(shorter * kPowersOf10[digits - 1]), longer |-> longer \div 10]

\* Two small integers as if they were strings.  Magnitudes are unsigned: the smallest
\* integer has no positive counterpart.
Runtime_SmiLexicographicCompare(x, y) ==
  LET a  == IF x < 0 \/ y < 0 THEN Unsigned(-x) ELSE x
      b  == IF x < 0 \/ y < 0 THEN Unsigned(-y) ELSE y
      da == Log10(a)
      db == Log10(b)
  IN CASE x = y -> EQUAL
       [] x # y /\ (x = 0 \/ y = 0) -> Compare(x, y, EQUAL)
       [] x # y /\ x * y < 0 -> IF y > 0 THEN LESS ELSE GREATER
       [] OTHER ->
            CASE da < db -> LET s == Scaled(a, b, db - da)
                            IN Compare(s.shorter, s.longer, LESS)
              [] db < da -> LET s == Scaled(b, a, da - db)
                            IN Compare(s.longer, s.shorter, GREATER)
              [] da = db -> Compare(a, b, EQUAL)
-----------------------------------------------------------------------------
(* Rounding: the sum with 0.5 is a double, rounded to its fraction's bits. *)

\* The binary exponent; that of 0 is below all others, that of NaN above.
Exponent(x) ==
  CASE ~IsFinite(x) -> 1024
    [] IsFinite(x) /\ x.units = 0 -> -1023
    [] OTHER -> (CHOOSE k \in 0..29 : 2^k <= x.units /\ x.units < 2^(k + 1)) - UnitBits

\* The double nearest to a number of units that is not negative, the even one in a tie.
Rounded(u) ==
  LET e    == Exponent(Finite(FALSE, u)) - FractionBits + UnitBits
      ulp  == IF e > 0 THEN 2^e ELSE 1
      down == u \div ulp
      rest == u % ulp
  IN IF 2 * rest > ulp \/ (2 * rest = ulp /\ down % 2 = 1) THEN (down + 1) * ulp
     ELSE down * ulp

\* value + 0.5, in units, and its floor.
PlusHalf(x) == LET s == Units(x) + One \div 2 IN IF s < 0 THEN -Rounded(-s) ELSE Rounded(s)
Floor(u)    == (u \div One) * One

Runtime_RoundNumber(x) ==
  LET f == Floor(PlusHalf(x))
      e == Exponent(x)
  IN CASE IsSmi(x)  -> x
       [] ~IsSmi(x) /\ e < -1 -> IF x.neg THEN MinusZero ELSE Number(0)
       [] OTHER ->
            CASE ~x.neg /\ e < SmiBits - 2 -> Number(f \div One)
              [] x.neg /\ e < FractionBits /\ 2 * x.units <= One -> MinusZero
              [] e >= FractionBits -> x
              [] OTHER -> Finite(f < 0, Magnitude(f))
-----------------------------------------------------------------------------
(* Strings to numbers.  A character is one of those below; "I" begins      *)
(* Infinity and " " and "nbsp" are white space.                            *)

DigitValue == [d \in {"0", "1", "2"} |-> CASE d = "0" -> 0 [] d = "1" -> 1 [] d = "2" -> 2]
White      == {" ", "nbsp"}

\* Characters with a code above that of "9".
AboveNine == {"I", "nbsp", "a"}

AreDigits(s) == ToSet(s) \subseteq DOMAIN DigitValue

ParseDecimalInteger(s) == FoldLeft(LAMBDA d, c : 10 * d + DigitValue[c], 0, s)

\* conversions.h: what a string means, white space around it ignored.
StringToDouble(s) ==
  LET last  == {i \in DOMAIN s : s[i] \notin White}
      core  == IF last = {} THEN <<>> ELSE SubSeq(s, Min(last), Max(last))
      neg   == core # <<>> /\ core[1] = "-"
      body  == IF core # <<>> /\ core[1] \in {"-", "+"} THEN Tail(core) ELSE core
  IN CASE core = <<>>  -> Number(0)
       [] body = <<"I">> -> Infinity(neg)
       [] body # <<>> /\ AreDigits(body) -> Finite(neg, ParseDecimalInteger(body) * One)
       [] OTHER -> NaN

\* The number, and the index that is stored as the string's hash, -1 for none.
Runtime_StringToNumber(s, one_byte, has_hash) ==
  LET minus == s # <<>> /\ s[1] = "-"
      rest  == IF minus THEN Tail(s) ELSE s
      Is(x) == [number |-> x, index |-> -1]
      d     == ParseDecimalInteger(rest)
  IN CASE one_byte /\ s = <<>> -> Is(Number(0))
       [] one_byte /\ s # <<>> /\ rest = <<>> -> Is(NaN)
       [] one_byte /\ rest # <<>> /\ rest[1] \in AboveNine \ {"I", "nbsp"} -> Is(NaN)
       [] one_byte /\ rest # <<>> /\ Len(rest) < MaxSmiDigits /\ AreDigits(rest) ->
            IF minus THEN Is(IF d = 0 THEN MinusZero ELSE Number(-d))
            ELSE [number |-> Number(d),
                  index  |-> IF ~has_hash /\ (Len(s) = 1 \/ s[1] # "0") THEN d ELSE -1]
       [] OTHER -> Is(StringToDouble(s))
-----------------------------------------------------------------------------
(* Dates.  Times are integers; local time is UTC plus an offset.           *)

ToUTC(time, offset) == time - offset

\* The value of a date that is set to time; NaN is also kept as a flag.
Runtime_DateSetValue(time, is_utc, offset) ==
  LET utc   == IF is_utc THEN time ELSE ToUTC(time, offset)
      isnan == \/ ~is_utc /\ (time < -kMaxTimeBeforeUTC \/ time > kMaxTimeBeforeUTC)
               \/ utc < -kMaxTime \/ utc > kMaxTime
  IN [value |-> IF isnan THEN NaN ELSE Number(utc), is_value_nan |-> isnan]
-----------------------------------------------------------------------------
(* ECMAScript 5.1.                                                         *)

\* 9.4 to 9.6: the sign times the floor of the magnitude, and modulo 2^32.
ES5ToInteger(x) ==
  CASE x = NaN -> Number(0)
    [] ~IsFinite(x) \/ x.units = 0 -> x
    [] OTHER -> Finite(x.neg, Max({i \in 0..x.units \div One : i * One <= x.units}) * One)

ES5ToUint32(x) ==
  IF ~IsFinite(x) THEN 0 ELSE (Units(ES5ToInteger(x)) \div One) % 2^IntBits

ES5ToInt32(x) ==
  IF ES5ToUint32(x) >= 2^(IntBits - 1) THEN ES5ToUint32(x) - 2^IntBits ELSE ES5ToUint32(x)

\* 11.10: an operation on the bits of two numbers.
Bit(n, i) == (n \div 2^i) % 2

ES5Bitwise(op, x, y) ==
  LET OnBit(a, b) == CASE op = "or" -> Max({a, b}) [] op = "and" -> a * b
                       [] op = "xor" -> (a + b) % 2
  IN Signed(SumSet({2^i * OnBit(Bit(ES5ToUint32(x), i), Bit(ES5ToUint32(y), i)) :
                      i \in 0..IntBits - 1}))

\* The decimal digits, and the order of strings.
Digits[n \in Nat] == IF n < 10 THEN <<n>> ELSE Append(Digits[n \div 10], n % 10)
Decimal(i)        == IF i < 0 THEN <<-1>> \o Digits[-i] ELSE Digits[i]

ES5StringCompare(s, t) ==
  LET differ == {i \in 1..Min({Len(s), Len(t)}) : s[i] # t[i]}
  IN IF differ = {} THEN Compare(Len(s), Len(t), EQUAL)
     ELSE Compare(s[Min(differ)], t[Min(differ)], EQUAL)

\* 15.8.2.15: the closest integer, the greater one in a tie; -0 from -0.5 to -0.
ES5Round(x) ==
  LET f == (Units(x) + One \div 2) \div One
  IN CASE ~IsFinite(x) -> x
       [] IsFinite(x) /\ f # 0 -> Number(f)
       [] OTHER -> IF x.neg THEN MinusZero ELSE Number(0)

\* 15.9.1.14.
ES5TimeClip(time) == IF Magnitude(time) > kMaxTime THEN NaN ELSE Number(time)
=============================================================================
