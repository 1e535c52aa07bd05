----------------------------- MODULE Elements ------------------------------
(***************************************************************************)
(* The codec of the 8-bit element formats (ipu_isa/formats.py): INT8 and   *)
(* the minifloats E1..E7, which ipu_emu's lane codecs tabulate.            *)
(*                                                                         *)
(* A format of Width bits has a sign, x exponent bits and the rest         *)
(* mantissa.  A finite value is a sign and a magnitude, in quarters of the *)
(* format's smallest subnormal, so that a tie and its neighbours are       *)
(* values.                                                                 *)
(***************************************************************************)
EXTENDS Integers, FiniteSets, FiniteSetsExt

CONSTANTS
    Width,       \* element_bits of an 8-bit format
    MaxSteps

VARIABLES
    x,           \* exp_bits: 0 for INT8
    value,       \* the value encoded: [sign, mag], mag possibly "nan" or "inf"
    code,        \* its byte
    steps

vars == << x, value, code, steps >>

ExpBits == 1..Width - 1
Quarter == 4
ManBits == Width - 1 - x
MaxExpRaw == 2 ^ x - 1
MaxMan == 2 ^ ManBits - 1
SignBit == 2 ^ (Width - 1)

(* Python's round(n / d). *)
Round(n, d) ==
    LET q == n \div d
        r == n % d IN
    IF 2 * r > d \/ (2 * r = d /\ q % 2 = 1) THEN q + 1 ELSE q

(* math.frexp's exponent less one: the greatest e with 2 ^ e <= n. *)
Log2(n) == CHOOSE e \in 0..30 : 2 ^ e <= n /\ n \div 2 ^ e < 2

MaxFinite == (MaxExpRaw - 1) * 2 ^ ManBits + MaxMan
NanCode == IF ManBits = 0 THEN MaxExpRaw ELSE MaxExpRaw * 2 ^ ManBits + 1
IsNan(c) == (c % SignBit) \div 2 ^ ManBits = MaxExpRaw

(* _fp8_decode, of a code without its sign. *)
Magnitude(c) ==
    LET exp == c \div 2 ^ ManBits
        man == c % 2 ^ ManBits IN
    Quarter * (IF exp = 0 THEN man ELSE (2 ^ ManBits + man) * 2 ^ (exp - 1))

Subnormal(mag) ==
    LET man == Round(mag, Quarter) IN
    IF man > MaxMan /\ x = 1 THEN MaxFinite ELSE man

(* _fp8_encode_normal: a tie goes to the even mantissa; with no mantissa bits, to the *)
(* even exponent.                                                                      *)
Normal(mag, exp) ==
    LET unit == 2 ^ Log2(mag)
        scaled == (mag - unit) * 2 ^ ManBits
        tie == ManBits = 0 /\ 2 * scaled = unit /\ exp % 2 = 1
        man == IF tie THEN 1 ELSE Round(scaled, unit)
        carried == IF man > MaxMan THEN exp + 1 ELSE exp IN
    IF carried >= MaxExpRaw THEN MaxFinite
    ELSE carried * 2 ^ ManBits + (IF man > MaxMan THEN 0 ELSE man)

(* _fp8_encode, of a magnitude *)
EncodeMagnitude(mag) ==
    LET exp == Log2(mag) - 1 - ManBits IN
    CASE mag = 0 -> 0
      [] mag # 0 /\ exp >= MaxExpRaw -> MaxFinite
      [] mag # 0 /\ exp < MaxExpRaw /\ exp <= 0 -> Subnormal(mag)
      [] mag # 0 /\ exp < MaxExpRaw /\ exp > 0 -> Normal(mag, exp)

Signed(v, c) == IF v.sign = 1 THEN SignBit + c ELSE c

(* encode_element's INT8: rounded, saturated, in two's complement; no NaN. *)
Integer(v) ==
    LET clipped == IF v.sign = 1 THEN Min({v.mag, Quarter * SignBit})
                   ELSE Min({v.mag, Quarter * (SignBit - 1)})
        n == Round(clipped, Quarter) IN
    IF v.sign = 1 /\ n > 0 THEN 2 ^ Width - n ELSE n

encode_element(v) ==
    CASE x = 0 /\ v.kind = "inf" -> IF v.sign = 1 THEN SignBit ELSE SignBit - 1
      [] x = 0 /\ v.kind = "finite" -> Integer(v)
      [] x # 0 /\ v.kind = "nan" -> NanCode
      [] x # 0 /\ v.kind = "inf" -> Signed(v, MaxFinite)
      [] x # 0 /\ v.kind = "finite" -> Signed(v, EncodeMagnitude(v.mag))

Finite(sign, mag) == [kind |-> "finite", sign |-> sign, mag |-> mag]
decode_element(c) ==
    IF x = 0 THEN IF c >= SignBit THEN Finite(1, Quarter * (2 ^ Width - c)) ELSE Finite(0, Quarter * c)
    ELSE IF IsNan(c) THEN [kind |-> "nan", sign |-> 0, mag |-> 0]
    ELSE Finite(c \div SignBit, Magnitude(c % SignBit))

(* The codes of the finite values that are not negative, which they order. *)
Positive == IF x = 0 THEN 0..SignBit - 1 ELSE 0..MaxFinite
Units(c) == IF x = 0 THEN Quarter * c ELSE Magnitude(c)

(* The values worth encoding: each representable one, each tie between two of them, and *)
(* what is next to either.                                                              *)
Points == {Units(c) : c \in Positive} \union
          {(Units(c) + Units(c + 1)) \div 2 : c \in {d \in Positive : d + 1 \in Positive}} \union
          {Units(Max(Positive)) + Quarter * SignBit}
Values ==
    [kind : {"finite"}, sign : {0, 1}, mag : {p + d : p \in Points, d \in {0, 1}} \union {p - 1 : p \in Points \ {0}}]
    \union [kind : {"inf"}, sign : {0, 1}, mag : {0}]
    \union (IF x = 0 THEN {} ELSE {[kind |-> "nan", sign |-> 0, mag |-> 0]})

Init == x \in {0} \union ExpBits /\ value = Finite(0, 0) /\ code = 0 /\ steps = 0

(* A value is encoded; or the element is decoded and encoded again. *)
Encode(v) == value' = v /\ code' = encode_element(v)
Again == ~(x = 0 /\ decode_element(code).kind = "nan") /\ Encode(decode_element(code))
Next ==
    /\ steps < MaxSteps /\ steps' = steps + 1
    /\ UNCHANGED x
    /\ (\E v \in Values : Encode(v)) \/ Again

Spec == Init /\ [][Next]_vars

-----------------------------------------------------------------------------
(* "Rounds to nearest, ties to even, and saturates": no finite value of the value's sign is *)
(* nearer than the one encoded, and one as near has an odd code; zero keeps its sign.        *)
Gap(a, b) == IF a > b THEN a - b ELSE b - a
EncodesTheNearest ==
    value.kind = "finite" =>
        LET got == decode_element(code)
            int == x = 0 /\ value.sign = 1
            units(c) == Units(c)
            rivals == IF int THEN Positive \union {SignBit} ELSE Positive
            own == IF int THEN got.mag \div Quarter ELSE code % SignBit IN
        /\ got.kind = "finite"
        /\ x # 0 => got.sign = value.sign
        /\ got.mag = units(own)
        /\ \A c \in rivals \ {own} :
             Gap(units(c), value.mag) >= Gap(units(own), value.mag)
             /\ (Gap(units(c), value.mag) = Gap(units(own), value.mag) => own % 2 = 0)

(* A NaN stays a NaN, and an infinity saturates; nothing finite becomes either. *)
SpecialsSurvive ==
    /\ x # 0 /\ value.kind = "nan" <=> x # 0 /\ IsNan(code)
    /\ value.kind = "inf" => decode_element(code).mag = Units(Max(Positive)) + (IF x = 0 /\ value.sign = 1 THEN Quarter ELSE 0)

(* An element decodes to a value that encodes to it: requantising moves nothing. *)
RequantisingIsIdle == [][ Again => code' = code ]_vars
=============================================================================
