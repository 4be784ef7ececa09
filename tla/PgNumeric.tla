------------------------------ MODULE PgNumeric ------------------------------
(***************************************************************************)
(* NUMERIC and MONEY on the wire (types/numeric.rs, bigdecimal.rs,         *)
(* rust_decimal.rs, money.rs).  PgNumeric holds digits of base 10000, most *)
(* significant first; `weight' is the power of the first one.  BigDecimal  *)
(* is a sequence of decimal digits and the negative exponent `exp';        *)
(* Decimal is a mantissa and a scale, bounded here by MaxScale in place of *)
(* 28 and by MaxMantissa in place of 2^96 - 1.  Money is an integer of     *)
(* MoneyBits bits in place of 64.                                          *)
(***************************************************************************)
EXTENDS Naturals, Integers, Sequences, SequencesExt, FiniteSets

CONSTANTS
    BigDecimals,   \* sequences of decimal digits
    Exponents,     \* exponents of a BigDecimal
    Mantissas,     \* mantissas of a Decimal
    Groups,        \* base-10000 digits a server sends
    MaxScale, MaxMantissa, MoneyBits

ASSUME NumericAssumption == MaxScale \in Nat /\ MaxMantissa \in Nat /\ MoneyBits \in Nat \ {0}

VARIABLE numeric     \* the value at hand, what was sent and what was read back

Power(n) == 10 ^ n
CountDigits(n) == IF n = 0 THEN 1 ELSE Cardinality({k \in 0..9 : Power(k) <= n})
DigitsOf(n, len) == [i \in 1..len |-> (n \div Power(len - i)) % 10]
Chunk(ds) == FoldLeft(LAMBDA acc, d : acc * 10 + d, 0, ds)
WithoutTail(ds) ==
    LET last == {k \in 0..Len(ds) : \A i \in DOMAIN ds : i > k => ds[i] = 0}
    IN  SubSeq(ds, 1, CHOOSE k \in last : \A j \in last : k <= j)

\* Rust's `/' rounds towards zero, TLA+'s \div downwards.
Truncated(n, d) == IF n >= 0 THEN n \div d ELSE -((-n) \div d)

Number(sign, digits, weight, scale) ==
    [kind |-> "number", sign |-> sign, digits |-> digits, weight |-> weight, scale |-> scale]
NotANumber == [kind |-> "nan", sign |-> "+", digits |-> <<>>, weight |-> 0, scale |-> 0]
IsValidDigit(d) == d \in 0..9999

-----------------------------------------------------------------------------
(* BigDecimal                                                              *)

\* The power of 10000 of the first group.
WeightOf(weight_10) == IF weight_10 <= 0 THEN Truncated(weight_10, 4) - 1 ELSE (weight_10 - 1) \div 4

\* TryFrom<&BigDecimal> for PgNumeric: the digits are cut in groups of four
\* around the decimal point; a first group that the digits do not fill, and
\* a last one, are padded on the right.
PgFromBigDecimal(sign, base_10, exp) ==
    LET weight_10 == Len(base_10) - exp
        offset == weight_10 % 4
        first == IF Len(base_10) >= offset
                 THEN IF offset = 0 THEN <<>> ELSE <<Chunk(SubSeq(base_10, 1, offset))>>
                 ELSE <<Chunk(base_10) * Power(offset - Len(base_10))>>
        rest == IF Len(base_10) > offset THEN SubSeq(base_10, offset + 1, Len(base_10)) ELSE <<>>
        Group(k) == LET c == SubSeq(rest, 4 * k - 3, IF 4 * k < Len(rest) THEN 4 * k ELSE Len(rest))
                    IN  Chunk(c) * Power(4 - Len(c))
    IN  Number(sign, WithoutTail(first \o [k \in 1..((Len(rest) + 3) \div 4) |-> Group(k)]),
               WeightOf(weight_10), IF exp > 0 THEN exp ELSE 0)

\* TryFrom<&PgNumeric> for BigDecimal: the groups as base-100 digits, and
\* the exponent; zero has no groups.
BigDecimalFromPg(n) ==
    IF n.kind = "nan" \/ \E i \in DOMAIN n.digits : ~IsValidDigit(n.digits[i])
    THEN [error |-> TRUE, sign |-> "+", base_10 |-> <<>>, exp |-> 0]
    ELSE IF n.digits = <<>> THEN [error |-> FALSE, sign |-> "+", base_10 |-> <<0>>, exp |-> 0]
    ELSE [error |-> FALSE, sign |-> n.sign, exp |-> (Len(n.digits) - n.weight - 1) * 4,
          base_10 |-> FlattenSeq([i \in DOMAIN n.digits |-> DigitsOf(n.digits[i], 4)])]

-----------------------------------------------------------------------------
(* rust_decimal::Decimal                                                   *)

\* From<&Decimal> for PgNumeric.
PgFromDecimal(sign, mantissa, scale) ==
    LET m      == IF scale % 4 > 0 THEN mantissa * Power(4 - (scale % 4)) ELSE mantissa
        len    == (CountDigits(m) + 3) \div 4
        groups == [i \in 1..len |-> (m \div Power(4 * (len - i))) % 10000]
    IN  IF mantissa = 0 THEN Number("+", <<>>, 0, 0)
        ELSE Number(sign, WithoutTail(groups), len - ((scale + 3) \div 4) - 1, scale)

\* The decimal digits of a PgNumeric, and the position of the point.
Expand(n) == FlattenSeq([i \in DOMAIN n.digits |-> DigitsOf(n.digits[i], 4)])

\* TryFrom<&PgNumeric> for Decimal: the sum of the groups, each times its
\* power of 10000, brought to the scale that was sent.  A power that does not
\* fit is an error; the multiplication itself is unchecked and panics.
DecimalFromPg(n) ==
    LET point == (n.weight + 1) * 4
        ds    == Expand(n)
        keep  == point + (IF n.scale > MaxScale THEN MaxScale ELSE n.scale)
        whole == [i \in 1..(IF keep > 0 THEN keep ELSE 0) |-> IF i \in DOMAIN ds THEN ds[i] ELSE 0]
        fits  == CountDigits(MaxMantissa) >= Len(WithoutTail(Reverse(whole)))
    IN  CASE n.kind # "nan" /\ n.digits = <<>> -> [outcome |-> "ok", sign |-> "+", mantissa |-> 0, scale |-> 0]
          [] n.kind = "nan" \/ (n.scale < 0 /\ n.digits # <<>>) -> [outcome |-> "error", sign |-> "+", mantissa |-> 0, scale |-> 0]
          [] n.weight >= 0 /\ n.digits # <<>> /\ 4 * n.weight >= CountDigits(MaxMantissa) ->
                [outcome |-> "error", sign |-> "+", mantissa |-> 0, scale |-> 0]
          [] n.weight >= 0 /\ n.digits # <<>> /\ 4 * n.weight < CountDigits(MaxMantissa)
                /\ n.digits[1] > MaxMantissa \div Power(4 * n.weight) ->
                [outcome |-> "panic", sign |-> "+", mantissa |-> 0, scale |-> 0]
          [] OTHER -> [outcome |-> IF fits THEN "ok" ELSE "rounded", sign |-> n.sign,
                       mantissa |-> IF fits THEN Chunk(whole) ELSE 0, scale |-> n.scale]

-----------------------------------------------------------------------------
(* PgMoney                                                                 *)

MoneyMax == 2 ^ (MoneyBits - 1)

\* PgMoney::from_decimal(): rescaled, the low bits of the mantissa without
\* the top one, and the sign.
MoneyFromDecimal(sign, mantissa, scale, frac) ==
    LET m == IF frac >= scale THEN mantissa * Power(frac - scale)
             ELSE (mantissa + Power(scale - frac) \div 2) \div Power(scale - frac)
        v == m % MoneyMax
    IN  IF sign = "-" THEN -v ELSE v

\* PgMoney::to_decimal().
MoneyToDecimal(money, frac) ==
    [sign |-> IF money < 0 THEN "-" ELSE "+", mantissa |-> IF money < 0 THEN -money ELSE money, scale |-> frac]

-----------------------------------------------------------------------------
NumericInit == numeric = [at |-> "start"]

SendBigDecimal(sign, ds, exp) ==
    /\ numeric.at = "start"
    /\ numeric' = [at |-> "big", sign |-> sign, ds |-> ds, exp |-> exp, sent |-> PgFromBigDecimal(sign, ds, exp)]

SendDecimal(sign, m, scale) ==
    /\ numeric.at = "start"
    /\ numeric' = [at |-> "decimal", sign |-> sign, m |-> m, scale |-> scale, sent |-> PgFromDecimal(sign, m, scale)]

ServerSends(n) ==
    /\ numeric.at = "start"
    /\ numeric' = [at |-> "server", sent |-> n]

\* PgNumeric::decode() and the conversion the program asks for.
ReadBack ==
    /\ numeric.at \in {"big", "decimal", "server"}
    /\ numeric' = [at |-> "read", was |-> numeric, big |-> BigDecimalFromPg(numeric.sent),
                   dec |-> DecimalFromPg(numeric.sent)]

SendMoney(money, frac) ==
    /\ numeric.at = "start"
    /\ LET d == MoneyToDecimal(money, frac)
       IN  numeric' = [at |-> "money", money |-> money, back |-> MoneyFromDecimal(d.sign, d.mantissa, d.scale, frac)]

NumericNext ==
    \/ \E s \in {"+", "-"}, ds \in BigDecimals, e \in Exponents : SendBigDecimal(s, ds, e)
    \/ \E s \in {"+", "-"}, m \in Mantissas, k \in 0..MaxScale : SendDecimal(s, m, k)
    \/ \E s \in {"+", "-"}, w \in -2..2, k \in {0, 5}, a, b \in Groups :
          ServerSends(Number(s, WithoutTail(<<a, b>>), w, k))
    \/ ServerSends(NotANumber)
    \/ ReadBack
    \/ \E m \in (-MoneyMax)..(MoneyMax - 1), f \in 0..2 : SendMoney(m, f)

NumericSpec == NumericInit /\ [][NumericNext]_numeric

-----------------------------------------------------------------------------
(* Properties                                                              *)

\* The number 0.d1d2d3... * 10^point, without zeros at either end.
Normal(sign, ds, point) ==
    LET lead == {k \in 0..Len(ds) : \A i \in 1..k : ds[i] = 0}
        z    == CHOOSE k \in lead : \A j \in lead : j <= k
    IN  IF z = Len(ds) THEN <<"0", <<>>, 0>>
        ELSE <<sign, WithoutTail(SubSeq(ds, z + 1, Len(ds))), point - z>>
ValueOf(n) == Normal(n.sign, Expand(n), (n.weight + 1) * 4)

\* What goes to the server denotes the program's number, whatever the length
\* of the digits and wherever the point falls among the groups; no group is
\* out of range and none at the end is zero.
NumberExact ==
    /\ numeric.at = "big" => ValueOf(numeric.sent) = Normal(numeric.sign, numeric.ds, Len(numeric.ds) - numeric.exp)
    /\ numeric.at = "decimal" =>
          ValueOf(numeric.sent) = Normal(numeric.sign, DigitsOf(numeric.m, CountDigits(numeric.m)),
                                         CountDigits(numeric.m) - numeric.scale)
    /\ numeric.at \in {"big", "decimal"} =>
          /\ \A i \in DOMAIN numeric.sent.digits : IsValidDigit(numeric.sent.digits[i])
          /\ numeric.sent.digits # <<>> => Last(numeric.sent.digits) # 0

\* A BigDecimal reads any number of the server exactly, and refuses NaN.
BigDecimalExact ==
    numeric.at = "read" =>
        LET n == numeric.was.sent
            b == numeric.big
        IN  IF n.kind = "nan" THEN b.error
            ELSE ~b.error /\ Normal(b.sign, b.base_10, Len(b.base_10) - b.exp) = ValueOf(n)

\* A Decimal that was sent is read back with its value and its scale.
DecimalReadsBack ==
    numeric.at = "read" /\ numeric.was.at = "decimal" /\ numeric.was.m # 0 =>
        /\ numeric.dec.outcome = "ok"
        /\ <<numeric.dec.sign, numeric.dec.mantissa, numeric.dec.scale>>
               = <<numeric.was.sign, numeric.was.m, numeric.was.scale>>

\* A money amount survives the way through a Decimal, the lowest one excepted.
MoneyReadsBack == numeric.at = "money" /\ numeric.money # -MoneyMax => numeric.back = numeric.money
=============================================================================
