------------------------------- MODULE Scalars -------------------------------
(***************************************************************************)
(* The values a rule is made of: texts, the scalar operands of conditions, *)
(* the fact values they are compared with, exact decimals and dates.       *)
(*                                                                         *)
(* A text that spells a number is kept by what it spells, its digits read  *)
(* as one integer and how many of them follow the point; every other text  *)
(* is a word. Decimals are exact: mantissa m and scale e stand for         *)
(* m / 10^e. The runtime compares floating-point numbers: an f64 is kept   *)
(* as the shortest decimal that reads back as it, and Nearest rounds a     *)
(* decimal to one, so that two decimals can become one number.             *)
(*                                                                         *)
(* An optional value is a set: empty when it is absent, a singleton when   *)
(* it is present. An operation that can be refused returns such a set.     *)
(***************************************************************************)
EXTENDS Nesting, FiniteSets

CONSTANTS
  MaxMantissa,  \* the largest mantissa (i128::MAX)
  MaxScale,     \* the largest scale (i8::MAX)
  MaxJsonInt,   \* the largest integer a JSON number holds exactly (u64::MAX)
  MaxYear,      \* the largest year (i16::MAX)
  NonNfc,       \* the words that are not NFC-normalised
  Nearest(_)    \* the f64 nearest to <<m, e>>, a decimal without zeros to strip

ASSUME ScalarsAssumption ==
  /\ MaxMantissa \in Nat /\ MaxScale \in Nat /\ MaxJsonInt \in Nat
  /\ MaxYear \in Nat

(* Whatever the program rounds becomes a number.                           *)
ASSUME NearestAssumption ==
  \A m \in - MaxMantissa - 1 .. MaxMantissa, e \in 0 .. MaxScale :
    Nearest(<<m, e>>) \in Int \X Nat

Word(w)    == [word |-> w]
Number(n)  == [num |-> n]                 \* n is <<digits, fraction digits>>
Str(text) == [str |-> text]
Bool(b)    == [bool |-> b]
Decimal(m, e) == [m |-> m, e |-> e]
List(items)   == [list |-> items]

IsStr(v)     == DOMAIN v = {"str"}
IsBool(v)    == DOMAIN v = {"bool"}
IsDecimal(v) == DOMAIN v = {"m", "e"}
IsList(v)    == DOMAIN v = {"list"}

IsNfc(text) == "word" \in DOMAIN text => text.word \notin NonNfc
IsBlank(text) == text = Word("")

-----------------------------------------------------------------------------
(* Exact decimals.                                                         *)

Abs(n) == IF n < 0 THEN -n ELSE n

Pow10[n \in Nat] == IF n = 0 THEN 1 ELSE 10 * Pow10[n - 1]

(* m1 / 10^e1 against m2 / 10^e2.                                          *)
SameNumber(a, b) == a[1] * Pow10[b[2]] = b[1] * Pow10[a[2]]
LessNumber(a, b) == a[1] * Pow10[b[2]] < b[1] * Pow10[a[2]]

(* Trailing zeros go as far as the scale allows; zero has scale zero.      *)
Stripped(m, e) ==
  LET strip[k \in 0 .. e] ==
        IF k = 0 THEN <<m, e>>
        ELSE LET s == strip[k - 1]
             IN  IF s[2] > 0 /\ s[1] % 10 = 0 THEN <<s[1] \div 10, s[2] - 1>> ELSE s
  IN  IF m = 0 THEN <<0, 0>> ELSE strip[e]

(* Mutant: the last digit after the point goes, zero or not.               *)
NormalizeDecimalShort(m, e) ==
  LET folded == IF e < 0 THEN <<m * Pow10[-e], 0>> ELSE <<m, e>>
  IN  IF Abs(folded[1]) > MaxMantissa THEN {}
      ELSE {IF folded[2] > 0 THEN <<folded[1] \div 10, folded[2] - 1>>
                             ELSE folded}

(* The canonical encoder's normal form, refused when folding a negative    *)
(* scale into the mantissa overflows it.                                   *)
NormalizeDecimal(m, e) ==
  LET folded == IF e < 0 THEN <<m * Pow10[-e], 0>> ELSE <<m, e>>
  IN  IF Abs(folded[1]) > MaxMantissa THEN {}
                                      ELSE {Stripped(folded[1], folded[2])}

(* The decoder's test for that form.                                       *)
DecimalIsCanonical(m, e) ==
  /\ e >= 0
  /\ ~ (e > 0 /\ m # 0 /\ m % 10 = 0)
  /\ ~ (m = 0 /\ e # 0)

(* The semantic form's own normalisation: it saturates where the encoder   *)
(* refuses.                                                                *)
NormDecimal(m, e) ==
  LET wide == m * Pow10[-e]
      sat  == IF wide > MaxMantissa THEN MaxMantissa
              ELSE IF wide < - MaxMantissa - 1 THEN - MaxMantissa - 1 ELSE wide
  IN  IF e < 0 THEN Stripped(sat, 0) ELSE Stripped(m, e)

(* The compiler's reading of a literal: digits that do not fit, and        *)
(* anything else that is not a plain number, is no decimal.                *)
ParseDecimal(text) ==
  IF /\ "num" \in DOMAIN text
     /\ Abs(text.num[1]) <= MaxMantissa
     /\ text.num[2] <= MaxScale
  THEN {Decimal(text.num[1], text.num[2])}
  ELSE {}

(* Mutant: the zeros at the end stay.                                       *)
ParseThresholdUnfolded(text) == ParseDecimal(text)

(* The intent path's own reading, an error where the compiler's leaves a   *)
(* string: nothing encodes the result again, so it has to be canonical as  *)
(* it leaves here.                                                         *)
ParseThreshold(text) ==
  IF /\ "num" \in DOMAIN text
     /\ text.num[2] <= MaxScale
     /\ Abs(text.num[1]) <= MaxMantissa
  THEN { Decimal(s[1], s[2]) : s \in {Stripped(text.num[1], text.num[2])} }
  ELSE {}

(* The plain decimal text of a decimal, and the number it is.              *)
DecimalToString(m, e) ==
  IF e <= 0 THEN Number(<<m * Pow10[-e], 0>>) ELSE Number(<<m, e>>)

(* A number, however it is written, as the f64 nearest to it.              *)
F64(d) == Nearest(Stripped(d[1], d[2]))

(* Mutant: the point is forgotten.                                         *)
DecimalToF64Unscaled(m, e) == F64(<<m, 0>>)

DecimalToF64(m, e) == F64(DecimalToString(m, e).num)

-----------------------------------------------------------------------------
(* YAML scalars. A node is [text, quoted].                                 *)

(* `true` and `false` as YAML spells them.                                 *)
YamlBool == { Word("true"), Word("false") }

(* A quoted scalar is a string; an unquoted one is a bool, a decimal, or   *)
(* else a string.                                                          *)
ScalarToValue(node) ==
  IF node.quoted THEN Str(node.text)
  ELSE IF node.text \in YamlBool THEN Bool(node.text = Word("true"))
  ELSE IF ParseDecimal(node.text) # {}
       THEN CHOOSE d \in ParseDecimal(node.text) : TRUE
  ELSE Str(node.text)

-----------------------------------------------------------------------------
(* Dates, as <<year, month, day>>, in calendar order.                      *)

MinYear == 1900

DateIsValid(d) == d[1] >= MinYear /\ d[2] \in 1..12 /\ d[3] \in 1..31

DateBefore(a, b) ==
  \/ a[1] < b[1]
  \/ a[1] = b[1] /\ a[2] < b[2]
  \/ a[1] = b[1] /\ a[2] = b[2] /\ a[3] < b[3]

(* A window is [from, to], to optional; a rule may have none.              *)

(* Closed-open, and open-ended without an end.                             *)
EffectiveAt(window, date) ==
  \A w \in window : /\ ~ DateBefore(date, w.from)
                    /\ \A to \in w.to : DateBefore(date, to)

=============================================================================
