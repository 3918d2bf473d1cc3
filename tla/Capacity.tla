------------------------------- MODULE Capacity -------------------------------
(***************************************************************************)
(* capacity: amounts of bytes as texts like 1GB512MB or -1.5k. A text is   *)
(* its sign and its terms, a number, a fraction after the point and a      *)
(* unit, the power of Base (1024) it stands for. Integers are those of 64  *)
(* bits, up to MaxInt; a fraction is so many Scale-ths, and what it is of  *)
(* the unit is computed in floating point from the digits that fit an      *)
(* integer. The digits dropped and the three roundings are an error of at  *)
(* most Slack Scale-ths of the unit, less than a byte (with 2^40 bytes of  *)
(* the largest unit, 2^40 * (3 * 2^-53 + 10^-18)), before the rest of a    *)
(* byte is cut off. A text that is not of this form is refused like the    *)
(* empty one.                                                              *)
(***************************************************************************)
EXTENDS Integers, Sequences, FiniteSets

CONSTANTS
  Base,
  MaxInt,
  Number,    \* numbers before the point in the texts, and in JSON
  Fraction,  \* fractions after the point in the texts
  Scale, Slack

VARIABLES
  capacity,
  negative, terms,   \* the text that was set last
  reply              \* what became of it: "new", "parsed", "refused", or of a number
                     \* of JSON: "number" or, when no integer, "outside"

capacityVars == << capacity, negative, terms, reply >>

magicUnit == 0 .. 4

unitMap[i \in magicUnit] == IF i = 0 THEN 1 ELSE unitMap[i - 1] * Base

ASSUME CapacityAssumption ==
  /\ Base \in Nat \ {0} /\ Number \subseteq Nat
  /\ MaxInt \in Nat /\ unitMap[4] * Base <= MaxInt
  /\ Scale \in Nat \ {0} /\ Fraction \subseteq 0 .. Scale - 1
  /\ Slack \in Nat /\ Slack * unitMap[4] < Scale

Term  == [v : Number, f : Fraction, unit : magicUnit]
Terms == UNION {[1 .. n -> Term] : n \in 0 .. 2}

\* Mutant: integers have no limit.
Unlimited(x) == x

Wrap(x) == IF x > MaxInt THEN x - 2 * (MaxInt + 1) ELSE x

NoAmount == -1

----------------------------------------------------------------------------
\* The number before the point, and what the fraction may come to of a unit.
leadingInt(v) == IF v > MaxInt THEN NoAmount ELSE v

leadingFraction(f, unit) ==
  IF f = 0 THEN {0}
  ELSE {n \in 0 .. unit :
          n \in ((f - Slack) * unit) \div Scale .. ((f + Slack) * unit) \div Scale}

\* A text as it is read: part is what the fraction comes to.
ReadTerm(t) ==
  {[v |-> t.v, part |-> n, unit |-> t.unit] : n \in leadingFraction(t.f, unitMap[t.unit])}

Readings(q) ==
  {x \in [DOMAIN q -> UNION {ReadTerm(q[i]) : i \in DOMAIN q}] :
     \A i \in DOMAIN q : x[i] \in ReadTerm(q[i])}

\* A term, or NoAmount: the overflow of the product is met before it happens, that
\* of the fraction after.
TermValue(t) ==
  LET unit == unitMap[t.unit]
      i    == leadingInt(t.v)
  IN  IF i = NoAmount \/ i > MaxInt \div unit THEN NoAmount
      ELSE LET v == Wrap(i * unit + t.part) IN IF v < 0 THEN NoAmount ELSE v

AddTerm(d, t) ==
  LET v == TermValue(t)
      s == Wrap(d + v)
  IN  IF d = NoAmount \/ v = NoAmount \/ s < 0 THEN NoAmount ELSE s

\* The loop over the terms, in a text that is read as x.
Parsed(x) ==
  LET d[i \in 0 .. Len(x)] == IF i = 0 THEN 0 ELSE AddTerm(d[i - 1], x[i])
  IN  d[Len(x)]

\* No terms is an error; d is negative only when it is NoAmount.
Refused(x) == x = << >> \/ Parsed(x) = NoAmount

ParseCapacities(neg, x) == IF Refused(x) THEN 0 ELSE IF neg THEN -Parsed(x) ELSE Parsed(x)

\* What is left of u when the loop comes to a unit, and the digit to the base
\* it writes there.
Left(u) == LET left[i \in magicUnit] == IF i = 0 THEN u ELSE left[i - 1] \div Base IN left

Digit(u, i) == Left(u)[i] % Base

\* Mutant: the loop ends at a digit that is zero.
DigitsToZero(u) == {i \in magicUnit : \A j \in 0 .. i : Digit(u, j) > 0}

\* The units that are written.
Digits(u) == {i \in magicUnit : Digit(u, i) > 0}

\* String, without the sign: written[i] is the text from the unit i up. Zero is
\* the empty text.
String(u) ==
  LET written[i \in 0 .. 5] ==
        IF i = 5 THEN << >>
        ELSE IF i \in Digits(u)
             THEN Append(written[i + 1], [v |-> Digit(u, i), f |-> 0, unit |-> i])
             ELSE written[i + 1]
  IN  written[0]

----------------------------------------------------------------------------
CapacityInit ==
  /\ capacity = 0
  /\ negative = FALSE /\ terms = << >>
  /\ reply = "new"

\* Set, UnmarshalJSON of a string and UnmarshalYAML: after an error the amount is
\* zero.
SetCapacity(neg, q) ==
  /\ reply = "new"
  /\ negative' = neg /\ terms' = q
  /\ \E x \in Readings(q) :
       /\ capacity' = ParseCapacities(neg, x)
       /\ reply' = IF Refused(x) THEN "refused" ELSE "parsed"

\* The same of the text 0, which needs no unit.
SetZero(neg) ==
  /\ reply = "new"
  /\ negative' = neg
  /\ capacity' = 0 /\ reply' = "parsed"
  /\ UNCHANGED terms

\* UnmarshalJSON of a number: out of range, which is an error, the amount is the
\* integer nearest.
SetNumber(neg, n) ==
  LET x == IF neg THEN -n ELSE n IN
  /\ reply = "new"
  /\ negative' = neg
  /\ capacity' = IF x > MaxInt THEN MaxInt ELSE IF x < -MaxInt - 1 THEN -MaxInt - 1 ELSE x
  /\ reply' = IF capacity' = x THEN "number" ELSE "outside"
  /\ UNCHANGED terms

CapacityNext ==
  \E neg \in BOOLEAN :
     \/ \E q \in Terms : SetCapacity(neg, q)
     \/ SetZero(neg)
     \/ \E n \in Number : SetNumber(neg, n)

CapacitySpec == CapacityInit /\ [][CapacityNext]_capacityVars

----------------------------------------------------------------------------
(* Properties.                                                             *)

\* Every variable has its type.
CapacityTypeOK ==
  /\ capacity \in -MaxInt - 1 .. MaxInt
  /\ negative \in BOOLEAN /\ terms \in Terms
  /\ reply \in {"new", "parsed", "refused", "number", "outside"}

\* The sum of what the terms say, each in whole bytes, with no limit on integers
\* and no rounding but that.
Amount(q) ==
  LET Says(t)  == t.v * unitMap[t.unit] + (t.f * unitMap[t.unit]) \div Scale
      sum[i \in 0 .. Len(q)] == IF i = 0 THEN 0 ELSE sum[i - 1] + Says(q[i])
  IN  sum[Len(q)]

Fractions(q) == Cardinality({i \in DOMAIN q : q[i].f > 0})

\* A text that is accepted is the amount it says, to a byte for each fraction in
\* it, with its sign and never wrapped around, and one that is not is empty or
\* too large; and an amount that is written is read back exactly, but for zero,
\* whose text is refused, and amounts from 1024 of the largest unit on.
CapacityAsSaid ==
  /\ reply = "parsed" =>
       (IF negative THEN -capacity ELSE capacity) - Amount(terms)
         \in -Fractions(terms) .. Fractions(terms)
  /\ reply = "refused" => terms = << >> \/ Amount(terms) + Fractions(terms) > MaxInt
  /\ LET u == IF capacity < 0 THEN -capacity ELSE capacity IN
     u \in 1 .. unitMap[4] * Base - 1 =>
       \A x \in Readings(String(u)) : ParseCapacities(capacity < 0, x) = capacity

============================================================================
