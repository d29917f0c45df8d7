---------------------------- MODULE Comparisons ----------------------------
(***************************************************************************)
(* ComparisonExpression::compare, on two values.  A floating number is a   *)
(* whole number or NaN; an integer that is turned into a double keeps      *)
(* Mantissa bits.                                                          *)
(***************************************************************************)
EXTENDS Values

CONSTANTS NaN,       \* not a number
          Mantissa   \* bits of the significand of a double, 53 in the code

(* An uint32 is compared as an int64: it has to fit.                       *)
ASSUME ComparisonAssumption ==
    /\ Mantissa \in Nat \ {0} /\ NaN \notin Int
    /\ IntBytes < LongBytes

LongRange == Span(LongBytes)

(* static_cast<double> of an unsigned integer: to nearest, ties to even.   *)
ToDouble(k) ==
    LET e == CHOOSE e \in 0 .. Bits * LongBytes :
                /\ k < Pow2[Mantissa + e]
                /\ e = 0 \/ k >= Pow2[Mantissa + e - 1]
        u == Pow2[e]
        q == k \div u
        up == 2 * (k % u) > u \/ (2 * (k % u) = u /\ q % 2 = 1)
    IN  (IF up THEN q + 1 ELSE q) * u

(* The operand of a comparison with a floating value.  The two arms of the *)
(* conditional are uint64 and int64: the result is uint64.                 *)
AsDouble(v) == IF is_floating(v) THEN v.data ELSE ToDouble(v.data % LongRange)

(* static_cast<int64_t> of a uint64.                                       *)
AsInt64(k) == IF 2 * k >= LongRange THEN k - LongRange ELSE k

IsAboveInt64(v) == 2 * v.data >= LongRange

(* operator< of the type compared: bool, string and bytes too.             *)
LessThan(type, a, b) ==
    CASE type = "BOOL" -> ~a /\ b
      [] type \in {"STRING", "BYTES"} ->
            \E i \in 1 .. Len(b) :
               /\ \A j \in 1 .. i - 1 : j <= Len(a) /\ a[j] = b[j]
               /\ i > Len(a) \/ a[i] < b[i]
      [] OTHER -> a < b

compare_generic(type, a, b) ==
    IF LessThan(type, a, b) THEN "LESS"
    ELSE IF LessThan(type, b, a) THEN "GREATER" ELSE "EQ"

(* Mutant: an unsigned integer is cast without a look at its range.        *)
CompareIntegralCast(l, r) ==
    compare_generic("INT64", AsInt64(l.data % LongRange), AsInt64(r.data % LongRange))

(* Two integers.                                                           *)
CompareIntegral(l, r) ==
    IF (l.type = "UINT64") = (r.type = "UINT64")
    THEN compare_generic("INT64", l.data, r.data)
    ELSE IF l.type = "UINT64"
    THEN IF IsAboveInt64(l) THEN "GREATER"
         ELSE compare_generic("INT64", AsInt64(l.data), r.data)
    ELSE IF IsAboveInt64(r) THEN "LESS"
         ELSE compare_generic("INT64", l.data, AsInt64(r.data))

compare(l, r) ==
    IF l.null \/ r.null THEN "UNKNOWN"
    ELSE IF is_integral(l) /\ is_integral(r) THEN CompareIntegral(l, r)
    ELSE IF is_numeric(l) /\ is_numeric(r)
         THEN IF NaN \in {AsDouble(l), AsDouble(r)} THEN "UNKNOWN"
              ELSE compare_generic("DOUBLE", AsDouble(l), AsDouble(r))
    ELSE IF l.type = r.type THEN compare_generic(l.type, l.data, r.data)
    ELSE "UNKNOWN"

(* ComparisonExpression::evaluate: the results an operator accepts.        *)
Accepted ==
    [EQUAL |-> {"EQ"}, NOT_EQ |-> {"LESS", "GREATER"}, GREATER |-> {"GREATER"},
     LESS |-> {"LESS"}, GREATER_EQ |-> {"GREATER", "EQ"}, LESS_EQ |-> {"LESS", "EQ"}]

Comparison(op, l, r) ==
    IF compare(l, r) = "UNKNOWN" THEN NullOf("BOOL")
    ELSE Of("BOOL", compare(l, r) \in Accepted[op])

-----------------------------------------------------------------------------
(* What compare should say.                                                *)
Converse(c) == CASE c = "LESS" -> "GREATER" [] c = "GREATER" -> "LESS" [] OTHER -> c

TrueOrder(l, r) ==
    IF is_numeric(l) /\ is_numeric(r)
    THEN IF NaN \in {l.data, r.data} THEN "UNKNOWN"
         ELSE IF l.data < r.data THEN "LESS" ELSE IF l.data > r.data THEN "GREATER" ELSE "EQ"
    ELSE IF l.type # r.type THEN "UNKNOWN"
    ELSE IF l.data = r.data THEN "EQ"
    ELSE IF LessThan(l.type, l.data, r.data) THEN "LESS" ELSE "GREATER"

(* compare agrees with the order of the values and with itself when the    *)
(* operands change places.  Two named exceptions, both between an integer  *)
(* and a floating value: a negative integer, which is taken for a large    *)
(* one, and an integer that a double cannot hold, which may come out as    *)
(* equal to its neighbour but never on the wrong side of it.               *)
AgreesOn(l, r) ==
    LET int == IF is_floating(l) THEN r ELSE l
        mixed == is_numeric(l) /\ is_numeric(r) /\ is_floating(l) # is_floating(r)
    IN  /\ compare(r, l) = Converse(compare(l, r))
        /\ \/ l.null \/ r.null
           \/ compare(l, r) = TrueOrder(l, r)
           \/ mixed /\ int.data < 0
           \/ mixed /\ ToDouble(int.data) # int.data /\ compare(l, r) = "EQ"
=============================================================================
