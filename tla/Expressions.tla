---------------------------- MODULE Expressions ----------------------------
(***************************************************************************)
(* The bound expressions and their evaluation on a record.  An expression  *)
(* that throws has the value Threw.                                        *)
(***************************************************************************)
EXTENDS Comparisons

Threw == [type |-> "THREW", null |-> FALSE, data |-> 0]

(* BinaryExpression::evaluate: the value that decides alone, for either    *)
(* operator, is looked for before a null.                                  *)
Binary(op, l, r) ==
    LET decides == (op = "OR")
        Decisive(v) == ~v.null /\ v.data = decides
    IN  IF l.null /\ r.null THEN NullOf("BOOL")
        ELSE IF l.type # "BOOL" \/ r.type # "BOOL" THEN Threw
        ELSE IF Decisive(l) \/ Decisive(r) THEN Of("BOOL", decides)
        ELSE IF l.null \/ r.null THEN NullOf("BOOL")
        ELSE Of("BOOL", ~decides)

(* UnaryExpression::evaluate.                                              *)
Not(v) ==
    IF v.null THEN NullOf("BOOL")
    ELSE IF v.type # "BOOL" THEN Threw ELSE Of("BOOL", ~v.data)

RECURSIVE evaluate(_, _)
evaluate(e, record) ==
    CASE e.kind = "COLUMN" -> record[e.index + 1]
      [] e.kind = "CONSTANT" -> e.value
      [] e.kind = "UNARY" ->
            LET v == evaluate(e.child, record)
            IN  IF v.type = "THREW" THEN Threw ELSE Not(v)
      [] OTHER ->
            LET l == evaluate(e.left, record)
                r == evaluate(e.right, record)
            IN  IF "THREW" \in {l.type, r.type} THEN Threw
                ELSE IF e.kind = "COMPARISON" THEN Comparison(e.op, l, r)
                ELSE Binary(e.op, l, r)

=============================================================================
