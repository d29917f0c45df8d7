------------------------------- MODULE Query -------------------------------
(***************************************************************************)
(* QueryEngine::execute on a SelectQuery, and the pull operators it        *)
(* returns: one step is a call of QueryResult::next.  The rows of the      *)
(* tables stay as they are, but another transaction may hold a row or a    *)
(* catalog row locked during a call.                                       *)
(***************************************************************************)
EXTENDS Binder, SequencesExt

CONSTANTS
    Workloads,    \* sequence of [tables, query]: what there is and is asked
    BlockSize,    \* kBLOCK_SIZE, 24 in the code
    MaxExecutes,  \* bound on the executions of the query
    MaxResets     \* bound on the resets of the operators

ASSUME QueryAssumption ==
    /\ BlockSize \in Nat \ {0}
    /\ MaxExecutes \in Nat /\ MaxResets \in Nat

VARIABLES
    tables,    \* a table's schema and rows, by name
    query,     \* the SelectQuery
    asked,     \* what it held when it was last executed
    root,      \* root_ of the QueryResult, while there is one
    status,    \* what the last call came to
    out,       \* the records returned since the execution or the last reset
    refused,   \* a lock was refused meanwhile
    executes, resets

vars == <<tables, query, asked, root, status, out, refused, executes, resets>>

Schemas(names) == [n \in names |-> tables[n].schema]

-----------------------------------------------------------------------------
(* Operator::reset.                                                        *)
RECURSIVE reset(_)
reset(op) ==
    CASE op.node = "SEQ_SCAN" -> [op EXCEPT !.pos = 0]
      [] op.node = "NESTED_LOOP_JOIN" ->
            [op EXCEPT !.left = reset(@), !.right = reset(@), !.left_block = <<>>,
                       !.right_block = <<>>, !.left_it = 0, !.right_it = 0]
      [] op.node = "LIMIT" -> [op EXCEPT !.child = reset(@), !.produced = 0]
      [] OTHER -> [op EXCEPT !.child = reset(@)]

(* What a call of next leaves and returns: a record, the end, an exception *)
(* or a failed assertion.  held is the row, as <<table, position>>, on     *)
(* which the lock is refused: the scan then returns nullopt, as at its end.*)
Returns(op, record) == [op |-> op, result |-> "RECORD", record |-> record]

Stops(op, result) == [op |-> op, result |-> result, record |-> <<>>]

ScanNext(op, held) ==
    LET rows == tables[op.table].rows
    IN  IF op.pos = Len(rows) \/ held = <<op.table, op.pos + 1>> THEN Stops(op, "END")
        ELSE Returns([op EXCEPT !.pos = @ + 1], rows[op.pos + 1])

(* What a predicate makes of a record: "skip unknown and false".           *)
Judged(predicate, record) ==
    LET v == evaluate(predicate, record)
    IN  IF v.type = "THREW" THEN "THREW"
        ELSE IF v.type # "BOOL" THEN "ABORTED"
        ELSE IF ~v.null /\ v.data THEN "RECORD" ELSE "SKIP"

RECURSIVE next(_, _)
RECURSIVE fetch_block(_, _, _)
RECURSIVE JoinNext(_, _)
RECURSIVE FilterNext(_, _)

(* NestedLoopJoin::fetch_block.                                            *)
fetch_block(op, block, held) ==
    IF Len(block) = BlockSize THEN [op |-> op, block |-> block, result |-> "RECORD"]
    ELSE LET p == next(op, held)
         IN  IF p.result = "RECORD" THEN fetch_block(p.op, Append(block, p.record), held)
             ELSE [op |-> p.op, block |-> block, result |-> p.result]

Failed(result) == result \in {"THREW", "ABORTED"}

(* Mutant: the right side is not reset.                                    *)
LeftLoadedOnly(op, f) ==
    [op EXCEPT !.left = f.op, !.left_block = f.block, !.left_it = 0,
               !.right_block = <<>>, !.right_it = 0]

(* A left block is there: the right side begins anew.                      *)
LeftLoaded(op, f) ==
    [op EXCEPT !.left = f.op, !.left_block = f.block, !.left_it = 0,
               !.right = reset(@), !.right_block = <<>>, !.right_it = 0]

(* A right block is there; an empty one ends the left block.               *)
RightLoaded(op, f) ==
    [op EXCEPT !.right = f.op, !.right_block = f.block, !.right_it = 0,
               !.left_block = IF f.block = <<>> THEN <<>> ELSE @]

JoinNext(op, held) ==
    IF op.left_block = <<>>
    THEN LET f == fetch_block(op.left, <<>>, held)
         IN  IF Failed(f.result) THEN Stops([op EXCEPT !.left = f.op], f.result)
             ELSE IF f.block = <<>> THEN Stops([op EXCEPT !.left = f.op], "END")
             ELSE JoinNext(LeftLoaded(op, f), held)
    ELSE IF op.right_it >= Len(op.right_block)
    THEN LET f == fetch_block(op.right, <<>>, held)
         IN  IF Failed(f.result) THEN Stops([op EXCEPT !.right = f.op], f.result)
             ELSE JoinNext(RightLoaded(op, f), held)
    ELSE IF op.left_it < Len(op.left_block)
    THEN LET record == op.left_block[op.left_it + 1] \o op.right_block[op.right_it + 1]
             result == Judged(op.predicate, record)
             after == [op EXCEPT !.left_it = @ + 1]
         IN  IF result = "RECORD" THEN Returns(after, record)
             ELSE IF Failed(result) THEN Stops(after, result)
             ELSE JoinNext(after, held)
    ELSE JoinNext([op EXCEPT !.left_it = 0, !.right_it = @ + 1], held)

FilterNext(op, held) ==
    LET p == next(op.child, held)
        after == [op EXCEPT !.child = p.op]
        result == Judged(op.predicate, p.record)
    IN  IF p.result # "RECORD" THEN Stops(after, p.result)
        ELSE IF result = "RECORD" THEN Returns(after, p.record)
        ELSE IF Failed(result) THEN Stops(after, result)
        ELSE FilterNext(after, held)

ProjectionNext(op, held) ==
    LET p == next(op.child, held)
        after == [op EXCEPT !.child = p.op]
    IN  IF p.result # "RECORD" THEN Stops(after, p.result)
        ELSE Returns(after, [i \in DOMAIN op.columns |-> p.record[op.columns[i] + 1]])

(* A call is counted before it is passed on.                               *)
LimitNext(op, held) ==
    IF op.produced >= op.limit THEN Stops(op, "END")
    ELSE LET p == next(op.child, held)
         IN  [p EXCEPT !.op = [op EXCEPT !.child = p.op, !.produced = @ + 1]]

next(op, held) ==
    CASE op.node = "SEQ_SCAN" -> ScanNext(op, held)
      [] op.node = "NESTED_LOOP_JOIN" -> JoinNext(op, held)
      [] op.node = "FILTER" -> FilterNext(op, held)
      [] op.node = "PROJECTION" -> ProjectionNext(op, held)
      [] op.node = "LIMIT" -> LimitNext(op, held)

-----------------------------------------------------------------------------
Init ==
    /\ \E w \in DOMAIN Workloads :
          /\ tables = Workloads[w].tables
          /\ query = Workloads[w].query
    /\ asked = query
    /\ root = <<>> /\ status = "NONE" /\ out = <<>> /\ refused = FALSE
    /\ executes = 0 /\ resets = 0

(* QueryEngine::execute: bind, optimize, build.  A binding that throws     *)
(* leaves the query without what was taken out of it.                      *)
Execute(locked) ==
    LET schemas == Schemas(DOMAIN tables \ locked)
        plan == bind(query, schemas)
    IN  /\ executes < MaxExecutes
        /\ executes' = executes + 1
        /\ asked' = query
        /\ query' = Taken(query, schemas)
        /\ root' = IF plan = <<>> THEN <<>> ELSE <<build(optimize(plan[1]))>>
        /\ status' = IF plan = <<>> THEN "REJECTED" ELSE "RECORD"
        /\ out' = <<>>
        /\ refused' = (locked # {})
        /\ UNCHANGED <<tables, resets>>

(* QueryResult::next, while the process is alive.                          *)
CallNext(held) ==
    LET p == next(root[1], held)
    IN  /\ root # <<>> /\ status # "ABORTED"
        /\ root' = <<p.op>>
        /\ status' = p.result
        /\ out' = IF p.result = "RECORD" THEN Append(out, p.record) ELSE out
        /\ refused' = (refused \/ held # <<>>)
        /\ UNCHANGED <<tables, query, asked, executes, resets>>

(* Operator::reset of the root.                                            *)
Reset ==
    /\ root # <<>> /\ status # "ABORTED" /\ resets < MaxResets
    /\ resets' = resets + 1
    /\ root' = <<reset(root[1])>>
    /\ status' = "RECORD" /\ out' = <<>> /\ refused' = FALSE
    /\ UNCHANGED <<tables, query, asked, executes>>

Rows == UNION {{<<n, i>> : i \in DOMAIN tables[n].rows} : n \in DOMAIN tables}

Next ==
    \/ \E locked \in {{}} \cup {{n} : n \in DOMAIN tables} : Execute(locked)
    \/ \E held \in {<<>>} \cup Rows : CallNext(held)
    \/ Reset

Spec == Init /\ [][Next]_vars

-----------------------------------------------------------------------------
(* The query read by names.  A scope is a sequence of table references; a  *)
(* choice gives each its row.                                              *)
Scope(k) == <<asked.table[1]>> \o [i \in 1 .. k - 1 |-> asked.joins[i].table]

Whole == Scope(Len(asked.joins) + 1)

(* The places in the scope that a column reference may mean.               *)
Meant(ref, scope) ==
    {i \in DOMAIN scope : ref.qualifier \in {<<>>, <<BoundName(scope[i])>>}}

HasColumn(table, name) == name \in Range(tables[table.name].schema)

Clear(ref, scope) ==
    /\ ref.qualifier = <<>> => Len(scope) = 1
    /\ \E i \in DOMAIN scope : Meant(ref, scope) = {i} /\ HasColumn(scope[i], ref.name)

RECURSIVE Sound(_, _)
Sound(e, scope) ==
    CASE e.kind = "COLUMN" -> Clear(e.ref, scope)
      [] e.kind = "CONSTANT" -> TRUE
      [] e.kind = "UNARY" -> Sound(e.child, scope)
      [] e.kind \in {"COMPARISON", "BINARY"} -> Sound(e.left, scope) /\ Sound(e.right, scope)
      [] OTHER -> FALSE

WellFormed ==
    /\ asked.table # <<>>
    /\ \A i \in DOMAIN Whole : Whole[i].name \in DOMAIN tables
    /\ \A j \in DOMAIN asked.joins : Sound(asked.joins[j].on, Scope(j + 1))
    /\ asked.predicate # <<>> => Sound(asked.predicate[1], Whole)
    /\ asked.columns # <<>> =>
          asked.columns[1] # <<>> /\ \A ref \in Range(asked.columns[1]) : Clear(ref, Whole)

(* The value of a column in the rows chosen.                               *)
ValueOf(ref, scope, choice) ==
    LET i == CHOOSE i \in DOMAIN scope : Meant(ref, scope) = {i}
        t == tables[scope[i].name]
    IN  t.rows[choice[i]][CHOOSE c \in DOMAIN t.schema : t.schema[c] = ref.name]

(* Kleene's logic: FALSE < unknown < TRUE.                                 *)
Truth(v) == IF v.null THEN 1 ELSE IF v.data THEN 2 ELSE 0

RECURSIVE Meaning(_, _, _)
Meaning(e, scope, choice) ==
    LET Operand(x) == IF x.kind = "COLUMN" THEN ValueOf(x.ref, scope, choice) ELSE x.value
        M(x) == Meaning(x, scope, choice)
    IN  CASE e.kind \in {"COLUMN", "CONSTANT"} -> Truth(Operand(e))
          [] e.kind = "COMPARISON" -> Truth(Comparison(e.op, Operand(e.left), Operand(e.right)))
          [] e.kind = "UNARY" -> 2 - M(e.child)
          [] e.kind = "BINARY" /\ e.op = "AND" ->
                IF M(e.left) < M(e.right) THEN M(e.left) ELSE M(e.right)
          [] e.kind = "BINARY" /\ e.op = "OR" ->
                IF M(e.left) > M(e.right) THEN M(e.left) ELSE M(e.right)

ChoicesOf(scope) ==
    LET Within(c) == \A i \in DOMAIN scope : c[i] \in DOMAIN tables[scope[i].name].rows
        rows == UNION {DOMAIN tables[n].rows : n \in DOMAIN tables}
    IN  {c \in [DOMAIN scope -> rows] : Within(c)}

(* AND, OR, NOT and the clauses themselves are about BOOL only.            *)
RECURSIVE Boolean(_, _)
Boolean(e, scope) ==
    CASE e.kind = "COLUMN" ->
            \A choice \in ChoicesOf(scope) : ValueOf(e.ref, scope, choice).type = "BOOL"
      [] e.kind = "CONSTANT" -> e.value.type = "BOOL"
      [] e.kind = "COMPARISON" -> TRUE
      [] e.kind = "UNARY" -> Boolean(e.child, scope)
      [] OTHER -> Boolean(e.left, scope) /\ Boolean(e.right, scope)

WellTyped ==
    /\ \A j \in DOMAIN asked.joins : Boolean(asked.joins[j].on, Scope(j + 1))
    /\ asked.predicate # <<>> => Boolean(asked.predicate[1], Whole)

(* The rows that satisfy every clause, and the record each makes.          *)
Answer ==
    {c \in ChoicesOf(Whole) :
        /\ \A j \in DOMAIN asked.joins : Meaning(asked.joins[j].on, Scope(j + 1), c) = 2
        /\ asked.predicate # <<>> => Meaning(asked.predicate[1], Whole, c) = 2}

RecordOf(choice) ==
    IF asked.columns = <<>>
    THEN FlattenSeq([i \in DOMAIN Whole |-> tables[Whole[i].name].rows[choice[i]]])
    ELSE [k \in DOMAIN asked.columns[1] |-> ValueOf(asked.columns[1][k], Whole, choice)]

Same(r, s) ==
    /\ Len(r) = Len(s)
    /\ \A i \in DOMAIN r : /\ r[i].type = s[i].type /\ r[i].null = s[i].null
                           /\ r[i].null \/ r[i].data = s[i].data

AtMost(n, limit) == IF limit # <<>> /\ limit[1] < n THEN limit[1] ELSE n

(* A query is rejected if it is not well-formed and, unless a lock was     *)
(* refused, only then.  One whose clauses are about BOOL never fails, and  *)
(* through all the joins, refills of the blocks, null values, resets and   *)
(* refused locks it returns the records that its names ask for, each as    *)
(* often as it may; and all of them, up to its limit, unless a lock was    *)
(* refused: then the end of a table cannot be told from a locked row.      *)
ResultCorrect ==
    /\ root # <<>> => WellFormed
    /\ status = "REJECTED" => refused \/ ~WellFormed
    /\ root # <<>> /\ WellTyped =>
          LET Times(r) == Cardinality({c \in Answer : Same(RecordOf(c), r)})
          IN  /\ ~Failed(status)
              /\ \A k \in DOMAIN out :
                    Cardinality({l \in DOMAIN out : Same(out[l], out[k])}) <= Times(out[k])
              /\ status = "END" /\ ~refused =>
                    Len(out) = AtMost(Cardinality(Answer), asked.limit)

(* ComparisonExpression::compare, on every two values that a finished      *)
(* query has gone through: signed against unsigned up to the ends of their *)
(* ranges, integers against doubles and NaN, strings, and types that do    *)
(* not compare.                                                            *)
OrderAgrees ==
    status = "END" =>
       \A m, n \in DOMAIN tables :
          \A i \in DOMAIN tables[m].rows, j \in DOMAIN tables[n].rows :
             \A v \in DOMAIN tables[m].schema, w \in DOMAIN tables[n].schema :
                AgreesOn(tables[m].rows[i][v], tables[n].rows[j][w])
=============================================================================
