------------------------------- MODULE Binder -------------------------------
(***************************************************************************)
(* Binder::bind, from a SelectQuery to a logical plan, and the optimizer   *)
(* and the executor that turn the plan into operators.  An optional is a   *)
(* sequence of at most one element; a binding that throws is the empty     *)
(* one.  A schema is the sequence of its column names.                     *)
(***************************************************************************)
EXTENDS Expressions, FiniteSets

(* ColumnRef, TableRef and the unbound expressions.                        *)
ColumnRef(qualifier, name) == [qualifier |-> qualifier, name |-> name]

TableRef(name, alias) == [name |-> name, alias |-> alias]

UnboundColumn(ref) == [kind |-> "COLUMN", ref |-> ref]

Constant(value) == [kind |-> "CONSTANT", value |-> value]

UnboundComparison(l, op, r) == [kind |-> "COMPARISON", left |-> l, op |-> op, right |-> r]

UnboundBinary(l, op, r) == [kind |-> "BINARY", left |-> l, op |-> op, right |-> r]

UnboundNot(child) == [kind |-> "UNARY", child |-> child]

(* alias.value_or(name).                                                   *)
BoundName(table) == IF table.alias # <<>> THEN table.alias[1] ELSE table.name

(* SelectQuery::columns: a lone unqualified * stands for no projection.    *)
SelectColumns(refs) ==
    IF refs = <<ColumnRef(<<>>, "*")>> THEN <<>> ELSE <<refs>>

-----------------------------------------------------------------------------
(* Schema::column_index: the first column of that name.                    *)
column_index(schema, name) ==
    LET at == {i \in DOMAIN schema : schema[i] = name}
    IN  IF at = {} THEN <<>> ELSE <<(CHOOSE i \in at : \A j \in at : i <= j) - 1>>

(* resolve_column.  A binding is [name, schema, offset].                   *)
Matches(ref, context) ==
    {i \in DOMAIN context : ref.qualifier \in {<<>>, <<context[i].name>>}}

resolve_column(ref, context) ==
    IF \/ ref.qualifier = <<>> /\ Len(context) > 1
       \/ Cardinality(Matches(ref, context)) # 1
       \/ \E i \in Matches(ref, context) : column_index(context[i].schema, ref.name) = <<>>
    THEN <<>>
    ELSE LET b == context[CHOOSE i \in Matches(ref, context) : TRUE]
         IN  <<b.offset + column_index(b.schema, ref.name)[1]>>

(* bind_expression; the null expression is of no kind and throws.          *)
RECURSIVE bind_expression(_, _)
bind_expression(e, context) ==
    CASE e.kind = "COLUMN" ->
            LET i == resolve_column(e.ref, context)
            IN  IF i = <<>> THEN <<>> ELSE <<[kind |-> "COLUMN", index |-> i[1]]>>
      [] e.kind = "CONSTANT" -> <<e>>
      [] e.kind \in {"COMPARISON", "BINARY"} ->
            LET l == bind_expression(e.left, context)
                r == bind_expression(e.right, context)
            IN  IF l = <<>> \/ r = <<>> THEN <<>> ELSE <<[e EXCEPT !.left = l[1], !.right = r[1]]>>
      [] e.kind = "UNARY" ->
            LET c == bind_expression(e.child, context)
            IN  IF c = <<>> THEN <<>> ELSE <<[e EXCEPT !.child = c[1]]>>
      [] OTHER -> <<>>

-----------------------------------------------------------------------------
(* The logical plan nodes.                                                 *)
Scan(table, schema) == [node |-> "SCAN", table |-> table, schema |-> schema]

Filter(child, predicate) ==
    [node |-> "FILTER", child |-> child, predicate |-> predicate, schema |-> child.schema]

Join(left, right, predicate) ==
    [node |-> "JOIN", left |-> left, right |-> right, predicate |-> predicate,
     schema |-> left.schema \o right.schema]

Projection(child, columns) ==
    [node |-> "PROJECTION", child |-> child, columns |-> columns,
     schema |-> [i \in DOMAIN columns |-> child.schema[columns[i] + 1]]]

Limit(child, limit) ==
    [node |-> "LIMIT", child |-> child, limit |-> limit, schema |-> child.schema]

(* The bindings of bind, one by one, for a query [columns, table,          *)
(* predicate, limit, joins].  get_table finds nothing where a lock on the  *)
(* catalog row is refused: schemas has the tables it finds.                *)
BindFrom(query, schemas) ==
    IF query.table = <<>> THEN <<>>
    ELSE LET t == query.table[1]
         IN  IF t.name \notin DOMAIN schemas THEN <<>>
             ELSE <<[plan |-> Scan(t.name, schemas[t.name]),
                     context |-> <<[name |-> BoundName(t), schema |-> schemas[t.name],
                                    offset |-> 0]>>]>>

BindJoin(bound, clause, schemas) ==
    IF clause.table.name \notin DOMAIN schemas THEN <<>>
    ELSE LET schema == schemas[clause.table.name]
             context == Append(bound.context,
                           [name |-> BoundName(clause.table), schema |-> schema,
                            offset |-> Len(bound.plan.schema)])
             on == bind_expression(clause.on, context)
         IN  IF on = <<>> THEN <<>>
             ELSE <<[plan |-> Join(bound.plan, Scan(clause.table.name, schema), on[1]),
                     context |-> context]>>

BindJoins(query, schemas) ==
    LET Bound[i \in 0 .. Len(query.joins)] ==
           IF i = 0 THEN BindFrom(query, schemas)
           ELSE IF Bound[i - 1] = <<>> THEN <<>>
           ELSE BindJoin(Bound[i - 1][1], query.joins[i], schemas)
    IN  Bound[Len(query.joins)]

BindWhere(query, bound) ==
    IF query.predicate = <<>> THEN <<bound>>
    ELSE LET p == bind_expression(query.predicate[1], bound.context)
         IN  IF p = <<>> THEN <<>> ELSE <<[bound EXCEPT !.plan = Filter(@, p[1])]>>

BindColumns(query, bound) ==
    IF query.columns = <<>> THEN <<bound>>
    ELSE LET refs == query.columns[1]
             at == [i \in DOMAIN refs |-> resolve_column(refs[i], bound.context)]
         IN  IF refs = <<>> \/ \E i \in DOMAIN at : at[i] = <<>> THEN <<>>
             ELSE <<[bound EXCEPT !.plan = Projection(@, [i \in DOMAIN at |-> at[i][1]])]>>

BindLimit(query, bound) ==
    IF query.limit = <<>> THEN bound.plan ELSE Limit(bound.plan, query.limit[1])

bind(query, schemas) ==
    LET joined == BindJoins(query, schemas)
        filtered == IF joined = <<>> THEN <<>> ELSE BindWhere(query, joined[1])
        projected == IF filtered = <<>> THEN <<>> ELSE BindColumns(query, filtered[1])
    IN  IF projected = <<>> THEN <<>> ELSE <<BindLimit(query, projected[1])>>

(* bind takes the joins out of the query once the FROM table is found, and *)
(* the predicate once the joins are bound, whether or not it throws later. *)
Taken(query, schemas) ==
    IF BindFrom(query, schemas) = <<>> THEN query
    ELSE IF BindJoins(query, schemas) = <<>> THEN [query EXCEPT !.joins = <<>>]
    ELSE [query EXCEPT !.joins = <<>>, !.predicate = <<>>]

(* Optimizer::optimize: one physical node for each logical one.            *)
RECURSIVE optimize(_)
optimize(plan) ==
    CASE plan.node = "SCAN" -> [node |-> "SEQ_SCAN", table |-> plan.table]
      [] plan.node = "JOIN" ->
            [node |-> "NESTED_LOOP_JOIN", left |-> optimize(plan.left),
             right |-> optimize(plan.right), predicate |-> plan.predicate]
      [] plan.node = "FILTER" ->
            [node |-> "FILTER", child |-> optimize(plan.child), predicate |-> plan.predicate]
      [] plan.node = "PROJECTION" ->
            [node |-> "PROJECTION", child |-> optimize(plan.child), columns |-> plan.columns]
      [] plan.node = "LIMIT" ->
            [node |-> "LIMIT", child |-> optimize(plan.child), limit |-> plan.limit]

(* Executor::build: the operators, with the state they begin in.           *)
RECURSIVE build(_)
build(plan) ==
    CASE plan.node = "SEQ_SCAN" -> [node |-> "SEQ_SCAN", table |-> plan.table, pos |-> 0]
      [] plan.node = "NESTED_LOOP_JOIN" ->
            [node |-> "NESTED_LOOP_JOIN", left |-> build(plan.left),
             right |-> build(plan.right), predicate |-> plan.predicate,
             left_block |-> <<>>, right_block |-> <<>>, left_it |-> 0, right_it |-> 0]
      [] plan.node = "LIMIT" ->
            [node |-> "LIMIT", child |-> build(plan.child), limit |-> plan.limit, produced |-> 0]
      [] OTHER -> [plan EXCEPT !.child = build(plan.child)]
=============================================================================
