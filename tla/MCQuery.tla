------------------------------ MODULE MCQuery ------------------------------
(***************************************************************************)
(* Query for TLC: queries over two tables, put together from the clauses   *)
(* below, and comparisons of any two sample values.                        *)
(***************************************************************************)
EXTENDS Query, TLC

T(name) == TableRef(name, <<>>)
As(name, alias) == TableRef(name, <<alias>>)
Column(q, name) == UnboundColumn(ColumnRef(<<q>>, name))
Whole64(n) == Of("INT64", n)
Less(l, r) == UnboundComparison(l, "LESS", r)
Eq(l, r) == UnboundComparison(l, "EQUAL", r)

(* Three rows to a side: two blocks each.                                  *)
TSchema == <<"id", "x">>
USchema == <<"id", "ok">>
TRows == <<
    << <<Whole64(1), Whole64(2)>>, <<Whole64(2), NullOf("INT64")>>, <<Whole64(3), Whole64(1)>> >>,
    << <<Whole64(1), Whole64(1)>>, <<Whole64(1), Whole64(1)>> >> >>
URows == <<
    << <<Whole64(1), Of("BOOL", TRUE)>>, <<Whole64(3), NullOf("BOOL")>>, <<Whole64(1), Of("BOOL", FALSE)>> >>,
    << <<Whole64(1), Of("BOOL", TRUE)>> >>,
    <<>> >>

Froms == << <<T("t")>>, <<As("t", "a")>>, <<>>, <<T("missing")>> >>

Clause(table, on) == [table |-> table, on |-> on]
JoinLists == <<
    <<>>,
    <<Clause(T("u"), Eq(Column("t", "id"), Column("u", "id")))>>,
    <<Clause(As("u", "b"), UnboundNot(Less(Column("a", "x"), Column("b", "id"))))>>,
    <<Clause(T("u"), UnboundBinary(Eq(Column("t", "x"), Column("u", "id")), "OR", Column("u", "ok"))),
      Clause(As("t", "c"), UnboundComparison(Column("t", "id"), "LESS_EQ", Column("c", "id")))>>,
    <<Clause(As("u", "t"), Eq(Column("t", "id"), Column("t", "id")))>>,
    <<Clause(T("u"), Eq(Column("c", "id"), Column("u", "id"))), Clause(As("t", "c"), Column("u", "ok"))>>,
    <<Clause(T("u"), [kind |-> "NONE"])>>,
    <<Clause(T("missing"), Constant(Of("BOOL", TRUE)))>> >>

Wheres == <<
    <<>>,
    <<UnboundBinary(Eq(Column("t", "x"), Constant(Whole64(1))), "AND", UnboundNot(Column("u", "ok")))>>,
    <<Less(UnboundColumn(ColumnRef(<<>>, "id")), Constant(Whole64(2)))>>,
    <<UnboundBinary(Less(Column("a", "id"), Constant(Whole64(3))), "OR", Column("a", "x"))>>,
    <<Constant(Whole64(1))>> >>

Lists == <<
    SelectColumns(<<ColumnRef(<<>>, "*")>>),
    SelectColumns(<<ColumnRef(<<"u">>, "ok"), ColumnRef(<<"t">>, "id")>>),
    SelectColumns(<<ColumnRef(<<>>, "x")>>),
    SelectColumns(<<ColumnRef(<<"b">>, "ok")>>),
    SelectColumns(<<>>) >>

Limits == << <<>>, <<0>>, <<2>> >>

(* All integers of the widths in the cfg, and some values of other types.  *)
Run(low, high) == [i \in 1 .. high - low + 1 |-> low + i - 1]

Samples ==
    LET All(type, data) == [i \in DOMAIN data |-> Of(type, data[i])]
    IN  All("INT64", Run(-8, 7)) \o All("UINT64", Run(0, 15))
        \o All("INT32", Run(-2, 1)) \o All("UINT32", Run(0, 3))
        \o All("DOUBLE", <<NaN, -16, -7, -1, 0, 1, 2, 3, 5, 7, 8, 10, 12, 14, 16>>)
        \o All("FLOAT", <<-2, 0, 1, 3, 6, 12>>) \o <<NullOf("INT64")>>
        \o All("BOOL", <<FALSE, TRUE>>) \o All("STRING", << <<>>, <<0>>, <<0, 1>>, <<1>> >>)
        \o All("BYTES", << <<0>>, <<1>> >>)

Operators == <<"EQUAL", "NOT_EQ", "GREATER", "LESS", "GREATER_EQ", "LESS_EQ">>

Comparisons ==
    [p \in 1 .. Len(Samples) * Len(Samples) |->
        LET i == (p - 1) \div Len(Samples) + 1
            j == ((p - 1) % Len(Samples)) + 1
        IN  [tables |-> ("l" :> [schema |-> <<"v">>, rows |-> << <<Samples[i]>> >>])
                     @@ ("r" :> [schema |-> <<"v">>, rows |-> << <<Samples[j]>> >>]),
             query |-> [columns |-> <<>>, table |-> <<T("l")>>, limit |-> <<>>, predicate |-> <<>>,
                        joins |-> <<Clause(T("r"),
                           UnboundComparison(Column("l", "v"), Operators[((i + j) % 6) + 1],
                                             Column("r", "v")))>>]]]

(* Every combination of the clauses.                                       *)
Pick(seq, n) == seq[(n % Len(seq)) + 1]
Queries ==
    LET a == Len(TRows)  b == a * Len(URows)  c == b * Len(Froms)  d == c * Len(JoinLists)
        e == d * Len(Wheres)  f == e * Len(Lists)
    IN  [p \in 1 .. f * Len(Limits) |->
            [tables |-> ("t" :> [schema |-> TSchema, rows |-> Pick(TRows, p)])
                     @@ ("u" :> [schema |-> USchema, rows |-> Pick(URows, p \div a)]),
             query |-> [columns |-> Pick(Lists, p \div e), table |-> Pick(Froms, p \div b),
                        limit |-> Pick(Limits, p \div f), predicate |-> Pick(Wheres, p \div d),
                        joins |-> Pick(JoinLists, p \div c)]]]

AllWorkloads == Queries \o Comparisons
=============================================================================
