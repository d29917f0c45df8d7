---------------------------- MODULE MCTablePage ----------------------------
(* TablePage with rows of three to five bytes; schemas of up to three      *)
(* columns of nine kinds for the codec, with bytes of two bits: two bytes  *)
(* hold 16 numbers, and rows of exactly 16 bytes and of more are among     *)
(* them.                                                                   *)
EXTENDS TablePage, TLC

Column(name, type, length) == [name |-> name, type |-> type, length |-> length]

MCColumns == {Column(<<>>, "INT64", 0), Column(<<1>>, "UINT32", 0),
              Column(<<>>, "DOUBLE", 0), Column(<<1>>, "BOOL", 0), Column(<<>>, "CHAR", 2),
              Column(<<1>>, "CHAR", 0), Column(<<1>>, "VARCHAR", 2),
              Column(<<2, 1, 3>>, "VARCHAR", 0), Column(<<>>, "VARBINARY", 1)}

MCStrings == {<<>>, <<1>>, <<3, 0>>, <<2, 1, 3>>,
              [i \in 1 .. 12 |-> i % 4], [i \in 1 .. 17 |-> i % 4]}

MCSchema == <<Column(<<2, 1, 3>>, "VARCHAR", 0)>>
MCRows == {<<NullOf("STRING")>>, <<Of("STRING", <<1>>)>>, <<Of("STRING", <<3, 0>>)>>}
MCBytes == 0 .. 3
MCTuples == {serialize(r, MCSchema) : r \in MCRows}
=============================================================================
