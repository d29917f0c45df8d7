----------------------------- MODULE TupleCodec -----------------------------
(***************************************************************************)
(* Tuple, Column and Schema: how a row and a schema become bytes and are   *)
(* read back.  A row is a sequence of values, a schema a sequence of       *)
(* columns [name, type, length]; byte k of a buffer is its element k + 1.  *)
(* serialize throws on a row that Accepts does not accept.                 *)
(***************************************************************************)
EXTENDS Values, SequencesExt

CONSTANTS Columns,     \* the columns of which schemas are made
          MaxColumns,  \* bound on the columns of a schema
          Strings      \* the strings and byte strings in rows

(* The values of an uint16_t, and its two bytes.                           *)
Word == Span(2)

WordBytes(n) == ToBytes(n, 2)

WordAt(raw, offset) == FromBytes(SubSeq(raw, offset + 1, offset + 2))

(* TypeId, in the order of the enumeration, and type_id_to_value_type.     *)
TypeIds == <<"INT32", "INT64", "UINT32", "UINT64", "FLOAT", "DOUBLE", "BOOL",
             "CHAR", "VARCHAR", "VARBINARY">>

ASSUME CodecAssumption ==
    /\ MaxColumns \in Nat
    /\ Strings \subseteq Seq(0 .. Base - 1)
    /\ Len(TypeIds) <= Word
    /\ Columns \subseteq [name : Strings, type : {TypeIds[k] : k \in DOMAIN TypeIds},
                          length : 0 .. Word - 1]

ValueType(type) ==
    CASE type \in {"CHAR", "VARCHAR"} -> "STRING"
      [] type = "VARBINARY" -> "BYTES"
      [] OTHER -> type

is_fixed_size(c) == c.type \notin {"VARCHAR", "VARBINARY"}

(* Schema::fixed_size_of.                                                  *)
fixed_size_of(c) ==
    CASE c.type \in LongTypes -> LongBytes
      [] c.type \in IntTypes -> IntBytes
      [] c.type = "BOOL" -> 1
      [] c.type = "CHAR" -> c.length
      [] OTHER -> 0

-----------------------------------------------------------------------------
(* NullBitmap.  Columns are numbered from 0 here.                          *)
BitmapSize(columns) == (columns + Bits - 1) \div Bits

is_null(bitmap, column) ==
    (bitmap[column \div Bits + 1] \div Pow2[column % Bits]) % 2 = 1

set_null(bitmap, column) ==
    [b \in DOMAIN bitmap |->
        IF b = column \div Bits + 1 /\ ~is_null(bitmap, column)
        THEN bitmap[b] + Pow2[column % Bits] ELSE bitmap[b]]

Bitmap(row) ==
    LET Set[i \in 0 .. Len(row)] ==
            IF i = 0 THEN [b \in 1 .. BitmapSize(Len(row)) |-> 0]
            ELSE IF row[i].null THEN set_null(Set[i - 1], i - 1) ELSE Set[i - 1]
    IN  Set[Len(row)]

(* The constructor from values.                                            *)
Constructs(row, schema) ==
    /\ Len(row) = Len(schema)
    /\ \A i \in DOMAIN row : row[i].type = ValueType(schema[i].type)

(* The checks of serialize.  Those of a VARBINARY are in the branch for    *)
(* CHAR and VARCHAR and are never reached.                                 *)
Accepts(row, schema) ==
    \A i \in DOMAIN row : ~row[i].null =>
        /\ schema[i].type = "CHAR" => serialized_size(row[i]) <= schema[i].length
        /\ schema[i].type = "VARCHAR" =>
              /\ schema[i].length > 0 => serialized_size(row[i]) <= schema[i].length
              /\ serialized_size(row[i]) < Word

(* What serialize appends for a column: a value with padding, or a length  *)
(* of two bytes and the value.                                             *)
Padded(s, n) == s \o [i \in 1 .. n - Len(s) |-> 0]

Field(v, c) ==
    LET s == IF v.null THEN <<>> ELSE serialize_to(v)
    IN  IF is_fixed_size(c) THEN Padded(s, fixed_size_of(c))
        ELSE WordBytes(Len(s)) \o s

serialize(row, schema) ==
    Bitmap(row) \o FlattenSeq([i \in DOMAIN row |-> Field(row[i], schema[i])])

(* Mutant: the two bytes of a length are not passed over.                  *)
compute_offsets_short(raw, schema) ==
    LET Next[i \in 0 .. Len(schema)] ==
            IF i = 0 THEN BitmapSize(Len(schema))
            ELSE Next[i - 1] + IF fixed_size_of(schema[i]) > 0 THEN fixed_size_of(schema[i])
                               ELSE WordAt(raw, Next[i - 1] % Word)
    IN  [i \in DOMAIN schema |-> Next[i - 1] % Word]

(* compute_offsets: a column without a fixed size is passed over by the    *)
(* length found in the bytes.                                              *)
compute_offsets(raw, schema) ==
    LET Next[i \in 0 .. Len(schema)] ==
            IF i = 0 THEN BitmapSize(Len(schema))
            ELSE Next[i - 1] + IF fixed_size_of(schema[i]) > 0 THEN fixed_size_of(schema[i])
                               ELSE WordAt(raw, Next[i - 1] % Word) + 2
    IN  [i \in DOMAIN schema |-> Next[i - 1] % Word]

(* A CHAR is read without the zeros at its end.                            *)
Trimmed(s) == SubSeq(s, 1, Max({0} \cup {i \in DOMAIN s : s[i] # 0}))

ValueOf(type, s) ==
    CASE type \in {"INT32", "INT64"} -> FromBytesSigned(s)
      [] type \in {"UINT32", "UINT64", "FLOAT", "DOUBLE"} -> FromBytes(s)
      [] type = "BOOL" -> s[1] # 0
      [] type = "CHAR" -> Trimmed(s)
      [] OTHER -> s

(* deserialize_value and deserialize.                                      *)
deserialize_value(raw, offset, c) ==
    LET size  == IF is_fixed_size(c) THEN fixed_size_of(c) ELSE WordAt(raw, offset)
        start == IF is_fixed_size(c) THEN offset ELSE (offset + 2) % Word
    IN  Of(ValueType(c.type), ValueOf(c.type, SubSeq(raw, start + 1, start + size)))

deserialize(raw, schema) ==
    [i \in DOMAIN schema |->
        IF is_null(raw, i - 1) THEN NullOf(ValueType(schema[i].type))
        ELSE deserialize_value(raw, compute_offsets(raw, schema)[i], schema[i])]

-----------------------------------------------------------------------------
(* Column::serialize and Schema::serialize.                                *)
ColumnBytes(c) ==
    WordBytes(Len(c.name)) \o c.name
        \o WordBytes((CHOOSE k \in DOMAIN TypeIds : TypeIds[k] = c.type) - 1)
        \o WordBytes(c.length)

SchemaBytes(schema) ==
    WordBytes(Len(schema)) \o FlattenSeq([i \in DOMAIN schema |-> ColumnBytes(schema[i])])

(* Column::deserialize at an offset: the column and the bytes it takes,    *)
(* or none if the bytes end before.                                        *)
ColumnAt(raw, offset) ==
    LET name == WordAt(raw, offset)
        at(k) == WordAt(raw, offset + 2 + name + k)
    IN  IF Len(raw) < offset + 2 \/ Len(raw) < offset + 2 + name + 4 THEN <<>>
        ELSE <<[name   |-> SubSeq(raw, offset + 3, offset + 2 + name),
                type   |-> TypeIds[at(0) + 1],
                length |-> at(2)],
               name + 6>>

(* Mutant: the length of a column's name is not counted.                   *)
SchemaOfFixedStep(raw) ==
    LET Read[i \in 0 .. WordAt(raw, 0)] ==
            IF i = 0 THEN [columns |-> <<>>, offset |-> 2]
            ELSE LET c == ColumnAt(raw, Read[i - 1].offset)
                 IN  IF c = <<>> THEN Read[i - 1]
                     ELSE [columns |-> Append(Read[i - 1].columns, c[1]),
                           offset |-> Read[i - 1].offset + 6]
    IN  Read[WordAt(raw, 0)].columns

(* Schema::deserialize, with an offset of 16 bits.  Bytes that end too     *)
(* soon make it throw: the columns are then fewer than announced.          *)
SchemaOf(raw) ==
    LET Read[i \in 0 .. WordAt(raw, 0)] ==
            IF i = 0 THEN [columns |-> <<>>, offset |-> 2]
            ELSE LET c == ColumnAt(raw, Read[i - 1].offset)
                 IN  IF c = <<>> THEN Read[i - 1]
                     ELSE [columns |-> Append(Read[i - 1].columns, c[1]),
                           offset |-> (Read[i - 1].offset + c[2]) % Word]
    IN  Read[WordAt(raw, 0)].columns
-----------------------------------------------------------------------------
Schemas == UNION {[1 .. n -> Columns] : n \in 1 .. MaxColumns}

Inputs(c) ==
    {NullOf(ValueType(c.type))} \cup
    {Of(ValueType(c.type), d) : d \in
        CASE ValueType(c.type) \in {"STRING", "BYTES"} -> Strings
          [] c.type = "BOOL" -> BOOLEAN
          [] OTHER -> {Min(Numbers(c.type)), -1, 0, Max(Numbers(c.type))} \cap Numbers(c.type)}

Rows(schema) == {r \in [DOMAIN schema -> UNION {Inputs(schema[i]) : i \in DOMAIN schema}] :
                    Constructs(r, schema)}

(* What serialize states as the limits of a row: a string or binary value  *)
(* is at most as long as its column says, and below 64 KiB in a VARCHAR or *)
(* VARBINARY of any length.                                                *)
Declared(v, c) ==
    v.null \/ ValueType(c.type) \notin {"STRING", "BYTES"}
           \/ Len(v.data) <= (IF c.type # "CHAR" /\ c.length = 0 THEN Word - 1 ELSE c.length)

(* A value that serialize takes against its own limits: those of a         *)
(* VARBINARY stand in a branch that only a CHAR or VARCHAR comes to.       *)
Unchecked(v, c) == c.type = "VARBINARY" /\ ~Declared(v, c)

(* Two cases that are accepted and come back as another row: a CHAR column *)
(* without a length, whose neighbours are looked for in the wrong place,   *)
(* and a CHAR that ends in zeros.                                          *)
Spoilt(v, c) ==
    \/ c.type = "CHAR" /\ c.length = 0
    \/ c.type = "CHAR" /\ ~v.null /\ v.data # Trimmed(v.data)

=============================================================================
