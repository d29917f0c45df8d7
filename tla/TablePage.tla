----------------------------- MODULE TablePage -----------------------------
(***************************************************************************)
(* A page of a Table: rows are stored as the bytes Tuple::serialize makes  *)
(* of them and read by Tuple's constructor from the bytes of a slot.  The  *)
(* codec is followed for every schema, the page for the rows of one.       *)
(***************************************************************************)
EXTENDS SlottedPage, TupleCodec

CONSTANTS TableSchema,  \* a schema
          TableRows,    \* the rows of that schema that are stored
          Empty         \* what an empty slot is read as

ASSUME TablePageAssumption ==
    /\ Bytes = 0 .. Base - 1
    /\ TableSchema \in Schemas /\ TableRows \subseteq Rows(TableSchema)
    /\ Tuples = {serialize(r, TableSchema) : r \in TableRows}
    /\ Empty \notin TableRows

VARIABLE schema   \* schema_ of the table

TableInit == Init /\ schema \in Schemas

TableNext ==
    /\ Next
    /\ schema # TableSchema => vars' = vars
    /\ UNCHANGED schema

TableSpec == TableInit /\ [][TableNext]_<<vars, schema>>

(* Table::get_tuple: the row in a slot.                                    *)
RowAt(i) == IF Occupied(i) THEN deserialize(TupleAt(i), schema) ELSE Empty

-----------------------------------------------------------------------------
(* serialize throws exactly for the rows with a value beyond the declared  *)
(* length, but never for a VARBINARY, whose checks it does not reach; and  *)
(* every row it takes, of at most 64 KiB, with nulls anywhere and columns  *)
(* of fixed and of variable length in any order, is read back as it was,   *)
(* an overlong VARBINARY included, except in the cases of Spoilt.  Beyond  *)
(* 64 KiB compute_offsets loses the high bits of an offset.                *)
RowsRoundTrip ==
    \A r \in Rows(schema) :
        LET ok == \A i \in DOMAIN r : Declared(r[i], schema[i]) \/ Unchecked(r[i], schema[i])
            spoilt == \E i \in DOMAIN r : Spoilt(r[i], schema[i])
            raw == serialize(r, schema)
        IN  /\ Accepts(r, schema) <=> ok
            /\ ok /\ ~spoilt /\ Len(raw) <= Word => deserialize(raw, schema) = r

(* A schema of at most 64 KiB of bytes is read back from its catalog row   *)
(* as it was, also when its names differ in length.                        *)
SchemaRoundTrip ==
    Len(SchemaBytes(schema)) <= Word => SchemaOf(SchemaBytes(schema)) = schema

(* Read through Tuple, the page is a map of slots to rows: an operation on *)
(* one slot leaves what every other slot reads as it was, and compaction   *)
(* is invisible.                                                           *)
Map == INSTANCE SlotMap WITH Tuples <- TableRows, content <- [i \in SlotNums |-> RowAt(i)]
ImplementsSlotMap == Map!Spec
=============================================================================
