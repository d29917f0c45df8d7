------------------------------- MODULE Values -------------------------------
(***************************************************************************)
(* Value: a type, a null flag and the data.  The widths of the integers    *)
(* are parameters: a byte has Bits bits, the 64-bit types have LongBytes   *)
(* bytes, the 32-bit types IntBytes.  The data of a floating value is a    *)
(* whole number or NaN where values are compared, and its bit pattern      *)
(* where they are stored.                                                  *)
(***************************************************************************)
EXTENDS Integers, Sequences

CONSTANTS Bits,       \* bits of a byte, 8 in the code
          LongBytes,  \* bytes of an INT64, UINT64 or DOUBLE, 8 in the code
          IntBytes    \* bytes of an INT32, UINT32 or FLOAT, 4 in the code

ASSUME WidthAssumption ==
    /\ Bits \in Nat \ {0} /\ IntBytes \in Nat \ {0}
    /\ LongBytes \in Nat /\ LongBytes >= IntBytes

(* 2 to the power of n, as a function that proofs can unfold; the values   *)
(* of a byte, and the numbers that n bytes hold.                           *)
Pow2[n \in Nat] == IF n = 0 THEN 1 ELSE 2 * Pow2[n - 1]

Base == Pow2[Bits]

Span(n) == Pow2[Bits * n]

LongTypes == {"INT64", "UINT64", "DOUBLE"}
IntTypes == {"INT32", "UINT32", "FLOAT"}

(* Value::null and Value::of.                                              *)
NullOf(type) == [type |-> type, null |-> TRUE, data |-> 0]

Of(type, data) == [type |-> type, null |-> FALSE, data |-> data]

is_integral(v) == v.type \in {"INT32", "INT64", "UINT32", "UINT64"}

is_floating(v) == v.type \in {"FLOAT", "DOUBLE"}

is_numeric(v) == is_integral(v) \/ is_floating(v)

(* The numbers of a type.                                                  *)
Numbers(type) ==
    LET n == Span(IF type \in LongTypes THEN LongBytes ELSE IntBytes)
    IN  IF type \in {"INT32", "INT64"} THEN -(n \div 2) .. n \div 2 - 1 ELSE 0 .. n - 1

(* serialized_size.                                                        *)
serialized_size(v) ==
    CASE v.type \in LongTypes -> LongBytes
      [] v.type \in IntTypes -> IntBytes
      [] v.type = "BOOL" -> 1
      [] OTHER -> Len(v.data)

(* bit_cast of a number to n bytes, the lowest first.                      *)
ToBytes(k, n) == [i \in 1 .. n |-> (k \div Span(i - 1)) % Base]

(* bit_cast of bytes to an unsigned number.                                *)
FromBytes(s) ==
    LET Sum[i \in 0 .. Len(s)] == IF i = 0 THEN 0 ELSE Sum[i - 1] + s[i] * Span(i - 1)
    IN  Sum[Len(s)]

(* bit_cast of bytes to a signed one.                                      *)
FromBytesSigned(s) ==
    LET k == FromBytes(s)
    IN  IF 2 * k >= Span(Len(s)) THEN k - Span(Len(s)) ELSE k

(* serialize_to: the bytes it appends.                                     *)
serialize_to(v) ==
    CASE v.type = "BOOL" -> <<IF v.data THEN 1 ELSE 0>>
      [] v.type \in {"STRING", "BYTES"} -> v.data
      [] OTHER -> ToBytes(v.data, serialized_size(v))
=============================================================================
