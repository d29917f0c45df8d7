---------------------------- MODULE SlottedPage ----------------------------
(***************************************************************************)
(* SlottedPage: the byte layout of one page.  The header and the array of  *)
(* slots grow from the front, tuples from the back; free_space_offset is   *)
(* where the tuples begin.  Its callers have the page's latch, so every    *)
(* operation is one step.  A call that refuses changes nothing.            *)
(*                                                                         *)
(* A tuple is a sequence of bytes.  Slots are numbered from 1.             *)
(***************************************************************************)
EXTENDS Integers, Sequences

CONSTANTS
    PageSize,     \* kPAGE_SIZE, 8192 in the code
    HeaderSize,   \* sizeof(PageHeader), 8 in the code
    SlotSize,     \* sizeof(Slot), 4 in the code
    Bytes,        \* the values of a byte
    Tuples        \* the tuples that are stored

ASSUME PageAssumption ==
    /\ HeaderSize \in Nat \ {0} /\ SlotSize \in Nat \ {0}
    /\ PageSize \in Nat /\ PageSize > HeaderSize + SlotSize
    /\ 0 \in Bytes
    /\ Tuples \subseteq Seq(Bytes) \ {<<>>}

VARIABLES
    slots,       \* the slot array: [offset, length]
    freeOffset,  \* header_->free_space_offset
    bytes        \* the bytes of data_ behind the slots

vars == <<slots, freeOffset, bytes>>

InvalidOffset == 0

Offsets == 0 .. PageSize - 1

NoSlot == [offset |-> InvalidOffset, length |-> 0]

SlotNums == 1 .. Len(slots)

Occupied(i) == slots[i].offset # InvalidOffset

-----------------------------------------------------------------------------
(* free_space_bytes, for a page with the slots s and free space up to f.   *)
FreeSpace(s, f) == f - (HeaderSize + Len(s) * SlotSize)

(* Mutant: the last byte is not copied.                                    *)
WrittenShort(b, off, t) ==
    [k \in Offsets |-> IF k \in off .. off + Len(t) - 2 THEN t[k - off + 1] ELSE b[k]]

(* std::copy of the tuple to an offset of the page.                        *)
Written(b, off, t) ==
    [k \in Offsets |-> IF k \in off .. off + Len(t) - 1 THEN t[k - off + 1] ELSE b[k]]

(* The slots an insert may use: the preferred one if it exists and is      *)
(* free, otherwise the first free one, otherwise a new one at the end.     *)
FreeSlots(s) == {i \in 1 .. Len(s) : s[i].offset = InvalidOffset}

ChosenSlot(s, preferred) ==
    IF preferred \in FreeSlots(s) THEN preferred
    ELSE IF FreeSlots(s) # {}
    THEN CHOOSE i \in FreeSlots(s) : \A j \in FreeSlots(s) : i <= j
    ELSE Len(s) + 1

(* Mutant: the room for a new slot is not asked for.                       *)
FitsWithoutSlot(s, f, t, i) == FreeSpace(s, f) >= Len(t)

(* A new slot needs room of its own next to the tuple.                     *)
Fits(s, f, t, i) ==
    FreeSpace(s, f) >= Len(t) + IF i = Len(s) + 1 THEN SlotSize ELSE 0

(* insert_tuple on the page (s, f, b).                                     *)
Insert(s, f, b, t, preferred) ==
    LET i == ChosenSlot(s, preferred)
        off == f - Len(t)
        slot == [offset |-> off, length |-> Len(t)]
    IN  /\ Fits(s, f, t, i)
        /\ slots' = IF i = Len(s) + 1 THEN Append(s, slot) ELSE [s EXCEPT ![i] = slot]
        /\ freeOffset' = off
        /\ bytes' = Written(b, off, t)

(* Where the tuple of slot i begins, and that of slot i+1 ends, when the   *)
(* tuples are packed against the end of the page, the first slot's last.   *)
PackedEnd[i \in 0 .. Len(slots)] ==
    IF i = 0 THEN PageSize
    ELSE PackedEnd[i - 1] - (IF Occupied(i) THEN slots[i].length ELSE 0)

PackedSlots ==
    [i \in SlotNums |->
        IF Occupied(i) THEN [offset |-> PackedEnd[i], length |-> slots[i].length] ELSE NoSlot]

(* The slot whose tuple has byte k of the packed page.                     *)
PackedSlot(k) == CHOOSE i \in SlotNums : Occupied(i) /\ k \in PackedEnd[i] .. PackedEnd[i - 1] - 1

PackedBytes ==
    [k \in Offsets |->
        IF k < PackedEnd[Len(slots)] THEN 0
        ELSE bytes[slots[PackedSlot(k)].offset + (k - PackedEnd[PackedSlot(k)])]]

(* Mutant: compact writes the old free space offset back.                  *)
PackedKeepingFree == [slots |-> PackedSlots, free |-> freeOffset, bytes |-> PackedBytes]

(* compact: the slots keep their numbers.                                  *)
Packed == [slots |-> PackedSlots, free |-> PackedEnd[Len(slots)], bytes |-> PackedBytes]

(* Mutant: the walk over the slots starts at the end of the page.          *)
IsCompactedFromEnd ==
    LET End[i \in 0 .. Len(slots)] ==
            IF i = 0 THEN PageSize
            ELSE IF Occupied(i) THEN slots[i].offset + slots[i].length ELSE End[i - 1]
    IN  Len(slots) = 0 \/ End[Len(slots)] = PageSize

(* Where the walk of is_compacted expects the tuple behind slot i.         *)
NextOffset[i \in 0 .. Len(slots)] ==
    IF i = 0 THEN slots[1].offset
    ELSE IF Occupied(i) THEN slots[i].offset + slots[i].length ELSE NextOffset[i - 1]

(* is_compacted: the tuples follow one another in the order of their slots *)
(* from the first slot's to the end of the page.                           *)
IsCompacted ==
    \/ Len(slots) = 0
    \/ /\ \A i \in SlotNums : Occupied(i) => slots[i].offset = NextOffset[i - 1]
       /\ NextOffset[Len(slots)] = PageSize

(* What TableHeap::insert_tuple does with a page: insert, or compact it    *)
(* and insert, or go on to another page.                                   *)
Refuses(t) ==
    /\ ~Fits(slots, freeOffset, t, ChosenSlot(slots, 0))
    /\ IsCompacted \/ ~Fits(slots, Packed.free, t, ChosenSlot(slots, 0))

-----------------------------------------------------------------------------
(* init                                                                    *)
Init ==
    /\ slots = <<>>
    /\ freeOffset = PageSize
    /\ bytes = [k \in Offsets |-> 0]

InsertTuple(t) == Insert(slots, freeOffset, bytes, t, 0)

(* try_update_in_place: not for a tuple that is longer than the slot.      *)
UpdateInPlace(i, t) ==
    /\ Occupied(i)
    /\ Len(t) <= slots[i].length
    /\ bytes' = Written(bytes, slots[i].offset, t)
    /\ slots' = [slots EXCEPT ![i].length = Len(t)]
    /\ UNCHANGED freeOffset

(* delete_tuple: the bytes stay.                                           *)
DeleteTuple(i) ==
    /\ Occupied(i)
    /\ slots' = [slots EXCEPT ![i].offset = InvalidOffset]
    /\ UNCHANGED <<freeOffset, bytes>>

Compact ==
    /\ slots' = Packed.slots
    /\ freeOffset' = Packed.free
    /\ bytes' = Packed.bytes

(* restore_tuple into a slot that is still free and with the space still   *)
(* there, as its assertions ask for.                                       *)
RestoreTuple(i, t) ==
    /\ ~Occupied(i)
    /\ \/ /\ FreeSpace(slots, freeOffset) >= Len(t)
          /\ Insert(slots, freeOffset, bytes, t, i)
       \/ /\ FreeSpace(slots, freeOffset) < Len(t)
          /\ Insert(Packed.slots, Packed.free, Packed.bytes, t, i)

Next ==
    \/ Compact
    \/ \E t \in Tuples : InsertTuple(t)
    \/ \E i \in SlotNums :
          \/ DeleteTuple(i)
          \/ \E t \in Tuples : UpdateInPlace(i, t) \/ RestoreTuple(i, t)

Spec == Init /\ [][Next]_vars

-----------------------------------------------------------------------------
TypeOK ==
    /\ slots \in Seq([offset : Offsets, length : 0 .. PageSize])
    /\ freeOffset \in 0 .. PageSize
    /\ bytes \in [Offsets -> Bytes]

Extent(i) == slots[i].offset .. slots[i].offset + slots[i].length - 1

(* After any sequence of inserts, deletes, updates and compactions the     *)
(* slot array ends before the free space offset, the tuples lie behind it  *)
(* and inside the page, and no two of them share a byte.                   *)
Layout ==
    /\ TypeOK
    /\ HeaderSize + Len(slots) * SlotSize <= freeOffset
    /\ \A i \in SlotNums : Occupied(i) =>
          /\ Extent(i) \subseteq freeOffset .. PageSize - 1
          /\ \A j \in SlotNums \ {i} : Occupied(j) => Extent(i) \cap Extent(j) = {}

(* get_tuple                                                               *)
TupleAt(i) == [k \in 1 .. slots[i].length |-> bytes[slots[i].offset + k - 1]]

(* compact leaves no byte between the tuples: all the space that deletes   *)
(* and updates have freed is free for the next insert.                     *)
Live == {k \in Offsets : \E i \in SlotNums : Occupied(i) /\ k \in Extent(i)}

CompactReclaims ==
    [][Compact => Live' = freeOffset' .. PageSize - 1]_vars

(* A page whose tuples have all been deleted takes a tuple again that goes *)
(* between its slots and its end, although is_compacted decides whether    *)
(* its space is reclaimed.  (Of a page with tuples this is not so: if only *)
(* the tuple of the first slot is left, at the end of the page, the page   *)
(* counts as compacted, and what was deleted in front of it stays lost.)   *)
EmptyPageAccepts ==
    \A t \in Tuples :
        /\ \A i \in SlotNums : ~Occupied(i)
        /\ HeaderSize + SlotSize * (IF slots = <<>> THEN 1 ELSE Len(slots)) + Len(t) <= PageSize
        => ~Refuses(t)
=============================================================================
