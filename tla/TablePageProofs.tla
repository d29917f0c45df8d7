-------------------------- MODULE TablePageProofs --------------------------
(***************************************************************************)
(* The layout of a page, for any size of pages, headers and slots and any  *)
(* tuples: nothing overlaps after any sequence of inserts, updates,        *)
(* deletes, restores and compactions, and every operation changes what one *)
(* slot reads as.  Compaction is where the work is: that the packed tuples *)
(* fit behind the slots is a matter of counting their bytes.               *)
(***************************************************************************)
EXTENDS TablePage, ValueProofs

Slot == [offset : Offsets, length : 0 .. PageSize]

Used(s, i) == s[i].offset # InvalidOffset

Behind(s, i) == s[i].offset + s[i].length

(* The bytes of slot i of a page with slots s and bytes b.                 *)
ReadOf(s, b, i) == [k \in 1 .. s[i].length |-> b[s[i].offset + k - 1]]

(* A page with slots s, free space up to f and bytes b.                    *)
TypedPage(s, f, b) == s \in Seq(Slot) /\ f \in 0 .. PageSize /\ b \in [Offsets -> Bytes]

Apart(s) ==
    \A i, j \in 1 .. Len(s) :
        i # j /\ Used(s, i) /\ Used(s, j) => Behind(s, i) <= s[j].offset \/ Behind(s, j) <= s[i].offset

Within(s, f) ==
    \A i \in 1 .. Len(s) :
        Used(s, i) => f <= s[i].offset /\ s[i].length >= 1 /\ Behind(s, i) <= PageSize

GoodPage(s, f, b) ==
    /\ TypedPage(s, f, b)
    /\ HeaderSize + Len(s) * SlotSize <= f
    /\ s = <<>> => f = PageSize
    /\ Within(s, f) /\ Apart(s)
    /\ \A i \in 1 .. Len(s) : Used(s, i) => ReadOf(s, b, i) \in Tuples

PageInv == GoodPage(slots, freeOffset, bytes)

-----------------------------------------------------------------------------
(* The sizes are natural numbers.                                          *)
LEMMA Sizes ==
    /\ PageSize \in Nat /\ HeaderSize \in Nat \ {0} /\ SlotSize \in Nat \ {0}
    /\ HeaderSize + SlotSize < PageSize /\ 0 \in Bytes
BY PageAssumption

(* A tuple has a length, and is the function of its bytes.                 *)
LEMMA TupleLength ==
    ASSUME NEW t \in Tuples
    PROVE  /\ Len(t) \in Nat \ {0} /\ \A k \in 1 .. Len(t) : t[k] \in Bytes
           /\ t = [k \in 1 .. Len(t) |-> t[k]]
<1>1. t \in Seq(Bytes) /\ t # <<>>
  BY PageAssumption
<1> QED  BY <1>1

(* The slots of a page are records of numbers.                             *)
LEMMA SlotTypes ==
    ASSUME NEW s \in Seq(Slot), NEW i \in 1 .. Len(s)
    PROVE  /\ s[i] \in Slot /\ s[i].offset \in Nat /\ s[i].offset < PageSize
           /\ s[i].length \in Nat /\ s[i].length <= PageSize
<1>1. s[i] \in Slot
  OBVIOUS
<1> QED  BY <1>1, Sizes DEF Slot, Offsets

(* What a copy of a tuple to an offset leaves in the page.                 *)
LEMMA WrittenBytes ==
    ASSUME NEW b \in [Offsets -> Bytes], NEW t \in Tuples, NEW off \in Nat, off + Len(t) <= PageSize
    PROVE  /\ Written(b, off, t) \in [Offsets -> Bytes]
           /\ \A k \in 1 .. Len(t) : Written(b, off, t)[off + k - 1] = t[k]
           /\ \A k \in Offsets : k < off \/ off + Len(t) <= k => Written(b, off, t)[k] = b[k]
<1>1. Len(t) \in Nat \ {0} /\ \A k \in 1 .. Len(t) : t[k] \in Bytes
  BY TupleLength
<1>2. PICK w : w = Written(b, off, t)
  OBVIOUS
<1>3. w = [k \in Offsets |-> IF k \in off .. off + Len(t) - 1 THEN t[k - off + 1] ELSE b[k]]
  BY <1>2 DEF Written
<1>4. ASSUME NEW k \in Offsets, k \in off .. off + Len(t) - 1 PROVE k - off + 1 \in 1 .. Len(t)
  BY <1>1, <1>4
<1>5. w \in [Offsets -> Bytes]
  BY <1>1, <1>3, <1>4
<1>6. ASSUME NEW k \in 1 .. Len(t) PROVE w[off + k - 1] = t[k]
  <2>1. PICK o : o = off + k - 1
    OBVIOUS
  <2>2. o \in Offsets /\ o \in off .. off + Len(t) - 1 /\ o - off + 1 = k
    BY <1>1, <2>1, Sizes DEF Offsets
  <2> QED  BY <1>3, <2>1, <2>2
<1>7. ASSUME NEW k \in Offsets, k < off \/ off + Len(t) <= k PROVE w[k] = b[k]
  <2>1. k \notin off .. off + Len(t) - 1
    BY <1>1, <1>7 DEF Offsets
  <2> QED  BY <1>3, <2>1
<1> QED  BY <1>2, <1>5, <1>6, <1>7

(* Bytes that do not change read the same.                                 *)
LEMMA SameRead ==
    ASSUME NEW s, NEW r, NEW b, NEW c, NEW i, r[i] = s[i],
           s[i].length \in Nat, s[i].offset \in Nat,
           \A k \in 1 .. s[i].length : c[s[i].offset + k - 1] = b[s[i].offset + k - 1]
    PROVE  ReadOf(r, c, i) = ReadOf(s, b, i)
BY DEF ReadOf

-----------------------------------------------------------------------------
(* An insert takes a slot that is free, or the next one.                   *)
LEMMA ChosenSlotIsFree ==
    ASSUME NEW s \in Seq(Slot), NEW p
    PROVE  \/ ChosenSlot(s, p) \in 1 .. Len(s) /\ ~Used(s, ChosenSlot(s, p))
           \/ ChosenSlot(s, p) = Len(s) + 1 /\ \A i \in 1 .. Len(s) : Used(s, i)
<1>1. CASE p \in FreeSlots(s)
  BY <1>1 DEF ChosenSlot, FreeSlots, Used
<1>2. CASE p \notin FreeSlots(s) /\ FreeSlots(s) # {}
  <2>1. FreeSlots(s) \in SUBSET Nat
    BY DEF FreeSlots
  <2>2. \E i \in FreeSlots(s) : \A j \in FreeSlots(s) : i <= j
    BY <1>2, <2>1, LeastNatural
  <2>3. ChosenSlot(s, p) \in FreeSlots(s)
    BY <1>2, <2>2 DEF ChosenSlot
  <2> QED  BY <2>3 DEF FreeSlots, Used
<1>3. CASE p \notin FreeSlots(s) /\ FreeSlots(s) = {}
  BY <1>3 DEF ChosenSlot, FreeSlots, Used
<1> QED  BY <1>1, <1>2, <1>3

(* Slot i of the page (s, b) is filled with t, and the others read as they *)
(* did.                                                                    *)
Filled(s, b, r, c, i, t) ==
    /\ i \in 1 .. Len(r) /\ Used(r, i) /\ ReadOf(r, c, i) = t
    /\ \/ i \in 1 .. Len(s) /\ ~Used(s, i) /\ Len(r) = Len(s)
       \/ i = Len(s) + 1 /\ Len(r) = Len(s) + 1 /\ \A j \in 1 .. Len(s) : Used(s, j)
    /\ \A j \in 1 .. Len(s) :
          j # i => (Used(r, j) <=> Used(s, j)) /\ (Used(s, j) => ReadOf(r, c, j) = ReadOf(s, b, j))

(* An insert that is not refused keeps a page good.                        *)
LEMMA InsertKeeps ==
    ASSUME NEW s, NEW f, NEW b, GoodPage(s, f, b), NEW t \in Tuples, NEW p, Insert(s, f, b, t, p)
    PROVE  /\ GoodPage(slots', freeOffset', bytes')
           /\ Filled(s, b, slots', bytes', ChosenSlot(s, p), t)
<1>1. /\ s \in Seq(Slot) /\ f \in 0 .. PageSize /\ b \in [Offsets -> Bytes]
      /\ HeaderSize + Len(s) * SlotSize <= f /\ Within(s, f) /\ Apart(s)
      /\ \A i \in 1 .. Len(s) : Used(s, i) => ReadOf(s, b, i) \in Tuples
  BY DEF GoodPage, TypedPage
<1>2. PICK n \in Nat : n = Len(s)
  BY <1>1
<1>3. PICK l \in Nat \ {0} : l = Len(t)
  BY TupleLength
<1>4. PICK i : i = ChosenSlot(s, p)
  OBVIOUS
<1>5. \/ i \in 1 .. n /\ ~Used(s, i)
      \/ i = n + 1 /\ \A j \in 1 .. n : Used(s, j)
  BY <1>1, <1>2, <1>4, ChosenSlotIsFree
<1>6. PICK a \in Nat : a = n * SlotSize
  BY <1>2, Sizes
<1>7. /\ f - (HeaderSize + a) >= l + (IF i = n + 1 THEN SlotSize ELSE 0)
      /\ slots' = IF i = n + 1 THEN Append(s, [offset |-> f - l, length |-> l])
                  ELSE [s EXCEPT ![i] = [offset |-> f - l, length |-> l]]
      /\ freeOffset' = f - l /\ bytes' = Written(b, f - l, t)
  BY <1>2, <1>3, <1>4, <1>6 DEF Insert, Fits, FreeSpace
<1>8. PICK o \in Nat : o = f - l /\ o + l = f /\ HeaderSize + a + (IF i = n + 1 THEN SlotSize ELSE 0) <= o
                        /\ 0 < o /\ o + l <= PageSize
  <2>1. f \in Nat /\ f <= PageSize /\ PageSize \in Nat /\ HeaderSize \in Nat \ {0} /\ SlotSize \in Nat
    BY <1>1, Sizes
  <2>2. f - l \in Nat
    BY <1>7, <2>1
  <2> QED  BY <1>7, <2>1, <2>2
<1>9. PICK m \in Nat : m = IF i = n + 1 THEN n + 1 ELSE n
  OBVIOUS
<1>10. PICK x : x = [offset |-> o, length |-> l]
  OBVIOUS
<1>11. x \in Slot /\ x.offset = o /\ x.length = l
  BY <1>8, <1>10, Sizes DEF Slot, Offsets
<1>12. /\ slots' \in Seq(Slot) /\ Len(slots') = m /\ i \in 1 .. m
       /\ slots'[i] = x /\ \A j \in 1 .. n : j # i => slots'[j] = s[j]
  <2>1. CASE i = n + 1
    BY <1>1, <1>2, <1>7, <1>8, <1>9, <1>10, <1>11, <2>1
  <2>2. CASE i # n + 1
    BY <1>1, <1>2, <1>5, <1>7, <1>8, <1>9, <1>10, <1>11, <2>2
  <2> QED  BY <2>1, <2>2
<1>13. /\ bytes' \in [Offsets -> Bytes] /\ \A k \in 1 .. l : bytes'[o + k - 1] = t[k]
       /\ \A k \in Offsets : f <= k => bytes'[k] = b[k]
  BY <1>1, <1>3, <1>7, <1>8, WrittenBytes
<1>14. Used(slots', i) /\ ReadOf(slots', bytes', i) = t
  <2>1. Used(slots', i)
    BY <1>8, <1>11, <1>12 DEF Used, InvalidOffset
  <2>2. ReadOf(slots', bytes', i) = [k \in 1 .. l |-> bytes'[o + k - 1]]
    BY <1>11, <1>12 DEF ReadOf
  <2>3. t = [k \in 1 .. l |-> t[k]]
    BY <1>3, TupleLength
  <2> QED  BY <1>13, <2>1, <2>2, <2>3
<1>15. ASSUME NEW j \in 1 .. n, j # i
       PROVE  /\ Used(slots', j) <=> Used(s, j)
              /\ Used(s, j) => ReadOf(slots', bytes', j) = ReadOf(s, b, j)
  <2>1. slots'[j] = s[j]
    BY <1>12, <1>15
  <2>2. Used(slots', j) <=> Used(s, j)
    BY <2>1 DEF Used
  <2>3. ASSUME Used(s, j) PROVE ReadOf(slots', bytes', j) = ReadOf(s, b, j)
    <3>1. s[j].offset \in Nat /\ s[j].length \in Nat
      BY <1>1, <1>2, SlotTypes
    <3>2. f <= s[j].offset /\ s[j].offset + s[j].length <= PageSize /\ f \in Nat
      BY <1>1, <1>2, <2>3 DEF Within, Behind
    <3>3. ASSUME NEW k \in 1 .. s[j].length
          PROVE  bytes'[s[j].offset + k - 1] = b[s[j].offset + k - 1]
      <4>1. s[j].offset + k - 1 \in Offsets /\ f <= s[j].offset + k - 1
        BY <3>1, <3>2, Sizes DEF Offsets
      <4> QED  BY <1>13, <4>1
    <3> QED  BY <2>1, <3>1, <3>3, SameRead
  <2> QED  BY <2>2, <2>3
<1>16. Filled(s, b, slots', bytes', i, t)
  <2>1. \/ i \in 1 .. Len(s) /\ ~Used(s, i) /\ Len(slots') = Len(s)
        \/ i = Len(s) + 1 /\ Len(slots') = Len(s) + 1 /\ \A j \in 1 .. Len(s) : Used(s, j)
    BY <1>2, <1>5, <1>9, <1>12
  <2> QED  BY <1>2, <1>12, <1>14, <1>15, <2>1 DEF Filled
<1>17. \A j \in 1 .. m : j = i \/ (j \in 1 .. n /\ j # i)
  BY <1>5, <1>9
<1>18. TypedPage(slots', freeOffset', bytes')
  <2>1. o \in 0 .. PageSize
    BY <1>8, Sizes
  <2> QED  BY <1>7, <1>8, <1>12, <1>13, <2>1 DEF TypedPage
<1>19. HeaderSize + Len(slots') * SlotSize <= freeOffset'
  <2>1. (n + 1) * SlotSize = a + SlotSize
    BY <1>2, <1>6, Sizes
  <2>2. CASE i = n + 1
    <3>1. Len(slots') * SlotSize = a + SlotSize
      BY <1>9, <1>12, <2>1, <2>2
    <3> QED  BY <1>7, <1>8, <2>2, <3>1, Sizes
  <2>3. CASE i # n + 1
    <3>1. Len(slots') * SlotSize = a
      BY <1>6, <1>9, <1>12, <2>3
    <3> QED  BY <1>7, <1>8, <2>3, <3>1, Sizes
  <2> QED  BY <2>2, <2>3
<1>20. slots' # <<>>
  BY <1>12
<1>21. Within(slots', freeOffset')
  <2>1. ASSUME NEW j \in 1 .. m, Used(slots', j)
        PROVE  o <= slots'[j].offset /\ slots'[j].length >= 1 /\ Behind(slots', j) <= PageSize
    <3>1. CASE j = i
      BY <1>8, <1>11, <1>12, <3>1 DEF Behind
    <3>2. CASE j \in 1 .. n /\ j # i
      <4>1. slots'[j] = s[j] /\ Used(s, j)
        BY <1>12, <1>15, <2>1, <3>2
      <4>2. f <= s[j].offset /\ s[j].length >= 1 /\ Behind(s, j) <= PageSize /\ s[j].offset \in Nat
        BY <1>1, <1>2, <3>2, <4>1, SlotTypes DEF Within
      <4>3. o <= f /\ f \in Nat
        BY <1>8
      <4> QED  BY <4>1, <4>2, <4>3 DEF Behind
    <3> QED  BY <1>17, <3>1, <3>2
  <2> QED  BY <1>7, <1>8, <1>12, <2>1 DEF Within
<1>22. Apart(slots')
  <2>1. ASSUME NEW j \in 1 .. n, j # i, Used(slots', j) PROVE Behind(slots', i) <= slots'[j].offset
    <3>1. slots'[j] = s[j] /\ Used(s, j)
      BY <1>12, <1>15, <2>1
    <3>2. f <= s[j].offset
      BY <1>1, <1>2, <3>1 DEF Within
    <3> QED  BY <1>8, <1>11, <1>12, <3>1, <3>2 DEF Behind
  <2>2. ASSUME NEW j \in 1 .. n, NEW k \in 1 .. n, j # i, k # i, j # k, Used(slots', j), Used(slots', k)
        PROVE  Behind(slots', j) <= slots'[k].offset \/ Behind(slots', k) <= slots'[j].offset
    <3>1. slots'[j] = s[j] /\ Used(s, j) /\ slots'[k] = s[k] /\ Used(s, k)
      BY <1>12, <1>15, <2>2
    <3>2. Behind(s, j) <= s[k].offset \/ Behind(s, k) <= s[j].offset
      BY <1>1, <1>2, <2>2, <3>1 DEF Apart
    <3> QED  BY <3>1, <3>2 DEF Behind
  <2>3. ASSUME NEW j \in 1 .. m, NEW k \in 1 .. m, j # k, Used(slots', j), Used(slots', k)
        PROVE  Behind(slots', j) <= slots'[k].offset \/ Behind(slots', k) <= slots'[j].offset
    <3>1. CASE j = i
      BY <1>17, <2>1, <2>3, <3>1
    <3>2. CASE k = i
      BY <1>17, <2>1, <2>3, <3>2
    <3>3. CASE j # i /\ k # i
      BY <1>17, <2>2, <2>3, <3>3
    <3> QED  BY <3>1, <3>2, <3>3
  <2> QED  BY <1>12, <2>3 DEF Apart
<1>23. ASSUME NEW j \in 1 .. Len(slots'), Used(slots', j) PROVE ReadOf(slots', bytes', j) \in Tuples
  <2>1. CASE j = i
    BY <1>14, <2>1
  <2>2. CASE j \in 1 .. n /\ j # i
    BY <1>1, <1>2, <1>15, <1>23, <2>2
  <2> QED  BY <1>12, <1>17, <2>1, <2>2
<1>24. GoodPage(slots', freeOffset', bytes')
  BY <1>18, <1>19, <1>20, <1>21, <1>22, <1>23 DEF GoodPage
<1> QED  BY <1>4, <1>16, <1>24

-----------------------------------------------------------------------------
(* What is left of an amount after taking parts of it, one after another:  *)
(* there is a function that says so, or a least number of parts for which  *)
(* there is none.                                                          *)
LEMMA RestsExist ==
    ASSUME NEW n \in Nat, NEW w \in [1 .. n -> Nat], NEW P \in Nat
    PROVE  \E e \in [0 .. n -> Int] : e[0] = P /\ \A i \in 1 .. n : e[i] = e[i - 1] - w[i]
<1> DEFINE Rests(k, e) == e[0] = P /\ \A i \in 1 .. k : e[i] = e[i - 1] - w[i]
           Bad == {k \in 0 .. n : \A e \in [0 .. k -> Int] : ~Rests(k, e)}
<1>1. SUFFICES ASSUME Bad # {} PROVE FALSE
  <2>1. n \in 0 .. n /\ n \notin Bad
    <3> HIDE DEF Bad
    <3> QED  BY <1>1
  <2> QED  BY <2>1
<1>2. Bad \in SUBSET Nat
  OBVIOUS
<1>3. PICK k \in Bad : \A l \in Bad : k <= l
  BY <1>1, <1>2, LeastNatural
<1>4. k \in 0 .. n /\ \A e \in [0 .. k -> Int] : ~Rests(k, e)
  BY <1>3
<1>5. CASE k = 0
  <2>1. PICK e : e = [i \in 0 .. 0 |-> P]
    OBVIOUS
  <2>2. e \in [0 .. 0 -> Int] /\ e[0] = P
    BY <2>1
  <2>3. Rests(0, e)
    BY <2>2
  <2> QED  BY <1>4, <1>5, <2>2, <2>3
<1>6. CASE k # 0
  <2>1. k - 1 \in 0 .. n /\ k - 1 < k /\ k \in 1 .. n
    BY <1>4, <1>6
  <2>2. k - 1 \notin Bad
    <3>1. ASSUME k - 1 \in Bad PROVE FALSE
      <4>1. k <= k - 1
        BY <1>3, <3>1
      <4> QED  BY <2>1, <4>1
    <3> QED  BY <3>1
  <2>3. PICK d \in [0 .. k - 1 -> Int] : Rests(k - 1, d)
    BY <2>1, <2>2
  <2>4. PICK e : e = [i \in 0 .. k |-> IF i = k THEN d[k - 1] - w[k] ELSE d[i]]
    OBVIOUS
  <2>5. d[k - 1] \in Int /\ w[k] \in Nat
    BY <2>1, <2>3
  <2>6. e \in [0 .. k -> Int] /\ e[k] = d[k - 1] - w[k] /\ \A i \in 0 .. k - 1 : e[i] = d[i]
    BY <2>1, <2>4, <2>5
  <2>7. ASSUME NEW i \in 1 .. k PROVE e[i] = e[i - 1] - w[i]
    <3>1. i - 1 \in 0 .. k - 1
      BY <2>7
    <3>2. CASE i = k
      BY <2>6, <3>1, <3>2
    <3>3. CASE i # k
      <4>1. i \in 1 .. k - 1 /\ i \in 0 .. k - 1
        BY <3>3
      <4> QED  BY <2>3, <2>6, <3>1, <4>1
    <3> QED  BY <3>2, <3>3
  <2>8. e[0] = P
    BY <2>1, <2>3, <2>6
  <2> QED  BY <1>4, <2>6, <2>7, <2>8
<1> QED  BY <1>5, <1>6

(* The bytes of the tuples of the first i slots.                           *)
Size(i) == IF Used(slots, i) THEN slots[i].length ELSE 0

Bytewise(i) ==
    {k \in freeOffset .. PageSize - 1 :
        \E j \in 1 .. i : Used(slots, j) /\ slots[j].offset <= k /\ k < Behind(slots, j)}

(* PackedEnd takes one size after the other from the size of the page.     *)
LEMMA PackedEndIs ==
    ASSUME PageInv
    PROVE  /\ \A i \in 0 .. Len(slots) : PackedEnd[i] \in Int
           /\ PackedEnd[0] = PageSize
           /\ \A i \in 1 .. Len(slots) : PackedEnd[i] = PackedEnd[i - 1] - Size(i)
<1>1. PICK n \in Nat : n = Len(slots)
  BY DEF PageInv, GoodPage, TypedPage
<1>2. PICK w : w = [i \in 1 .. n |-> Size(i)]
  OBVIOUS
<1>3. w \in [1 .. n -> Nat]
  <2>1. ASSUME NEW i \in 1 .. n PROVE Size(i) \in Nat
    BY <1>1, SlotTypes DEF Size, PageInv, GoodPage, TypedPage
  <2> QED  BY <1>2, <2>1
<1>4. PICK e \in [0 .. n -> Int] : e[0] = PageSize /\ \A i \in 1 .. n : e[i] = e[i - 1] - w[i]
  BY <1>3, Sizes, RestsExist
<1>5. e = [i \in 0 .. n |-> IF i = 0 THEN PageSize
                           ELSE e[i - 1] - (IF Occupied(i) THEN slots[i].length ELSE 0)]
  <2>1. \A i \in 0 .. n : i # 0 => i \in 1 .. n
    OBVIOUS
  <2>2. \A i \in 1 .. n : w[i] = IF Occupied(i) THEN slots[i].length ELSE 0
    BY <1>2 DEF Size, Used, Occupied
  <2>3. \A i \in 0 .. n : e[i] = IF i = 0 THEN PageSize
                                 ELSE e[i - 1] - (IF Occupied(i) THEN slots[i].length ELSE 0)
    BY <1>4, <2>1, <2>2
  <2> QED  BY <2>3
<1>6. \E g : g = [i \in 0 .. Len(slots) |-> IF i = 0 THEN PageSize
                     ELSE g[i - 1] - (IF Occupied(i) THEN slots[i].length ELSE 0)]
  BY <1>1, <1>5
<1>7. PackedEnd = [i \in 0 .. Len(slots) |-> IF i = 0 THEN PageSize
                     ELSE PackedEnd[i - 1] - (IF Occupied(i) THEN slots[i].length ELSE 0)]
  BY <1>6, Zenon DEF PackedEnd
<1>8. \A i \in 0 .. n : PackedEnd[i] = IF i = 0 THEN PageSize ELSE PackedEnd[i - 1] - w[i]
  <2>1. PICK g : g = PackedEnd
    OBVIOUS
  <2>2. g = [i \in 0 .. n |-> IF i = 0 THEN PageSize
                     ELSE g[i - 1] - (IF Occupied(i) THEN slots[i].length ELSE 0)]
    BY <1>1, <1>7, <2>1
  <2>3. \A i \in 0 .. n : g[i] = IF i = 0 THEN PageSize
                     ELSE g[i - 1] - (IF Occupied(i) THEN slots[i].length ELSE 0)
    BY <2>2
  <2>4. \A i \in 0 .. n : i # 0 => w[i] = IF Occupied(i) THEN slots[i].length ELSE 0
    <3>1. \A i \in 0 .. n : i # 0 => i \in 1 .. n
      OBVIOUS
    <3> QED  BY <1>2, <3>1 DEF Size, Used, Occupied
  <2> QED  BY <2>1, <2>3, <2>4
<1> DEFINE Odd == {i \in 0 .. n : PackedEnd[i] # e[i]}
<1>9. Odd = {}
  <2>1. ASSUME Odd # {} PROVE FALSE
    <3>1. Odd \in SUBSET Nat
      OBVIOUS
    <3>2. PICK k \in Odd : \A l \in Odd : k <= l
      BY <2>1, <3>1, LeastNatural
    <3>3. k \in 0 .. n /\ PackedEnd[k] # e[k]
      BY <3>2
    <3>4. CASE k = 0
      BY <1>4, <1>8, <3>3, <3>4
    <3>5. CASE k # 0
      <4>1. k - 1 \in 0 .. n /\ k - 1 < k /\ k \in 1 .. n
        BY <3>3, <3>5
      <4>2. PackedEnd[k - 1] = e[k - 1]
        BY <3>2, <4>1
      <4> QED  BY <1>4, <1>8, <3>3, <3>5, <4>1, <4>2
    <3> QED  BY <3>4, <3>5
  <2> QED  BY <2>1
<1>10. \A i \in 0 .. n : PackedEnd[i] = e[i] /\ e[i] \in Int
  BY <1>4, <1>9
<1>11. ASSUME NEW i \in 1 .. n PROVE PackedEnd[i] = PackedEnd[i - 1] - Size(i)
  <2>1. i \in 0 .. n /\ i # 0
    OBVIOUS
  <2>2. PackedEnd[i] = PackedEnd[i - 1] - w[i]
    BY <1>8, <2>1
  <2>3. w[i] = Size(i)
    BY <1>2
  <2> QED  BY <2>2, <2>3
<1> QED  BY <1>1, <1>4, <1>10, <1>11

(* The ends of the packed tuples count the bytes that have been packed.    *)
LEMMA PackedEndCounts ==
    ASSUME PageInv
    PROVE  \A i \in 0 .. Len(slots) :
              /\ IsFiniteSet(Bytewise(i)) /\ Cardinality(Bytewise(i)) \in Nat
              /\ PackedEnd[i] = PageSize - Cardinality(Bytewise(i))
<1>1. PICK n \in Nat : n = Len(slots)
  BY DEF PageInv, GoodPage, TypedPage
<1>2. freeOffset \in Nat /\ freeOffset <= PageSize /\ PageSize \in Nat
  BY Sizes DEF PageInv, GoodPage, TypedPage
<1>3. \A i \in 0 .. n : IsFiniteSet(Bytewise(i)) /\ Cardinality(Bytewise(i)) \in Nat
  <2> TAKE i \in 0 .. n
  <2>1. freeOffset \in Int /\ PageSize - 1 \in Int
    BY <1>2
  <2>2. IsFiniteSet(freeOffset .. PageSize - 1)
    BY <2>1, FS_Interval
  <2>3. Bytewise(i) \in SUBSET (freeOffset .. PageSize - 1)
    BY DEF Bytewise
  <2>4. IsFiniteSet(Bytewise(i))
    BY <2>2, <2>3, FS_Subset
  <2> QED  BY <2>4, FS_CardinalityType
<1> DEFINE Odd == {i \in 0 .. n : PackedEnd[i] # PageSize - Cardinality(Bytewise(i))}
<1>4. ASSUME Odd # {} PROVE FALSE
  <2>1. Odd \in SUBSET Nat
    OBVIOUS
  <2>2. PICK i \in Odd : \A l \in Odd : i <= l
    BY <1>4, <2>1, LeastNatural
  <2>3. i \in 0 .. n /\ PackedEnd[i] # PageSize - Cardinality(Bytewise(i))
    BY <2>2
  <2>4. CASE i = 0
    <3>1. Bytewise(0) = {}
      BY DEF Bytewise
    <3>2. Cardinality(Bytewise(0)) = 0
      BY <3>1, FS_EmptySet
    <3> QED  BY <1>2, <2>3, <2>4, <3>2, PackedEndIs
  <2>5. CASE i # 0
    <3>1. i - 1 \in 0 .. n /\ i - 1 < i /\ i \in 1 .. n
      BY <2>3, <2>5
    <3>2. i - 1 \notin Odd
      <4>1. ASSUME i - 1 \in Odd PROVE FALSE
        <5>1. i <= i - 1
          BY <2>2, <4>1
        <5> QED  BY <3>1, <5>1
      <4> QED  BY <4>1
    <3>3. PackedEnd[i - 1] = PageSize - Cardinality(Bytewise(i - 1))
      BY <3>1, <3>2
    <3>4. PackedEnd[i] = PackedEnd[i - 1] - Size(i)
      BY <1>1, <3>1, PackedEndIs
    <3>5. /\ slots \in Seq(Slot) /\ slots[i].offset \in Nat /\ slots[i].length \in Nat
          /\ Within(slots, freeOffset) /\ Apart(slots)
      BY <1>1, <3>1, SlotTypes DEF PageInv, GoodPage, TypedPage
    <3>6. CASE ~Used(slots, i)
      <4>1. Bytewise(i) = Bytewise(i - 1)
        <5>1. \A j \in 1 .. i : Used(slots, j) => j \in 1 .. i - 1
          BY <3>1, <3>6
        <5>2. \A j \in 1 .. i - 1 : j \in 1 .. i
          BY <3>1
        <5> QED  BY <5>1, <5>2 DEF Bytewise
      <4>2. Size(i) = 0
        BY <3>6 DEF Size
      <4> QED  BY <1>2, <1>3, <2>3, <3>1, <3>3, <3>4, <4>1, <4>2
    <3>7. CASE Used(slots, i)
      <4>1. PICK o \in Nat, l \in Nat : o = slots[i].offset /\ l = slots[i].length
        BY <3>5
      <4>2. freeOffset <= o /\ l >= 1 /\ o + l <= PageSize /\ Behind(slots, i) = o + l
        BY <1>1, <3>1, <3>5, <3>7, <4>1 DEF Within, Behind
      <4>3. PICK E : E = o .. o + l - 1
        OBVIOUS
      <4>4. IsFiniteSet(E) /\ Cardinality(E) = l
        <5>1. o \in Int /\ o + l - 1 \in Int
          BY <4>1
        <5>2. IsFiniteSet(E) /\ Cardinality(E) = IF o > o + l - 1 THEN 0 ELSE (o + l - 1) - o + 1
          BY <4>3, <5>1, FS_Interval
        <5> QED  BY <4>1, <4>2, <5>2
      <4>5. Bytewise(i) = Bytewise(i - 1) \cup E
        <5>1. ASSUME NEW k \in Bytewise(i) PROVE k \in Bytewise(i - 1) \cup E
          <6>1. PICK j \in 1 .. i : Used(slots, j) /\ slots[j].offset <= k /\ k < Behind(slots, j)
            BY <5>1 DEF Bytewise
          <6>2. k \in freeOffset .. PageSize - 1
            BY <5>1 DEF Bytewise
          <6>3. CASE j = i
            BY <1>2, <4>1, <4>2, <4>3, <6>1, <6>2, <6>3
          <6>4. CASE j # i
            <7>1. j \in 1 .. i - 1
              BY <3>1, <6>4
            <7> QED  BY <6>1, <6>2, <7>1 DEF Bytewise
          <6> QED  BY <6>3, <6>4
        <5>2. ASSUME NEW k \in Bytewise(i - 1) PROVE k \in Bytewise(i)
          <6>1. \A j \in 1 .. i - 1 : j \in 1 .. i
            BY <3>1
          <6> QED  BY <5>2, <6>1 DEF Bytewise
        <5>3. ASSUME NEW k \in E PROVE k \in Bytewise(i)
          <6>1. k \in Nat /\ o <= k /\ k < o + l
            BY <4>1, <4>3, <5>3
          <6>2. k \in freeOffset .. PageSize - 1
            BY <1>2, <4>1, <4>2, <6>1
          <6>3. slots[i].offset <= k /\ k < Behind(slots, i)
            BY <4>1, <4>2, <6>1
          <6>4. i \in 1 .. i
            BY <3>1
          <6> QED  BY <3>7, <6>2, <6>3, <6>4 DEF Bytewise
        <5> QED  BY <5>1, <5>2, <5>3
      <4>6. Bytewise(i - 1) \cap E = {}
        <5>1. ASSUME NEW k \in Bytewise(i - 1), k \in E PROVE FALSE
          <6>1. PICK j \in 1 .. i - 1 : Used(slots, j) /\ slots[j].offset <= k /\ k < Behind(slots, j)
            BY <5>1 DEF Bytewise
          <6>2. j \in 1 .. n /\ j # i
            BY <3>1
          <6>3. Behind(slots, j) <= o \/ o + l <= slots[j].offset
            BY <1>1, <3>1, <3>5, <3>7, <4>1, <4>2, <6>1, <6>2 DEF Apart
          <6>4. slots[j].offset \in Nat /\ slots[j].length \in Nat
            BY <1>1, <3>5, <6>2, SlotTypes
          <6>5. k \in Nat /\ o <= k /\ k < o + l
            BY <4>1, <4>3, <5>1
          <6> QED  BY <4>1, <6>1, <6>3, <6>4, <6>5 DEF Behind
        <5> QED  BY <5>1
      <4>7. Cardinality(Bytewise(i)) = Cardinality(Bytewise(i - 1)) + l
        <5>1. PICK A : A = Bytewise(i - 1)
          OBVIOUS
        <5>2. IsFiniteSet(A) /\ Cardinality(A) \in Nat
          BY <1>3, <3>1, <5>1
        <5>3. Cardinality(A \cup E) = Cardinality(A) + Cardinality(E) - Cardinality(A \cap E)
          BY ONLY <4>4, <5>2, FS_Union
        <5>4. Cardinality(A \cap E) = 0
          BY <4>6, <5>1, FS_EmptySet
        <5> QED  BY <4>1, <4>4, <4>5, <5>1, <5>2, <5>3, <5>4
      <4>8. Size(i) = l
        BY <3>7, <4>1 DEF Size
      <4> QED  BY <1>2, <1>3, <2>3, <3>1, <3>3, <3>4, <4>1, <4>7, <4>8
    <3> QED  BY <3>6, <3>7
  <2> QED  BY <2>4, <2>5
<1>5. \A i \in 0 .. n : PackedEnd[i] = PageSize - Cardinality(Bytewise(i))
  BY <1>4
<1> QED  BY <1>1, <1>3, <1>5

(* So the packed tuples do not come further down than the old ones, and    *)
(* those of later slots lie in front of those of earlier ones.             *)
LEMMA PackedEndOrder ==
    ASSUME PageInv
    PROVE  /\ \A i \in 0 .. Len(slots) :
                 PackedEnd[i] \in Nat /\ freeOffset <= PackedEnd[i] /\ PackedEnd[i] <= PageSize
           /\ \A i, j \in 0 .. Len(slots) : i <= j => PackedEnd[j] <= PackedEnd[i]
<1>1. PICK n \in Nat : n = Len(slots)
  BY DEF PageInv, GoodPage, TypedPage
<1>2. freeOffset \in Nat /\ freeOffset <= PageSize /\ PageSize \in Nat
  BY Sizes DEF PageInv, GoodPage, TypedPage
<1>3. \A i \in 0 .. n : /\ IsFiniteSet(Bytewise(i)) /\ Cardinality(Bytewise(i)) \in Nat
                        /\ PackedEnd[i] = PageSize - Cardinality(Bytewise(i))
  BY <1>1, PackedEndCounts
<1>4. ASSUME NEW i \in 0 .. n PROVE Cardinality(Bytewise(i)) <= PageSize - freeOffset
  <2>1. PICK I : I = freeOffset .. PageSize - 1
    OBVIOUS
  <2>2. freeOffset \in Int /\ PageSize - 1 \in Int
    BY <1>2
  <2>3. IsFiniteSet(I) /\ Cardinality(I) = IF freeOffset > PageSize - 1 THEN 0 ELSE (PageSize - 1) - freeOffset + 1
    BY <2>1, <2>2, FS_Interval
  <2>4. Bytewise(i) \in SUBSET I
    BY <2>1 DEF Bytewise
  <2>5. Cardinality(Bytewise(i)) <= Cardinality(I)
    BY <2>3, <2>4, FS_Subset
  <2> QED  BY <1>2, <2>3, <2>5
<1>5. ASSUME NEW i \in 0 .. n, NEW j \in 0 .. n, i <= j PROVE PackedEnd[j] <= PackedEnd[i]
  <2>1. \A x \in 1 .. i : x \in 1 .. j
    BY <1>5
  <2>2. Bytewise(i) \in SUBSET Bytewise(j)
    BY <2>1 DEF Bytewise
  <2>3. Cardinality(Bytewise(i)) <= Cardinality(Bytewise(j))
    BY <1>3, <2>2, FS_Subset
  <2> QED  BY <1>2, <1>3, <2>3
<1>6. ASSUME NEW i \in 0 .. n
      PROVE  PackedEnd[i] \in Nat /\ freeOffset <= PackedEnd[i] /\ PackedEnd[i] <= PageSize
  BY <1>2, <1>3, <1>4
<1> QED  BY <1>1, <1>5, <1>6

(* Every byte behind the packed tuples' front is one of one packed tuple.  *)
LEMMA PackedSlotIs ==
    ASSUME PageInv, NEW k \in Offsets, PackedEnd[Len(slots)] <= k
    PROVE  /\ PackedSlot(k) \in SlotNums /\ Used(slots, PackedSlot(k))
           /\ PackedEnd[PackedSlot(k)] <= k /\ k < PackedEnd[PackedSlot(k) - 1]
           /\ \A i \in SlotNums : PackedEnd[i] <= k /\ k < PackedEnd[i - 1] => i = PackedSlot(k)
<1>1. PICK n \in Nat : n = Len(slots)
  BY DEF PageInv, GoodPage, TypedPage
<1>2. \A i \in 0 .. n : PackedEnd[i] \in Nat
  BY <1>1, PackedEndOrder
<1>3. k \in Nat /\ k < PageSize
  BY Sizes DEF Offsets
<1>4. \E i \in 1 .. n : PackedEnd[i] <= k /\ k < PackedEnd[i - 1]
  <2> DEFINE S == {i \in 0 .. n : PackedEnd[i] <= k}
  <2>1. n \in S /\ S \in SUBSET Nat
    BY <1>1
  <2>2. PICK i \in S : \A j \in S : i <= j
    BY <2>1, LeastNatural
  <2>3. i \in 0 .. n /\ PackedEnd[i] <= k
    BY <2>2
  <2>4. i # 0
    BY <1>3, <2>3, PackedEndIs, Sizes
  <2>5. i \in 1 .. n /\ i - 1 \in 0 .. n /\ i - 1 < i
    BY <2>3, <2>4
  <2>6. i - 1 \notin S
    <3>1. ASSUME i - 1 \in S PROVE FALSE
      <4>1. i <= i - 1
        BY <2>2, <3>1
      <4> QED  BY <2>5, <4>1
    <3> QED  BY <3>1
  <2>7. k < PackedEnd[i - 1]
    BY <1>2, <1>3, <2>5, <2>6
  <2> QED  BY <2>3, <2>5, <2>7
<1>5. ASSUME NEW i \in 1 .. n, PackedEnd[i] <= k, k < PackedEnd[i - 1]
      PROVE  Occupied(i) /\ k \in PackedEnd[i] .. PackedEnd[i - 1] - 1
  <2>1. i \in 0 .. n /\ i - 1 \in 0 .. n
    BY <1>5
  <2>2. PackedEnd[i] = PackedEnd[i - 1] - Size(i)
    BY <1>1, PackedEndIs
  <2>3. Size(i) # 0
    BY <1>2, <1>3, <1>5, <2>1, <2>2
  <2>4. Occupied(i)
    BY <2>3 DEF Size, Used, Occupied
  <2> QED  BY <1>2, <1>3, <1>5, <2>1, <2>4
<1>6. \E i \in SlotNums : Occupied(i) /\ k \in PackedEnd[i] .. PackedEnd[i - 1] - 1
  BY <1>1, <1>4, <1>5 DEF SlotNums
<1>7. PICK i : i = PackedSlot(k)
  OBVIOUS
<1>8. i \in SlotNums /\ Occupied(i) /\ k \in PackedEnd[i] .. PackedEnd[i - 1] - 1
  BY <1>6, <1>7 DEF PackedSlot
<1>9. i \in 1 .. n /\ i \in 0 .. n /\ i - 1 \in 0 .. n
  BY <1>1, <1>8 DEF SlotNums
<1>10. PackedEnd[i] <= k /\ k < PackedEnd[i - 1]
  BY <1>2, <1>3, <1>8, <1>9
<1>11. ASSUME NEW j \in 1 .. n, PackedEnd[j] <= k, k < PackedEnd[j - 1] PROVE j = i
  <2>1. j \in 0 .. n /\ j - 1 \in 0 .. n
    BY <1>11
  <2>2. ASSUME i < j PROVE FALSE
    <3>1. i <= j - 1
      BY <1>9, <2>1, <2>2
    <3>2. PackedEnd[j - 1] <= PackedEnd[i]
      BY <1>1, <1>9, <2>1, <3>1, PackedEndOrder
    <3> QED  BY <1>2, <1>3, <1>9, <1>10, <1>11, <2>1, <3>2
  <2>3. ASSUME j < i PROVE FALSE
    <3>1. j <= i - 1
      BY <1>9, <2>1, <2>3
    <3>2. PackedEnd[i - 1] <= PackedEnd[j]
      BY <1>1, <1>9, <2>1, <3>1, PackedEndOrder
    <3> QED  BY <1>2, <1>3, <1>9, <1>10, <1>11, <2>1, <3>2
  <2> QED  BY <1>9, <2>2, <2>3
<1> QED  BY <1>1, <1>7, <1>8, <1>10, <1>11 DEF SlotNums, Used, Occupied

(* The pages (s, b) and (r, c) read the same.                              *)
SameReads(s, b, r, c) ==
    /\ Len(r) = Len(s)
    /\ \A i \in 1 .. Len(s) :
          (Used(r, i) <=> Used(s, i)) /\ (Used(s, i) => ReadOf(r, c, i) = ReadOf(s, b, i))

(* Compaction keeps a page good, and no slot reads differently after it.   *)
LEMMA PackKeeps ==
    ASSUME PageInv
    PROVE  /\ GoodPage(Packed.slots, Packed.free, Packed.bytes)
           /\ SameReads(slots, bytes, Packed.slots, Packed.bytes)
<1>1. PICK n \in Nat : n = Len(slots)
  BY DEF PageInv, GoodPage, TypedPage
<1>2. /\ slots \in Seq(Slot) /\ freeOffset \in 0 .. PageSize /\ bytes \in [Offsets -> Bytes]
      /\ HeaderSize + n * SlotSize <= freeOffset
      /\ \A i \in 1 .. n : Used(slots, i) => ReadOf(slots, bytes, i) \in Tuples
      /\ \A i \in 1 .. n : Used(slots, i) => /\ freeOffset <= slots[i].offset /\ slots[i].length >= 1
                                             /\ Behind(slots, i) <= PageSize
  BY <1>1 DEF PageInv, GoodPage, TypedPage, Within
<1>3. /\ \A i \in 0 .. n : PackedEnd[i] \in Nat /\ freeOffset <= PackedEnd[i] /\ PackedEnd[i] <= PageSize
      /\ \A i, j \in 0 .. n : i <= j => PackedEnd[j] <= PackedEnd[i]
  BY <1>1, PackedEndOrder
<1>4. PackedEnd[0] = PageSize /\ \A i \in 1 .. n : PackedEnd[i] = PackedEnd[i - 1] - Size(i)
  BY <1>1, PackedEndIs
<1>5. PICK f \in Nat : f = PackedEnd[n] /\ freeOffset <= f /\ f <= PageSize
  BY <1>3
<1>6. PICK r : r = PackedSlots
  OBVIOUS
<1>7. PICK c : c = PackedBytes
  OBVIOUS
<1>8. Packed.slots = r /\ Packed.free = f /\ Packed.bytes = c
  BY <1>1, <1>5, <1>6, <1>7 DEF Packed
<1>9. \A i \in 1 .. n : slots[i].offset \in Nat /\ slots[i].length \in Nat /\ slots[i].length <= PageSize
  BY <1>1, <1>2, SlotTypes
<1>10. \A i \in 1 .. n : i \in 0 .. n /\ i - 1 \in 0 .. n
  OBVIOUS
<1>11. ASSUME NEW i \in 1 .. n, Used(slots, i)
       PROVE  /\ PackedEnd[i] + slots[i].length = PackedEnd[i - 1]
              /\ PackedEnd[i] \in Offsets /\ PackedEnd[i] # 0
  <2>1. PackedEnd[i] \in Nat /\ PackedEnd[i - 1] \in Nat /\ PackedEnd[i - 1] <= PageSize
          /\ freeOffset <= PackedEnd[i]
    BY <1>3, <1>10
  <2>2. PackedEnd[i] = PackedEnd[i - 1] - slots[i].length /\ slots[i].length \in Nat /\ slots[i].length >= 1
    BY <1>2, <1>4, <1>9, <1>11 DEF Size
  <2>3. freeOffset \in Nat /\ HeaderSize <= freeOffset /\ HeaderSize \in Nat \ {0}
    <3>1. n * SlotSize \in Nat
      BY Sizes
    <3> QED  BY <1>2, <3>1, Sizes
  <2> QED  BY <2>1, <2>2, <2>3, Sizes DEF Offsets
<1>12. r = [i \in 1 .. n |-> IF Used(slots, i) THEN [offset |-> PackedEnd[i], length |-> slots[i].length]
                            ELSE NoSlot]
  BY <1>1, <1>6 DEF PackedSlots, SlotNums, Used, Occupied
<1>13. ASSUME NEW i \in 1 .. n
       PROVE  /\ r[i] \in Slot /\ (Used(r, i) <=> Used(slots, i))
              /\ Used(slots, i) => r[i].offset = PackedEnd[i] /\ r[i].length = slots[i].length
  <2>1. CASE Used(slots, i)
    <3>1. r[i] = [offset |-> PackedEnd[i], length |-> slots[i].length]
      BY <1>12, <2>1
    <3>2. slots[i].length \in 0 .. PageSize
      BY <1>9, Sizes
    <3> QED  BY <1>11, <2>1, <3>1, <3>2 DEF Slot, Used, InvalidOffset
  <2>2. CASE ~Used(slots, i)
    <3>1. r[i] = NoSlot
      BY <1>12, <2>2
    <3>2. NoSlot \in Slot /\ NoSlot.offset = 0
      BY Sizes DEF NoSlot, Slot, Offsets, InvalidOffset
    <3> QED  BY <2>2, <3>1, <3>2 DEF Used, InvalidOffset
  <2> QED  BY <2>1, <2>2
<1>14. r \in Seq(Slot) /\ Len(r) = n
  <2>1. r \in [1 .. n -> Slot]
    BY <1>12, <1>13
  <2> QED  BY <2>1, Sequence
<1>15. ASSUME NEW k \in Offsets
       PROVE  /\ k < f => c[k] = 0
              /\ f <= k => c[k] = bytes[slots[PackedSlot(k)].offset + (k - PackedEnd[PackedSlot(k)])]
  <2>1. c[k] = IF k < f THEN 0 ELSE bytes[slots[PackedSlot(k)].offset + (k - PackedEnd[PackedSlot(k)])]
    BY <1>1, <1>5, <1>7 DEF PackedBytes
  <2>2. k \in Nat
    BY Sizes DEF Offsets
  <2> QED  BY <1>5, <2>1, <2>2
<1>16. c \in [Offsets -> Bytes]
  <2>1. ASSUME NEW k \in Offsets PROVE c[k] \in Bytes
    <3>1. k \in Nat
      BY Sizes DEF Offsets
    <3>2. CASE k < f
      BY <1>15, <3>2, Sizes
    <3>3. CASE f <= k
      <4>1. PICK i : i = PackedSlot(k)
        OBVIOUS
      <4>2. i \in 1 .. n /\ Used(slots, i) /\ PackedEnd[i] <= k /\ k < PackedEnd[i - 1]
        BY <1>1, <1>5, <3>3, <4>1, PackedSlotIs DEF SlotNums
      <4>3. PackedEnd[i] + slots[i].length = PackedEnd[i - 1] /\ PackedEnd[i] \in Nat
        BY <1>3, <1>10, <1>11, <4>2
      <4>4. slots[i].offset \in Nat /\ slots[i].length \in Nat /\ slots[i].offset + slots[i].length <= PageSize
        BY <1>2, <1>9, <4>2 DEF Behind
      <4>5. slots[i].offset + (k - PackedEnd[i]) \in Offsets
        BY <3>1, <4>2, <4>3, <4>4, Sizes DEF Offsets
      <4>6. c[k] = bytes[slots[i].offset + (k - PackedEnd[i])]
        BY <1>15, <3>3, <4>1
      <4> QED  BY <1>2, <4>5, <4>6
    <3> QED  BY <1>5, <3>1, <3>2, <3>3
  <2>2. c = [k \in Offsets |-> c[k]]
    BY <1>7 DEF PackedBytes
  <2> QED  BY <2>1, <2>2
<1>17. ASSUME NEW i \in 1 .. n, Used(slots, i) PROVE ReadOf(r, c, i) = ReadOf(slots, bytes, i)
  <2>1. PICK e \in Nat, l \in Nat, o \in Nat :
          e = PackedEnd[i] /\ l = slots[i].length /\ o = slots[i].offset
    BY <1>3, <1>9, <1>10
  <2>2. r[i].offset = e /\ r[i].length = l
    BY <1>13, <1>17, <2>1
  <2>3. e + l = PackedEnd[i - 1] /\ f <= e /\ e + l <= PageSize
    <3>1. i - 1 \in 0 .. n /\ n \in 0 .. n /\ i \in 0 .. n /\ i <= n
      OBVIOUS
    <3>2. f <= e
      BY <1>3, <1>5, <2>1, <3>1
    <3> QED  BY <1>3, <1>11, <1>17, <2>1, <3>1, <3>2
  <2>4. ASSUME NEW k \in 1 .. l PROVE c[e + k - 1] = bytes[o + k - 1]
    <3>1. PICK x \in Nat : x = e + k - 1 /\ e <= x /\ x < e + l
      BY <2>1
    <3>2. x \in Offsets /\ f <= x
      BY <1>5, <2>1, <2>3, <3>1, Sizes DEF Offsets
    <3>3. PackedEnd[i] <= x /\ x < PackedEnd[i - 1]
      BY <2>1, <2>3, <3>1
    <3>4. i = PackedSlot(x)
      BY <1>1, <1>5, <3>2, <3>3, PackedSlotIs DEF SlotNums
    <3>5. c[x] = bytes[o + (x - e)]
      BY <1>15, <2>1, <3>2, <3>4
    <3>6. o + (x - e) = o + k - 1
      BY <2>1, <3>1
    <3> QED  BY <3>1, <3>5, <3>6
  <2>5. ReadOf(r, c, i) = [k \in 1 .. l |-> c[e + k - 1]]
    BY <2>2 DEF ReadOf
  <2>6. ReadOf(slots, bytes, i) = [k \in 1 .. l |-> bytes[o + k - 1]]
    BY <2>1 DEF ReadOf
  <2> QED  BY <2>4, <2>5, <2>6
<1>18. TypedPage(r, f, c)
  <2>1. f \in 0 .. PageSize
    BY <1>5, Sizes
  <2> QED  BY <1>14, <1>16, <2>1 DEF TypedPage
<1>19. HeaderSize + n * SlotSize <= f
  <2>1. n * SlotSize \in Nat
    BY Sizes
  <2> QED  BY <1>2, <1>5, <2>1, Sizes
<1>20. r = <<>> => f = PageSize
  <2>1. r = <<>> => n = 0
    BY <1>14
  <2> QED  BY <1>4, <1>5, <2>1
<1>21. ASSUME NEW i \in 1 .. n, Used(r, i)
       PROVE  f <= r[i].offset /\ r[i].length >= 1 /\ Behind(r, i) = PackedEnd[i - 1] /\ Behind(r, i) <= PageSize
  <2>1. Used(slots, i) /\ r[i].offset = PackedEnd[i] /\ r[i].length = slots[i].length
    BY <1>13, <1>21
  <2>2. i \in 0 .. n /\ n \in 0 .. n /\ i <= n /\ i - 1 \in 0 .. n
    OBVIOUS
  <2>3. f <= PackedEnd[i]
    BY <1>3, <1>5, <2>2
  <2>4. Behind(r, i) = PackedEnd[i - 1]
    BY <1>11, <2>1 DEF Behind
  <2> QED  BY <1>2, <1>3, <2>1, <2>2, <2>3, <2>4
<1>22. Within(r, f)
  BY <1>14, <1>21 DEF Within
<1>23. Apart(r)
  <2>1. ASSUME NEW i \in 1 .. n, NEW j \in 1 .. n, i < j, Used(r, i), Used(r, j)
        PROVE  Behind(r, j) <= r[i].offset
    <3>1. Behind(r, j) = PackedEnd[j - 1] /\ r[i].offset = PackedEnd[i]
      BY <1>13, <1>21, <2>1
    <3>2. i \in 0 .. n /\ j - 1 \in 0 .. n /\ i <= j - 1
      BY <2>1
    <3> QED  BY <1>3, <3>1, <3>2
  <2>2. \A i, j \in 1 .. n : i # j => i < j \/ j < i
    OBVIOUS
  <2> QED  BY <1>14, <2>1, <2>2 DEF Apart
<1>24. \A i \in 1 .. n : Used(r, i) => ReadOf(r, c, i) \in Tuples
  BY <1>2, <1>13, <1>17
<1>25. GoodPage(r, f, c)
  BY <1>14, <1>18, <1>19, <1>20, <1>22, <1>23, <1>24 DEF GoodPage
<1>26. SameReads(slots, bytes, r, c)
  BY <1>1, <1>13, <1>14, <1>17 DEF SameReads
<1> QED  BY <1>8, <1>25, <1>26

-----------------------------------------------------------------------------
(* Slot i is given another tuple, or none.                                 *)
OthersRead(s, b, r, c, i) ==
    /\ Len(r) = Len(s)
    /\ \A j \in 1 .. Len(s) :
          j # i => (Used(r, j) <=> Used(s, j)) /\ (Used(s, j) => ReadOf(r, c, j) = ReadOf(s, b, j))

Replaced(s, b, r, c, i, t) ==
    Used(s, i) /\ Used(r, i) /\ ReadOf(r, c, i) = t /\ OthersRead(s, b, r, c, i)

Emptied(s, b, r, c, i) == Used(s, i) /\ ~Used(r, i) /\ OthersRead(s, b, r, c, i)

(* An update in place stays inside the old tuple's bytes.                  *)
LEMMA UpdateKeeps ==
    ASSUME PageInv, NEW i \in SlotNums, NEW t \in Tuples, UpdateInPlace(i, t)
    PROVE  PageInv' /\ Replaced(slots, bytes, slots', bytes', i, t)
<1>1. PICK n \in Nat : n = Len(slots)
  BY DEF PageInv, GoodPage, TypedPage
<1>2. /\ slots \in Seq(Slot) /\ freeOffset \in 0 .. PageSize /\ bytes \in [Offsets -> Bytes]
      /\ HeaderSize + n * SlotSize <= freeOffset
      /\ \A j \in 1 .. n : Used(slots, j) => ReadOf(slots, bytes, j) \in Tuples
      /\ \A j \in 1 .. n : Used(slots, j) => /\ freeOffset <= slots[j].offset /\ slots[j].length >= 1
                                             /\ Behind(slots, j) <= PageSize
      /\ Apart(slots) /\ i \in 1 .. n /\ Used(slots, i)
  BY <1>1 DEF PageInv, GoodPage, TypedPage, Within, SlotNums, UpdateInPlace, Used, Occupied
<1>3. PICK l \in Nat \ {0} : l = Len(t)
  BY TupleLength
<1>4. \A j \in 1 .. n : slots[j].offset \in Nat /\ slots[j].length \in Nat
  BY <1>1, <1>2, SlotTypes
<1>5. PICK o \in Nat, m \in Nat : o = slots[i].offset /\ m = slots[i].length
  BY <1>2, <1>4
<1>6. o # 0 /\ l <= m /\ o + m <= PageSize /\ o + l <= PageSize /\ PageSize \in Nat
  <2>1. l <= m
    BY <1>3, <1>5 DEF UpdateInPlace
  <2>2. o # 0
    BY <1>2, <1>5 DEF Used, InvalidOffset
  <2>3. o + m <= PageSize
    BY <1>2, <1>5 DEF Behind
  <2> QED  BY <2>1, <2>2, <2>3, Sizes
<1>7. PICK x : x = [offset |-> o, length |-> l]
  OBVIOUS
<1>8. x \in Slot /\ x.offset = o /\ x.length = l
  <2>1. o \in Offsets /\ l \in 0 .. PageSize
    BY <1>3, <1>5, <1>6 DEF Offsets
  <2> QED  BY <1>7, <2>1 DEF Slot
<1>9. slots' = [slots EXCEPT ![i] = x]
  <2>1. slots[i] \in [offset : Offsets, length : 0 .. PageSize]
    BY <1>1, <1>2, SlotTypes DEF Slot
  <2>2. [slots[i] EXCEPT !.length = l] = x
    BY <1>5, <1>7, <2>1
  <2>3. slots' = [slots EXCEPT ![i].length = l]
    BY <1>3 DEF UpdateInPlace
  <2> QED  BY <2>2, <2>3
<1>10. /\ slots' \in Seq(Slot) /\ Len(slots') = n /\ slots'[i] = x
       /\ \A j \in 1 .. n : j # i => slots'[j] = slots[j]
  BY <1>1, <1>2, <1>8, <1>9
<1>11. /\ bytes' \in [Offsets -> Bytes] /\ \A k \in 1 .. l : bytes'[o + k - 1] = t[k]
       /\ \A k \in Offsets : k < o \/ o + l <= k => bytes'[k] = bytes[k]
  <2>1. bytes' = Written(bytes, o, t)
    BY <1>5 DEF UpdateInPlace
  <2>2. o \in Nat /\ o + Len(t) <= PageSize /\ bytes \in [Offsets -> Bytes]
    BY <1>2, <1>3, <1>6
  <2>3. /\ bytes' \in [Offsets -> Bytes] /\ \A k \in 1 .. Len(t) : bytes'[o + k - 1] = t[k]
        /\ \A k \in Offsets : k < o \/ o + Len(t) <= k => bytes'[k] = bytes[k]
    BY <2>1, <2>2, WrittenBytes
  <2> QED  BY <1>3, <2>3
<1>12. freeOffset' = freeOffset
  BY DEF UpdateInPlace
<1>13. Used(slots', i) /\ ReadOf(slots', bytes', i) = t
  <2>1. Used(slots', i)
    BY <1>6, <1>8, <1>10 DEF Used, InvalidOffset
  <2>2. ReadOf(slots', bytes', i) = [k \in 1 .. l |-> bytes'[o + k - 1]]
    BY <1>8, <1>10 DEF ReadOf
  <2>3. t = [k \in 1 .. l |-> t[k]]
    BY <1>3, TupleLength
  <2> QED  BY <1>11, <2>1, <2>2, <2>3
<1>14. ASSUME NEW j \in 1 .. n, j # i
       PROVE  /\ Used(slots', j) <=> Used(slots, j)
              /\ Used(slots, j) => ReadOf(slots', bytes', j) = ReadOf(slots, bytes, j)
  <2>1. slots'[j] = slots[j]
    BY <1>10, <1>14
  <2>2. Used(slots', j) <=> Used(slots, j)
    BY <2>1 DEF Used
  <2>3. ASSUME Used(slots, j) PROVE ReadOf(slots', bytes', j) = ReadOf(slots, bytes, j)
    <3>1. PICK p \in Nat, q \in Nat : p = slots[j].offset /\ q = slots[j].length
      BY <1>4
    <3>2. p + q <= o \/ o + m <= p
      BY <1>1, <1>2, <1>5, <1>14, <2>3, <3>1 DEF Apart, Behind
    <3>3. p + q <= PageSize
      BY <1>2, <2>3, <3>1 DEF Behind
    <3>4. ASSUME NEW k \in 1 .. q PROVE bytes'[p + k - 1] = bytes[p + k - 1]
      <4>1. p + k - 1 \in Offsets /\ (p + k - 1 < o \/ o + l <= p + k - 1)
        BY <1>5, <1>6, <3>1, <3>2, <3>3 DEF Offsets
      <4> QED  BY <1>11, <4>1
    <3> QED  BY <2>1, <3>1, <3>4, SameRead
  <2> QED  BY <2>2, <2>3
<1>15. Replaced(slots, bytes, slots', bytes', i, t)
  BY <1>1, <1>2, <1>10, <1>13, <1>14 DEF Replaced, OthersRead
<1>16. TypedPage(slots', freeOffset', bytes')
  BY <1>2, <1>10, <1>11, <1>12 DEF TypedPage
<1>17. HeaderSize + Len(slots') * SlotSize <= freeOffset' /\ slots' # <<>>
  BY <1>2, <1>10, <1>12
<1>18. Within(slots', freeOffset')
  <2>1. ASSUME NEW j \in 1 .. n, Used(slots', j)
        PROVE  freeOffset <= slots'[j].offset /\ slots'[j].length >= 1 /\ Behind(slots', j) <= PageSize
    <3>1. CASE j = i
      BY <1>2, <1>5, <1>6, <1>8, <1>10, <3>1 DEF Behind
    <3>2. CASE j # i
      BY <1>2, <1>10, <1>14, <2>1, <3>2 DEF Behind
    <3> QED  BY <3>1, <3>2
  <2> QED  BY <1>10, <1>12, <2>1 DEF Within
<1>19. Apart(slots')
  <2>1. ASSUME NEW j \in 1 .. n, Used(slots', j)
        PROVE  Used(slots, j) /\ slots'[j].offset = slots[j].offset /\ Behind(slots', j) <= Behind(slots, j)
    <3>1. CASE j = i
      BY <1>2, <1>5, <1>6, <1>8, <1>10, <3>1 DEF Behind
    <3>2. CASE j # i
      BY <1>4, <1>10, <1>14, <2>1, <3>2 DEF Behind
    <3> QED  BY <3>1, <3>2
  <2>2. ASSUME NEW j \in 1 .. n, NEW k \in 1 .. n, j # k, Used(slots', j), Used(slots', k)
        PROVE  Behind(slots', j) <= slots'[k].offset \/ Behind(slots', k) <= slots'[j].offset
    <3>1. Behind(slots, j) <= slots[k].offset \/ Behind(slots, k) <= slots[j].offset
      BY <1>1, <1>2, <2>1, <2>2 DEF Apart
    <3>2. \A z \in 1 .. n : slots'[z].offset \in Nat /\ slots'[z].length \in Nat
      BY <1>10, SlotTypes
    <3> QED  BY <1>4, <2>1, <2>2, <3>1, <3>2 DEF Behind
  <2> QED  BY <1>10, <2>2 DEF Apart
<1>20. \A j \in 1 .. n : Used(slots', j) => ReadOf(slots', bytes', j) \in Tuples
  BY <1>2, <1>13, <1>14
<1>21. PageInv'
  BY <1>10, <1>16, <1>17, <1>18, <1>19, <1>20 DEF PageInv, GoodPage
<1> QED  BY <1>15, <1>21

(* A deleted slot takes its tuple out of the layout.                       *)
LEMMA DeleteKeeps ==
    ASSUME PageInv, NEW i \in SlotNums, DeleteTuple(i)
    PROVE  PageInv' /\ Emptied(slots, bytes, slots', bytes', i)
<1>1. PICK n \in Nat : n = Len(slots)
  BY DEF PageInv, GoodPage, TypedPage
<1>2. /\ slots \in Seq(Slot) /\ i \in 1 .. n /\ Used(slots, i)
      /\ UNCHANGED <<freeOffset, bytes>>
      /\ slots' = [slots EXCEPT ![i].offset = InvalidOffset]
  BY <1>1 DEF PageInv, GoodPage, TypedPage, SlotNums, DeleteTuple, Used, Occupied
<1>3. PICK x : x = [offset |-> 0, length |-> slots[i].length]
  OBVIOUS
<1>4. slots[i] \in [offset : Offsets, length : 0 .. PageSize]
  BY <1>1, <1>2, SlotTypes DEF Slot
<1>5. x \in Slot /\ x.offset = 0
  <2>1. slots[i].length \in 0 .. PageSize /\ 0 \in Offsets
    BY <1>4, Sizes DEF Offsets
  <2> QED  BY <1>3, <2>1 DEF Slot
<1>6. slots' = [slots EXCEPT ![i] = x]
  <2>1. [slots[i] EXCEPT !.offset = InvalidOffset] = x
    BY <1>3, <1>4 DEF InvalidOffset
  <2> QED  BY <1>2, <2>1
<1>7. /\ slots' \in Seq(Slot) /\ Len(slots') = n /\ slots'[i] = x
      /\ \A j \in 1 .. n : j # i => slots'[j] = slots[j]
  BY <1>1, <1>2, <1>5, <1>6
<1>8. ~Used(slots', i)
  BY <1>5, <1>7 DEF Used, InvalidOffset
<1>9. \A j \in 1 .. n : j # i => (Used(slots', j) <=> Used(slots, j))
                                 /\ Behind(slots', j) = Behind(slots, j)
                                 /\ ReadOf(slots', bytes', j) = ReadOf(slots, bytes, j)
  BY <1>2, <1>7 DEF Used, Behind, ReadOf
<1>10. Emptied(slots, bytes, slots', bytes', i)
  BY <1>1, <1>2, <1>7, <1>8, <1>9 DEF Emptied, OthersRead
<1>11. TypedPage(slots', freeOffset', bytes')
  BY <1>2, <1>7 DEF PageInv, GoodPage, TypedPage
<1>12. HeaderSize + Len(slots') * SlotSize <= freeOffset' /\ slots' # <<>>
  BY <1>1, <1>2, <1>7 DEF PageInv, GoodPage
<1>13. Within(slots', freeOffset')
  BY <1>1, <1>2, <1>7, <1>8, <1>9 DEF PageInv, GoodPage, Within
<1>14. Apart(slots')
  BY <1>1, <1>7, <1>8, <1>9 DEF PageInv, GoodPage, Apart
<1>15. \A j \in 1 .. n : Used(slots', j) => ReadOf(slots', bytes', j) \in Tuples
  BY <1>1, <1>8, <1>9 DEF PageInv, GoodPage
<1>16. PageInv'
  BY <1>7, <1>11, <1>12, <1>13, <1>14, <1>15 DEF PageInv, GoodPage
<1> QED  BY <1>10, <1>16

(* A restored tuple goes back into its slot, which is free.                *)
LEMMA RestoreKeeps ==
    ASSUME PageInv, NEW i \in SlotNums, NEW t \in Tuples, RestoreTuple(i, t)
    PROVE  PageInv' /\ Filled(slots, bytes, slots', bytes', i, t)
<1>1. slots \in Seq(Slot) /\ i \in 1 .. Len(slots) /\ ~Used(slots, i)
  BY DEF PageInv, GoodPage, TypedPage, SlotNums, RestoreTuple, Used, Occupied
<1>2. CASE Insert(slots, freeOffset, bytes, t, i)
  <2>1. ChosenSlot(slots, i) = i
    BY <1>1 DEF ChosenSlot, FreeSlots, Used
  <2>2. GoodPage(slots', freeOffset', bytes') /\ Filled(slots, bytes, slots', bytes', i, t)
    BY <1>2, <2>1, InsertKeeps DEF PageInv
  <2> QED  BY <2>2 DEF PageInv
<1>3. CASE Insert(Packed.slots, Packed.free, Packed.bytes, t, i)
  <2>1. PICK s, f, b : s = Packed.slots /\ f = Packed.free /\ b = Packed.bytes
    OBVIOUS
  <2>2. GoodPage(s, f, b) /\ SameReads(slots, bytes, s, b)
    BY <2>1, PackKeeps
  <2>3. ChosenSlot(s, i) = i
    BY <1>1, <2>2 DEF ChosenSlot, FreeSlots, Used, SameReads
  <2>4. GoodPage(slots', freeOffset', bytes') /\ Filled(s, b, slots', bytes', i, t)
    BY <1>3, <2>1, <2>2, <2>3, InsertKeeps
  <2>5. Filled(slots, bytes, slots', bytes', i, t)
    BY <1>1, <2>2, <2>4 DEF Filled, SameReads
  <2> QED  BY <2>4, <2>5 DEF PageInv
<1> QED  BY <1>2, <1>3 DEF RestoreTuple

-----------------------------------------------------------------------------
(* The page of TableHeap::init_page is good.                               *)
LEMMA PageStarts ==
    ASSUME Init
    PROVE  PageInv
<1>1. slots = <<>> /\ freeOffset = PageSize /\ bytes = [k \in Offsets |-> 0]
  BY DEF Init
<1>2. TypedPage(slots, freeOffset, bytes) /\ Len(slots) = 0
  BY <1>1, Sizes DEF TypedPage
<1>3. HeaderSize + Len(slots) * SlotSize <= freeOffset
  BY <1>1, <1>2, Sizes
<1>4. 1 .. Len(slots) = {}
  BY <1>2
<1> QED  BY <1>1, <1>2, <1>3, <1>4 DEF PageInv, GoodPage, Within, Apart

(* A step keeps the page good; it changes what one slot reads as, or none. *)
LEMMA PageStep ==
    ASSUME PageInv, [Next]_vars
    PROVE  /\ PageInv'
           /\ \/ SameReads(slots, bytes, slots', bytes')
              \/ \E i \in 1 .. Len(slots) + 1, t \in Tuples : Filled(slots, bytes, slots', bytes', i, t)
              \/ \E i \in SlotNums : Emptied(slots, bytes, slots', bytes', i)
              \/ \E i \in SlotNums, t \in Tuples : Replaced(slots, bytes, slots', bytes', i, t)
<1>1. CASE UNCHANGED vars
  <2>1. UNCHANGED <<slots, freeOffset, bytes>>
    BY <1>1 DEF vars
  <2>2. PageInv'
    BY <2>1 DEF PageInv
  <2>3. SameReads(slots, bytes, slots', bytes')
    BY <2>1 DEF SameReads
  <2> QED  BY <2>2, <2>3
<1>2. CASE Compact
  <2>1. GoodPage(Packed.slots, Packed.free, Packed.bytes) /\ SameReads(slots, bytes, Packed.slots, Packed.bytes)
    BY PackKeeps
  <2>2. GoodPage(slots', freeOffset', bytes') /\ SameReads(slots, bytes, slots', bytes')
    BY <1>2, <2>1 DEF Compact
  <2> QED  BY <2>2 DEF PageInv
<1>3. ASSUME NEW t \in Tuples, InsertTuple(t)
      PROVE  PageInv' /\ \E i \in 1 .. Len(slots) + 1 : Filled(slots, bytes, slots', bytes', i, t)
  <2>1. Insert(slots, freeOffset, bytes, t, 0) /\ GoodPage(slots, freeOffset, bytes)
    BY <1>3 DEF InsertTuple, PageInv
  <2>2. /\ GoodPage(slots', freeOffset', bytes')
        /\ Filled(slots, bytes, slots', bytes', ChosenSlot(slots, 0), t)
    BY <2>1, InsertKeeps
  <2>3. slots \in Seq(Slot)
    BY DEF PageInv, GoodPage, TypedPage
  <2>4. ChosenSlot(slots, 0) \in 1 .. Len(slots) + 1
    BY <2>3, ChosenSlotIsFree
  <2> QED  BY <2>2, <2>4 DEF PageInv
<1>4. ASSUME NEW i \in SlotNums, DeleteTuple(i)
      PROVE  PageInv' /\ Emptied(slots, bytes, slots', bytes', i)
  BY <1>4, DeleteKeeps
<1>5. ASSUME NEW i \in SlotNums, NEW t \in Tuples, UpdateInPlace(i, t)
      PROVE  PageInv' /\ Replaced(slots, bytes, slots', bytes', i, t)
  BY <1>5, UpdateKeeps
<1>6. ASSUME NEW i \in SlotNums, NEW t \in Tuples, RestoreTuple(i, t)
      PROVE  PageInv' /\ \E j \in 1 .. Len(slots) + 1 : Filled(slots, bytes, slots', bytes', j, t)
  <2>1. PageInv' /\ Filled(slots, bytes, slots', bytes', i, t)
    BY <1>6, RestoreKeeps
  <2>2. i \in 1 .. Len(slots) + 1
    BY DEF SlotNums, PageInv, GoodPage, TypedPage
  <2> QED  BY <2>1, <2>2
<1> QED  BY <1>1, <1>2, <1>3, <1>4, <1>5, <1>6 DEF Next

(* The page is good after any sequence of operations.                      *)
LEMMA PageInvariant == Spec => []PageInv
<1>1. Init => PageInv
  BY PageStarts
<1>2. PageInv /\ [Next]_vars => PageInv'
  BY PageStep
<1> QED  BY <1>1, <1>2, PTL DEF Spec

(* After any sequence of inserts, updates, deletes, restores and           *)
(* compactions, of tuples of any sizes on a page of any size, the slots    *)
(* end before the tuples, which lie inside the page and share no byte.     *)
THEOREM PageLayout == Spec => []Layout
<1>1. ASSUME PageInv PROVE Layout
  <2>1. slots \in Seq(Slot) /\ TypeOK /\ HeaderSize + Len(slots) * SlotSize <= freeOffset
    BY <1>1 DEF PageInv, GoodPage, TypedPage, TypeOK, Slot
  <2>2. freeOffset \in Nat /\ PageSize \in Nat
    BY <1>1, Sizes DEF PageInv, GoodPage, TypedPage
  <2>3. ASSUME NEW i \in SlotNums, Occupied(i)
        PROVE  /\ slots[i].offset \in Nat /\ slots[i].length \in Nat
               /\ freeOffset <= slots[i].offset /\ slots[i].offset + slots[i].length <= PageSize
    <3>1. i \in 1 .. Len(slots) /\ Used(slots, i)
      BY <2>3 DEF SlotNums, Used, Occupied
    <3> QED  BY <1>1, <2>1, <3>1, SlotTypes DEF PageInv, GoodPage, Within, Behind
  <2>4. ASSUME NEW i \in SlotNums, Occupied(i) PROVE Extent(i) \subseteq freeOffset .. PageSize - 1
    BY <2>2, <2>3, <2>4 DEF Extent
  <2>5. ASSUME NEW i \in SlotNums, Occupied(i), NEW j \in SlotNums \ {i}, Occupied(j)
        PROVE  Extent(i) \cap Extent(j) = {}
    <3>1. \/ slots[i].offset + slots[i].length <= slots[j].offset
          \/ slots[j].offset + slots[j].length <= slots[i].offset
      BY <1>1, <2>5 DEF PageInv, GoodPage, Apart, Used, Occupied, Behind, SlotNums
    <3> QED  BY <2>3, <2>5, <3>1 DEF Extent
  <2> QED  BY <2>1, <2>4, <2>5 DEF Layout
<1> QED  BY <1>1, PageInvariant, PTL

(* compact leaves no byte between the tuples: behind the new free space    *)
(* offset every byte belongs to a tuple, so that whatever deletes and      *)
(* updates have freed is free for the next insert.                         *)
THEOREM CompactionReclaims == Spec => CompactReclaims
<1>1. ASSUME PageInv, Compact PROVE Live' = freeOffset' .. PageSize - 1
  <2>1. PICK n \in Nat : n = Len(slots)
    BY <1>1 DEF PageInv, GoodPage, TypedPage
  <2>2. PICK r, f : r = PackedSlots /\ f = PackedEnd[n]
    OBVIOUS
  <2>3. slots' = r /\ freeOffset' = f /\ Packed.slots = r /\ Packed.free = f
    BY <1>1, <2>1, <2>2 DEF Compact, Packed
  <2>4. GoodPage(Packed.slots, Packed.free, Packed.bytes) /\ SameReads(slots, bytes, Packed.slots, Packed.bytes)
    BY <1>1, PackKeeps
  <2>5. /\ r \in Seq(Slot) /\ Within(r, f) /\ f \in Nat /\ Len(r) = n
        /\ \A i \in 1 .. n : Used(r, i) <=> Used(slots, i)
    BY <2>1, <2>3, <2>4, Sizes DEF GoodPage, TypedPage, SameReads
  <2>6. Live' = {k \in Offsets : \E i \in 1 .. n : Used(r, i) /\ r[i].offset <= k /\ k < Behind(r, i)}
    <3>1. Live' = {k \in Offsets : \E i \in 1 .. Len(r) :
                      r[i].offset # InvalidOffset /\ k \in r[i].offset .. r[i].offset + r[i].length - 1}
      BY <2>3 DEF Live, SlotNums, Occupied, Extent
    <3>2. ASSUME NEW i \in 1 .. n, NEW k \in Offsets
          PROVE  k \in r[i].offset .. r[i].offset + r[i].length - 1 <=> r[i].offset <= k /\ k < Behind(r, i)
      <4>1. r[i].offset \in Nat /\ r[i].length \in Nat /\ k \in Nat
        BY <2>5, SlotTypes, Sizes DEF Offsets
      <4> QED  BY <4>1 DEF Behind
    <3> QED  BY <2>5, <3>1, <3>2 DEF Used
  <2>7. ASSUME NEW k \in Offsets, NEW i \in 1 .. n, Used(r, i), r[i].offset <= k, k < Behind(r, i)
        PROVE  k \in f .. PageSize - 1
    <3>1. f <= r[i].offset /\ r[i].offset \in Nat
      BY <2>5, <2>7, SlotTypes DEF Within
    <3> QED  BY <2>5, <2>7, <3>1, Sizes DEF Offsets
  <2>8. ASSUME NEW k \in f .. PageSize - 1
        PROVE  k \in Offsets /\ \E i \in 1 .. n : Used(r, i) /\ r[i].offset <= k /\ k < Behind(r, i)
    <3>1. k \in Offsets /\ f <= k
      BY <2>5, Sizes DEF Offsets
    <3>2. PICK i : i = PackedSlot(k)
      OBVIOUS
    <3>3. i \in 1 .. n /\ Used(slots, i) /\ PackedEnd[i] <= k /\ k < PackedEnd[i - 1]
      BY <1>1, <2>1, <2>2, <3>1, <3>2, PackedSlotIs DEF SlotNums
    <3>4. PackedEnd[i] = PackedEnd[i - 1] - slots[i].length
      BY <1>1, <2>1, <3>3, PackedEndIs DEF Size
    <3>5. i \in 0 .. n /\ i - 1 \in 0 .. n
      BY <3>3
    <3>6. PackedEnd[i] \in Int /\ PackedEnd[i - 1] \in Int
      BY <1>1, <2>1, <3>5, PackedEndIs
    <3>7. slots[i].length \in Nat
      BY <1>1, <2>1, <3>3, SlotTypes DEF PageInv, GoodPage, TypedPage
    <3>8. r[i] = [offset |-> PackedEnd[i], length |-> slots[i].length]
      BY <2>1, <2>2, <3>3 DEF PackedSlots, SlotNums, Used, Occupied
    <3>9. r[i].offset = PackedEnd[i] /\ Behind(r, i) = PackedEnd[i - 1]
      BY <3>4, <3>6, <3>7, <3>8 DEF Behind
    <3> QED  BY <2>5, <3>1, <3>3, <3>9
  <2>9. Live' = f .. PageSize - 1
    BY <2>6, <2>7, <2>8
  <2> QED  BY <2>3, <2>9
<1>2. ASSUME PageInv PROVE [Compact => Live' = freeOffset' .. PageSize - 1]_vars
  BY <1>1, <1>2
<1> QED  BY <1>2, PageInvariant, PTL DEF CompactReclaims

(* Without a tuple, the walk of is_compacted does not get away from the    *)
(* offset of the first slot, which is 0.                                   *)
LEMMA EmptiedWalk ==
    ASSUME PageInv, slots # <<>>, \A i \in SlotNums : ~Occupied(i)
    PROVE  NextOffset[Len(slots)] = 0
<1>1. PICK n \in Nat \ {0} : n = Len(slots)
  BY DEF PageInv, GoodPage, TypedPage
<1>2. slots[1].offset = 0 /\ \A i \in 1 .. n : ~Occupied(i)
  BY <1>1 DEF SlotNums, Occupied, InvalidOffset
<1>3. \A i \in 0 .. n : i # 0 => i \in 1 .. n
  OBVIOUS
<1>4. PICK e : e = [i \in 0 .. n |-> 0]
  OBVIOUS
<1>5. \A i \in 0 .. n : i # 0 => i - 1 \in 0 .. n
  OBVIOUS
<1>6. e = [i \in 0 .. n |-> IF i = 0 THEN slots[1].offset
                            ELSE IF Occupied(i) THEN slots[i].offset + slots[i].length ELSE e[i - 1]]
  <2>1. \A i \in 0 .. n : 0 = IF i = 0 THEN slots[1].offset
                            ELSE IF Occupied(i) THEN slots[i].offset + slots[i].length ELSE e[i - 1]
    BY <1>2, <1>3, <1>4, <1>5
  <2> QED  BY <1>4, <2>1
<1>7. \E g : g = [i \in 0 .. Len(slots) |-> IF i = 0 THEN slots[1].offset
                            ELSE IF Occupied(i) THEN slots[i].offset + slots[i].length ELSE g[i - 1]]
  BY <1>1, <1>6
<1>8. NextOffset = [i \in 0 .. Len(slots) |-> IF i = 0 THEN slots[1].offset
                            ELSE IF Occupied(i) THEN slots[i].offset + slots[i].length ELSE NextOffset[i - 1]]
  BY <1>7, Zenon DEF NextOffset
<1>9. PICK g : g = NextOffset
  OBVIOUS
<1>10. g = [i \in 0 .. n |-> IF i = 0 THEN slots[1].offset
                            ELSE IF Occupied(i) THEN slots[i].offset + slots[i].length ELSE g[i - 1]]
  BY <1>1, <1>8, <1>9
<1>11. \A i \in 0 .. n : g[i] = IF i = 0 THEN 0 ELSE g[i - 1]
  BY <1>2, <1>3, <1>10
<1> DEFINE Odd == {i \in 0 .. n : g[i] # 0}
<1>12. Odd = {}
  <2>1. ASSUME Odd # {} PROVE FALSE
    <3>1. Odd \in SUBSET Nat
      OBVIOUS
    <3>2. PICK k \in Odd : \A l \in Odd : k <= l
      BY <2>1, <3>1, LeastNatural
    <3>3. k \in 0 .. n /\ g[k] # 0
      BY <3>2
    <3>4. k # 0
      BY <1>11, <3>3
    <3>5. k - 1 \in 0 .. n /\ k - 1 < k
      BY <3>3, <3>4
    <3>6. g[k - 1] = 0
      BY <3>2, <3>5
    <3> QED  BY <1>11, <3>3, <3>4, <3>6
  <2> QED  BY <2>1
<1> QED  BY <1>1, <1>9, <1>12

(* A page whose tuples have all been deleted takes a tuple that goes       *)
(* between its slots and its end: is_compacted does not call such a page   *)
(* compacted, and compaction gives it back all of its space.               *)
THEOREM EmptiedPageAccepts == Spec => []EmptyPageAccepts
<1>1. ASSUME PageInv, NEW t \in Tuples, \A i \in SlotNums : ~Occupied(i),
             HeaderSize + SlotSize * (IF slots = <<>> THEN 1 ELSE Len(slots)) + Len(t) <= PageSize
      PROVE  ~Refuses(t)
  <2>1. PICK n \in Nat : n = Len(slots)
    BY <1>1 DEF PageInv, GoodPage, TypedPage
  <2>2. PICK l \in Nat : l = Len(t)
    BY TupleLength
  <2>3. slots \in Seq(Slot) /\ freeOffset \in Nat /\ \A i \in 1 .. n : ~Used(slots, i)
    BY <1>1, <2>1, Sizes DEF PageInv, GoodPage, TypedPage, SlotNums, Used, Occupied
  <2>4. CASE slots = <<>>
    <3>1. n = 0 /\ freeOffset = PageSize
      BY <1>1, <2>1, <2>4 DEF PageInv, GoodPage
    <3>2. ChosenSlot(slots, 0) = 1
      <4>1. \/ ChosenSlot(slots, 0) \in 1 .. Len(slots) \/ ChosenSlot(slots, 0) = Len(slots) + 1
        BY <2>3, ChosenSlotIsFree
      <4>2. Len(slots) = 0 /\ 1 .. 0 = {} /\ 0 + 1 = 1
        BY <2>1, <3>1
      <4> QED  BY <4>1, <4>2
    <3>3. HeaderSize + SlotSize + l <= PageSize
      BY <1>1, <2>2, <2>4, Sizes
    <3>4. FreeSpace(slots, freeOffset) = PageSize - HeaderSize
      BY <2>1, <3>1, Sizes DEF FreeSpace
    <3>5. Fits(slots, freeOffset, t, ChosenSlot(slots, 0))
      BY <2>1, <2>2, <3>1, <3>2, <3>3, <3>4, Sizes DEF Fits
    <3> QED  BY <3>5 DEF Refuses
  <2>5. CASE slots # <<>>
    <3>1. n >= 1
      BY <2>1, <2>3, <2>5
    <3>2. NextOffset[n] = 0
      BY <1>1, <2>1, <2>5, EmptiedWalk
    <3>3. ~IsCompacted
      BY <2>1, <3>1, <3>2, Sizes DEF IsCompacted
    <3>4. ChosenSlot(slots, 0) \in 1 .. n
      BY <2>1, <2>3, <3>1, ChosenSlotIsFree
    <3>5. Bytewise(n) = {}
      BY <2>3 DEF Bytewise
    <3>6. PackedEnd[n] = PageSize
      <4>1. n \in 0 .. Len(slots)
        BY <2>1
      <4>2. PackedEnd[n] = PageSize - Cardinality(Bytewise(n))
        BY <1>1, <4>1, PackedEndCounts
      <4> QED  BY <3>5, <4>2, FS_EmptySet, Sizes
    <3>7. Packed.free = PageSize
      BY <2>1, <3>6 DEF Packed
    <3>8. PICK a \in Nat : a = n * SlotSize /\ a = SlotSize * n
      BY Sizes
    <3>9. HeaderSize + a + l <= PageSize
      BY <1>1, <2>1, <2>2, <2>5, <3>8
    <3>10. FreeSpace(slots, PageSize) = PageSize - (HeaderSize + a)
      BY <2>1, <3>8 DEF FreeSpace
    <3>11. Fits(slots, PageSize, t, ChosenSlot(slots, 0))
      <4>1. ChosenSlot(slots, 0) # Len(slots) + 1
        BY <2>1, <3>4
      <4>2. PageSize - (HeaderSize + a) >= l + 0
        BY <3>9, Sizes
      <4> QED  BY <2>2, <3>10, <4>1, <4>2 DEF Fits
    <3> QED  BY <3>3, <3>7, <3>11 DEF Refuses
  <2> QED  BY <2>4, <2>5
<1>2. PageInv => EmptyPageAccepts
  BY <1>1 DEF EmptyPageAccepts
<1> QED  BY <1>2, PageInvariant, PTL

-----------------------------------------------------------------------------
(* What Table::get_tuple reads in the slots of the page (s, b).            *)
RowsIn(s, b) ==
    [i \in 1 .. Len(s) |-> IF Used(s, i) THEN deserialize(ReadOf(s, b, i), TableSchema) ELSE Empty]

(* The rows that are stored are not spoilt by the codec: serialize accepts *)
(* them, none is in a case of Spoilt and none takes more than 64 KiB.      *)
Storable ==
    \A r \in TableRows :
        /\ Accepts(r, TableSchema)
        /\ \A i \in DOMAIN r : ~Spoilt(r[i], TableSchema[i])
        /\ Len(serialize(r, TableSchema)) <= Word

(* The rows of a page are a sequence with one for every slot.              *)
LEMMA RowsAreSequence ==
    ASSUME NEW s \in Seq(Slot), NEW b
    PROVE  /\ Len(RowsIn(s, b)) = Len(s) /\ DOMAIN RowsIn(s, b) = 1 .. Len(s)
           /\ \E S : RowsIn(s, b) \in Seq(S)
           /\ \A i \in 1 .. Len(s) :
                 RowsIn(s, b)[i] = IF Used(s, i) THEN deserialize(ReadOf(s, b, i), TableSchema) ELSE Empty
<1>1. PICK n \in Nat : n = Len(s)
  OBVIOUS
<1>2. PICK q : q = RowsIn(s, b)
  OBVIOUS
<1>3. q = [i \in 1 .. n |-> IF Used(s, i) THEN deserialize(ReadOf(s, b, i), TableSchema) ELSE Empty]
  BY <1>1, <1>2 DEF RowsIn
<1>4. PICK S : S = {q[i] : i \in 1 .. n}
  OBVIOUS
<1>5. q \in [1 .. n -> S]
  <2>1. \A i \in 1 .. n : q[i] \in S
    BY <1>4
  <2>2. DOMAIN q = 1 .. n /\ q = [i \in 1 .. n |-> q[i]]
    BY <1>3
  <2> QED  BY <2>1, <2>2
<1>6. q \in Seq(S) /\ Len(q) = n
  BY <1>5, Sequence
<1> QED  BY <1>1, <1>2, <1>3, <1>6

(* Every tuple that is stored is read as a row.                            *)
LEMMA TuplesAreRows ==
    ASSUME Storable, NEW t \in Tuples
    PROVE  deserialize(t, TableSchema) \in TableRows /\ deserialize(t, TableSchema) # Empty
<1>1. PICK r \in TableRows : t = serialize(r, TableSchema)
  BY TablePageAssumption
<1>2. deserialize(t, TableSchema) = r
  <2>1. TableSchema \in Schemas /\ r \in Rows(TableSchema)
    BY TablePageAssumption
  <2>2. /\ \A i \in DOMAIN r : Declared(r[i], TableSchema[i]) \/ Unchecked(r[i], TableSchema[i])
        /\ \A i \in DOMAIN r : ~Spoilt(r[i], TableSchema[i])
        /\ Len(serialize(r, TableSchema)) <= Word
    BY <2>1, AcceptsDeclared DEF Storable
  <2> QED  BY <1>1, <2>1, <2>2, AcceptedBack
<1> QED  BY <1>2, TablePageAssumption

(* What reads the same has the same rows.                                  *)
LEMMA SameRows ==
    ASSUME NEW s \in Seq(Slot), NEW r \in Seq(Slot), NEW b, NEW c, SameReads(s, b, r, c)
    PROVE  RowsIn(r, c) = RowsIn(s, b)
BY DEF SameReads, RowsIn

(* A filled slot is a Store, or a StoreNew if no slot was free.            *)
LEMMA FilledStores ==
    ASSUME NEW s \in Seq(Slot), NEW r \in Seq(Slot), NEW b, NEW c, NEW i, NEW t,
           Filled(s, b, r, c, i, t), NEW x, x = deserialize(t, TableSchema)
    PROVE  \/ /\ i \in 1 .. Len(s) /\ RowsIn(s, b)[i] = Empty
              /\ RowsIn(r, c) = [RowsIn(s, b) EXCEPT ![i] = x]
           \/ /\ \A j \in 1 .. Len(s) : Used(s, j)
              /\ RowsIn(r, c) = Append(RowsIn(s, b), x)
<1>1. PICK n \in Nat, m \in Nat : n = Len(s) /\ m = Len(r)
  OBVIOUS
<1>2. PICK p, q : p = RowsIn(s, b) /\ q = RowsIn(r, c)
  OBVIOUS
<1>3. /\ Len(p) = n /\ DOMAIN p = 1 .. n
      /\ \A j \in 1 .. n : p[j] = IF Used(s, j) THEN deserialize(ReadOf(s, b, j), TableSchema) ELSE Empty
  BY <1>1, <1>2, RowsAreSequence
<1>4. PICK S : p \in Seq(S)
  BY <1>2, RowsAreSequence
<1>5. PICK R : q \in Seq(R)
  BY <1>2, RowsAreSequence
<1>6. /\ Len(q) = m
      /\ \A j \in 1 .. m : q[j] = IF Used(r, j) THEN deserialize(ReadOf(r, c, j), TableSchema) ELSE Empty
  BY <1>1, <1>2, RowsAreSequence
<1>7. /\ i \in 1 .. m /\ Used(r, i) /\ ReadOf(r, c, i) = t
      /\ \/ i \in 1 .. n /\ ~Used(s, i) /\ m = n
         \/ i = n + 1 /\ m = n + 1 /\ \A j \in 1 .. n : Used(s, j)
      /\ \A j \in 1 .. n :
          j # i => (Used(r, j) <=> Used(s, j)) /\ (Used(s, j) => ReadOf(r, c, j) = ReadOf(s, b, j))
  BY <1>1 DEF Filled
<1>8. q[i] = x
  BY <1>6, <1>7
<1>9. \A j \in 1 .. n : j \in 1 .. m /\ (j # i => q[j] = p[j])
  BY <1>3, <1>6, <1>7
<1>10. CASE i \in 1 .. n /\ ~Used(s, i) /\ m = n
  <2>1. p[i] = Empty
    BY <1>3, <1>10
  <2>2. DOMAIN q = 1 .. n
    BY <1>5, <1>6, <1>10
  <2>3. q = [j \in 1 .. n |-> IF j = i THEN x ELSE p[j]]
    <3>1. \A j \in 1 .. n : q[j] = IF j = i THEN x ELSE p[j]
      BY <1>8, <1>9
    <3>2. q = [j \in 1 .. n |-> q[j]]
      BY <1>5, <1>6, <1>10
    <3> QED  BY <3>1, <3>2
  <2>4. p = [j \in 1 .. n |-> p[j]]
    BY <1>3, <1>4
  <2>5. q = [p EXCEPT ![i] = x]
    BY <2>3, <2>4
  <2> QED  BY <1>1, <1>2, <1>10, <2>1, <2>5
<1>11. CASE i = n + 1 /\ m = n + 1 /\ \A j \in 1 .. n : Used(s, j)
  <2>1. PICK a : a = Append(p, x)
    OBVIOUS
  <2>2. PICK T : T = S \cup R \cup {x}
    OBVIOUS
  <2>3. p \in Seq(T) /\ q \in Seq(T) /\ x \in T
    BY <1>4, <1>5, <2>2
  <2>4. a \in Seq(T) /\ Len(a) = n + 1 /\ a[n + 1] = x /\ \A j \in 1 .. n : a[j] = p[j]
    <3>1. /\ Append(p, x) \in Seq(T) /\ Len(Append(p, x)) = Len(p) + 1
          /\ \A j \in 1 .. Len(p) : Append(p, x)[j] = p[j]
          /\ Append(p, x)[Len(p) + 1] = x
      BY ONLY <2>3, AppendProperties
    <3> QED  BY <1>3, <2>1, <3>1
  <2>5. \A j \in 1 .. n + 1 : q[j] = a[j]
    <3> TAKE j \in 1 .. n + 1
    <3>1. CASE j = n + 1
      BY <1>8, <1>11, <2>4, <3>1
    <3>2. CASE j # n + 1
      <4>1. j \in 1 .. n
        BY <3>2
      <4> QED  BY <1>9, <1>11, <2>4, <4>1
    <3> QED  BY <3>1, <3>2
  <2>6. q = a
    BY <1>6, <1>11, <2>3, <2>4, <2>5, SeqEqual
  <2> QED  BY <1>1, <1>2, <1>11, <2>1, <2>6
<1> QED  BY <1>7, <1>10, <1>11

(* A slot that is given another tuple, or none, has another row.           *)
LEMMA OthersRows ==
    ASSUME NEW s \in Seq(Slot), NEW r \in Seq(Slot), NEW b, NEW c, NEW i \in 1 .. Len(s),
           OthersRead(s, b, r, c, i)
    PROVE  RowsIn(r, c) = [RowsIn(s, b) EXCEPT ![i] = RowsIn(r, c)[i]]
<1>1. PICK n \in Nat : n = Len(s)
  OBVIOUS
<1>2. PICK p, q : p = RowsIn(s, b) /\ q = RowsIn(r, c)
  OBVIOUS
<1>3. p = [j \in 1 .. n |-> IF Used(s, j) THEN deserialize(ReadOf(s, b, j), TableSchema) ELSE Empty]
  BY <1>1, <1>2 DEF RowsIn
<1>4. q = [j \in 1 .. n |-> IF Used(r, j) THEN deserialize(ReadOf(r, c, j), TableSchema) ELSE Empty]
  BY <1>1, <1>2 DEF RowsIn, OthersRead
<1>5. \A j \in 1 .. n : j # i => q[j] = p[j]
  BY <1>1, <1>3, <1>4 DEF OthersRead
<1>6. q = [j \in 1 .. n |-> IF j = i THEN q[i] ELSE p[j]]
  <2>1. \A j \in 1 .. n : q[j] = IF j = i THEN q[i] ELSE p[j]
    BY <1>5
  <2>2. q = [j \in 1 .. n |-> q[j]]
    BY <1>4
  <2> QED  BY <2>1, <2>2
<1>7. q = [p EXCEPT ![i] = q[i]]
  BY <1>3, <1>6
<1> QED  BY <1>2, <1>7

(* A table's page is a page, so its layout is good.                        *)
LEMMA TablePageIsPage == TableSpec => Spec /\ []PageInv
<1>1. TableInit => Init
  BY DEF TableInit
<1>2. [TableNext]_<<vars, schema>> => [Next]_vars
  BY DEF TableNext
<1>3. TableSpec => Spec
  BY <1>1, <1>2, PTL DEF TableSpec, Spec
<1> QED  BY <1>3, PageInvariant, PTL

(* Read through Tuple's constructor, a page is a map of slot numbers to    *)
(* rows: every operation changes the row of one slot and leaves what all   *)
(* the others read as it was, and compaction is not seen at all.           *)
THEOREM PageIsSlotMap ==
    ASSUME Storable
    PROVE  TableSpec => ImplementsSlotMap
<1> DEFINE C == [i \in SlotNums |-> RowAt(i)]
<1>1. TableInit => Map!Init
  <2>1. ASSUME TableInit PROVE C = <<>>
    <3>1. SlotNums = {}
      BY <2>1 DEF TableInit, Init, SlotNums
    <3> QED  BY <3>1
  <2> QED  BY <2>1 DEF Map!Init
<1>2. ASSUME PageInv, [TableNext]_<<vars, schema>>
      PROVE  [Map!Next]_C
  <2>1. CASE schema # TableSchema \/ UNCHANGED <<vars, schema>>
    <3>1. UNCHANGED <<slots, freeOffset, bytes, schema>>
      BY <1>2, <2>1 DEF TableNext, vars
    <3>2. C' = C
      BY <3>1 DEF SlotNums, RowAt, Occupied, TupleAt
    <3> QED  BY <3>2
  <2>2. CASE schema = TableSchema /\ TableNext
    <3>1. schema' = TableSchema /\ [Next]_vars
      BY <2>2 DEF TableNext
    <3>2. /\ PageInv'
          /\ \/ SameReads(slots, bytes, slots', bytes')
             \/ \E i \in 1 .. Len(slots) + 1, t \in Tuples : Filled(slots, bytes, slots', bytes', i, t)
             \/ \E i \in SlotNums : Emptied(slots, bytes, slots', bytes', i)
             \/ \E i \in SlotNums, t \in Tuples : Replaced(slots, bytes, slots', bytes', i, t)
      BY <1>2, <3>1, PageStep
    <3>3. PICK p, q : p = RowsIn(slots, bytes) /\ q = RowsIn(slots', bytes')
      OBVIOUS
    <3>4. p = C /\ q = C'
      <4>1. p = C
        BY <2>2, <3>3 DEF RowsIn, SlotNums, RowAt, Occupied, Used, TupleAt, ReadOf
      <4>2. q = C'
        BY <3>1, <3>3 DEF RowsIn, SlotNums, RowAt, Occupied, Used, TupleAt, ReadOf
      <4> QED  BY <4>1, <4>2
    <3>5. /\ slots \in Seq(Slot) /\ slots' \in Seq(Slot)
          /\ \A i \in 1 .. Len(slots) : Used(slots, i) => ReadOf(slots, bytes, i) \in Tuples
      BY <1>2, <3>2 DEF PageInv, GoodPage, TypedPage
    <3>6. /\ Len(p) = Len(slots) /\ Len(q) = Len(slots')
          /\ \A i \in 1 .. Len(slots) :
                p[i] = IF Used(slots, i) THEN deserialize(ReadOf(slots, bytes, i), TableSchema) ELSE Empty
          /\ \A i \in 1 .. Len(slots') :
                q[i] = IF Used(slots', i) THEN deserialize(ReadOf(slots', bytes', i), TableSchema) ELSE Empty
      BY <3>3, <3>5, RowsAreSequence
    <3>7. \A i \in 1 .. Len(slots) : Used(slots, i) => p[i] # Empty
      BY <3>5, <3>6, TuplesAreRows
    <3>8. CASE SameReads(slots, bytes, slots', bytes')
      <4>1. q = p
        BY <3>3, <3>5, <3>8, SameRows
      <4> QED  BY <3>4, <4>1
    <3>9. ASSUME NEW i \in 1 .. Len(slots) + 1, NEW t \in Tuples, Filled(slots, bytes, slots', bytes', i, t)
          PROVE  Map!Next
      <4>1. PICK x \in TableRows : x = deserialize(t, TableSchema)
        BY TuplesAreRows
      <4>2. \/ i \in 1 .. Len(slots) /\ p[i] = Empty /\ q = [p EXCEPT ![i] = x]
            \/ (\A j \in 1 .. Len(slots) : Used(slots, j)) /\ q = Append(p, x)
        BY <3>3, <3>5, <3>9, <4>1, FilledStores
      <4>3. CASE i \in 1 .. Len(slots) /\ p[i] = Empty /\ q = [p EXCEPT ![i] = x]
        <5>1. i \in 1 .. Len(C) /\ Map!Store(i, x)
          BY <3>4, <3>6, <4>3 DEF Map!Store
        <5> QED  BY <4>1, <5>1 DEF Map!Next
      <4>4. CASE (\A j \in 1 .. Len(slots) : Used(slots, j)) /\ q = Append(p, x)
        <5>1. \A j \in 1 .. Len(p) : p[j] # Empty
          BY <3>6, <3>7, <4>4
        <5>2. Map!StoreNew(x)
          BY <3>4, <4>4, <5>1 DEF Map!StoreNew
        <5> QED  BY <4>1, <5>2 DEF Map!Next
      <4> QED  BY <4>2, <4>3, <4>4
    <3>10. ASSUME NEW i \in SlotNums, Emptied(slots, bytes, slots', bytes', i)
           PROVE  Map!Next
      <4>1. i \in 1 .. Len(slots) /\ Used(slots, i) /\ ~Used(slots', i) /\ Len(slots') = Len(slots)
        BY <3>10 DEF Emptied, OthersRead, SlotNums
      <4>2. q = [p EXCEPT ![i] = q[i]]
        BY <3>3, <3>5, <3>10, <4>1, OthersRows DEF Emptied
      <4>3. q[i] = Empty /\ p[i] # Empty
        BY <3>6, <3>7, <4>1
      <4>4. i \in 1 .. Len(C) /\ Map!Remove(i)
        BY <3>4, <3>6, <4>1, <4>2, <4>3 DEF Map!Remove
      <4> QED  BY <4>4 DEF Map!Next
    <3>11. ASSUME NEW i \in SlotNums, NEW t \in Tuples, Replaced(slots, bytes, slots', bytes', i, t)
           PROVE  Map!Next
      <4>1. /\ i \in 1 .. Len(slots) /\ Used(slots, i) /\ Used(slots', i) /\ Len(slots') = Len(slots)
            /\ ReadOf(slots', bytes', i) = t
        BY <3>11 DEF Replaced, OthersRead, SlotNums
      <4>2. q = [p EXCEPT ![i] = q[i]]
        BY <3>3, <3>5, <3>11, <4>1, OthersRows DEF Replaced
      <4>3. q[i] = deserialize(t, TableSchema) /\ p[i] # Empty
        BY <3>6, <3>7, <4>1
      <4>4. q[i] \in TableRows
        BY <4>3, TuplesAreRows
      <4>5. i \in 1 .. Len(C) /\ Map!Replace(i, q[i])
        BY <3>4, <3>6, <4>1, <4>2, <4>3 DEF Map!Replace
      <4> QED  BY <4>4, <4>5 DEF Map!Next
    <3> QED  BY <3>2, <3>8, <3>9, <3>10, <3>11
  <2> QED  BY <1>2, <2>1, <2>2
<1>3. TableSpec => Map!Spec
  BY <1>1, <1>2, TablePageIsPage, PTL DEF TableSpec, Map!Spec
<1> QED  BY <1>3 DEF ImplementsSlotMap

-----------------------------------------------------------------------------
(* The schema of a table does not change.                                  *)
LEMMA SchemaStays == TableSpec => [](schema \in Schemas)
<1>1. TableInit => schema \in Schemas
  BY DEF TableInit
<1>2. schema \in Schemas /\ [TableNext]_<<vars, schema>> => (schema \in Schemas)'
  BY DEF TableNext
<1> QED  BY <1>1, <1>2, PTL DEF TableSpec

(* Rows of every schema, of any number of columns of any type and of any   *)
(* strings: Tuple::serialize throws exactly for those with a value beyond  *)
(* the declared length, a VARBINARY excepted, and Tuple's constructor      *)
(* reads every row that is taken, of at most 64 KiB, as it was, except for *)
(* the two cases of Spoilt.                                                *)
THEOREM RowsReadBack == TableSpec => []RowsRoundTrip
<1>1. schema \in Schemas => RowsRoundTrip
  <2> SUFFICES ASSUME schema \in Schemas, NEW r \in Rows(schema)
               PROVE  /\ Accepts(r, schema) <=>
                            \A i \in DOMAIN r : Declared(r[i], schema[i]) \/ Unchecked(r[i], schema[i])
                      /\ (/\ \A i \in DOMAIN r : Declared(r[i], schema[i]) \/ Unchecked(r[i], schema[i])
                          /\ ~(\E i \in DOMAIN r : Spoilt(r[i], schema[i]))
                          /\ Len(serialize(r, schema)) <= Word)
                         => deserialize(serialize(r, schema), schema) = r
    BY DEF RowsRoundTrip
  <2>1. Accepts(r, schema) <=>
           \A i \in DOMAIN r : Declared(r[i], schema[i]) \/ Unchecked(r[i], schema[i])
    BY AcceptsDeclared
  <2>2. ASSUME \A i \in DOMAIN r : Declared(r[i], schema[i]) \/ Unchecked(r[i], schema[i]),
               ~(\E i \in DOMAIN r : Spoilt(r[i], schema[i])),
               Len(serialize(r, schema)) <= Word
        PROVE  deserialize(serialize(r, schema), schema) = r
    BY <2>2, AcceptedBack
  <2> QED  BY <2>1, <2>2
<1> QED  BY <1>1, SchemaStays, PTL

(* Every schema of at most 64 KiB, with names of any length, is read by    *)
(* Schema::deserialize as Schema::serialize wrote it.                      *)
THEOREM SchemasReadBack == TableSpec => []SchemaRoundTrip
<1>1. schema \in Schemas => SchemaRoundTrip
  BY SchemaBack DEF SchemaRoundTrip
<1> QED  BY <1>1, SchemaStays, PTL

=============================================================================
