-------------------------- MODULE TableHeapProofs --------------------------
(***************************************************************************)
(* The chain of a heap and the scans along it, for any number of threads,  *)
(* scans, pages and rows.  The pages from the first to the last one are    *)
(* numbered; a page that is allocated and has no number is the one that a  *)
(* thread has made and will link or give back.  Every thread and every     *)
(* scan stands on a page that has a number, only the page behind the last  *)
(* one gets a number, and what a scan owes is ahead of it.  The frame of a *)
(* page that was made is not given to another page here (Spec); what       *)
(* happens when it is, TLC shows with RecycleSpec.                         *)
(***************************************************************************)
EXTENDS TableHeap, FiniteSetTheorems, SequenceTheorems, WellFoundedInduction, TLAPS

Walking == {"look", "new", "link", "discard"}

ScanPlaces == {"none", "rows", "turn", "refused", "ended"}

TypeOK ==
    /\ own \in SUBSET (Pages \ Others)
    /\ next \in [Pages -> Pages \cup {None}]
    /\ places \in [Pages -> Seq(Nat)]
    /\ pc \in [Threads -> Walking \cup {"idle", "threw"}]
    /\ page \in [Threads -> Pages \cup {None}] /\ created \in [Threads -> BOOLEAN]
    /\ mine \in [Threads -> Pages \cup {None}] /\ shows \in [Threads -> Pages \cup {None}]
    /\ scan \in [Scanners -> [page : Pages \cup {None}, slot : Nat, at : ScanPlaces]]
    /\ owed \in [Scanners -> SUBSET Rid]

(* The page that a thread has made is its own, and leads nowhere.          *)
MakersOK ==
    \A t \in Threads :
        /\ mine[t] # None <=> pc[t] \in {"link", "discard"}
        /\ shows[t] = mine[t]
        /\ mine[t] # None => next[mine[t]] = None
        /\ \A u \in Threads \ {t} : mine[t] # None => mine[u] # mine[t]

(* c numbers the pages of the chain, from the first to the last one.       *)
Numbering(n) == [1 .. n -> Pages]

Linked(n, c) ==
    /\ c[1] = First
    /\ \A i, j \in 1 .. n : c[i] = c[j] => i = j
    /\ \A i \in 1 .. n : next[c[i]] = IF i < n THEN c[i + 1] ELSE None

On(n, c, p) == \E i \in 1 .. n : c[i] = p

Owned(n, c) ==
    /\ \A p \in Pages : p \in own <=> On(n, c, p) \/ \E t \in Threads : mine[t] = p
    /\ \A t \in Threads : ~On(n, c, mine[t])

(* Only pages with a number are visited or have rows.                      *)
Visited(n, c) ==
    /\ \A t \in Threads : pc[t] \in Walking => On(n, c, page[t])
    /\ \A s \in Scanners : scan[s].at \in {"rows", "turn", "ended"} => On(n, c, scan[s].page)
    /\ \A p \in Pages : ~On(n, c, p) => places[p] = <<>>

(* A tuple that a scan owes is on its page, from the slot it has come to,  *)
(* or on a later page.                                                     *)
AheadOf(n, c, s, r) ==
    \E k \in 1 .. n, j \in 1 .. n :
        /\ c[k] = scan[s].page /\ c[j] = r[1] /\ k <= j
        /\ k = j => scan[s].at = "rows" /\ scan[s].slot <= r[2]

Promised(n, c) ==
    \A s \in Scanners :
        /\ scan[s].at \in {"rows", "turn"} =>
              \A r \in owed[s] : r \in Rids /\ AheadOf(n, c, s, r)
        /\ scan[s].at = "ended" => owed[s] = {}

Good(n, c) == Linked(n, c) /\ Owned(n, c) /\ Visited(n, c) /\ Promised(n, c)

Inv ==
    /\ TypeOK /\ MakersOK
    /\ \E n \in Nat \ {0} : \E c \in Numbering(n) : Good(n, c)

-----------------------------------------------------------------------------
(* A set of natural numbers that is not empty has a least one.             *)
LEMMA LeastNatural ==
    ASSUME NEW S \in SUBSET Nat, S # {}
    PROVE  \E m \in S : \A n \in S : m <= n
<1>1. PICK m \in S : \A n \in S : ~(<<n, m>> \in OpToRel(<, Nat))
  BY NatLessThanWellFounded, WFMin, Zenon
<1>2. \A n \in S : ~(n < m)
  BY <1>1 DEF OpToRel
<1> QED  BY <1>2

(* Min is the least member.                                                *)
LEMMA Minimum ==
    ASSUME NEW S \in SUBSET Nat, S # {}
    PROVE  Min(S) \in S /\ \A n \in S : Min(S) <= n
<1>1. \E m \in S : \A n \in S : m <= n
  BY LeastNatural
<1> QED  BY <1>1 DEF Min

(* A function on the numbers up to n is a sequence of length n.            *)
LEMMA Sequence ==
    ASSUME NEW n \in Nat, NEW S, NEW q \in [1 .. n -> S]
    PROVE  q \in Seq(S) /\ Len(q) = n
OBVIOUS

(* The ways to put a set of numbers in order.                              *)
Increasing(S) ==
    {q \in [1 .. Cardinality(S) -> S] : \A i, j \in DOMAIN q : i < j => q[i] < q[j]}

(* The numbers of a bounded set can be put in order: if not, take the      *)
(* least bound for which they cannot.                                      *)
LEMMA Ordered ==
    \A k \in Nat : \A S \in SUBSET (1 .. k) : IsFiniteSet(S) /\ Increasing(S) # {}
<1> DEFINE Bad == {k \in Nat : \E S \in SUBSET (1 .. k) : Increasing(S) = {}}
<1>1. \A k \in Nat : \A S \in SUBSET (1 .. k) : IsFiniteSet(S)
  <2> TAKE k \in Nat
  <2> TAKE S \in SUBSET (1 .. k)
  <2>1. IsFiniteSet(1 .. k)
    BY FS_Interval
  <2> QED  BY <2>1, FS_Subset
<1>2. SUFFICES ASSUME Bad # {} PROVE FALSE
  BY <1>1
<1>3. PICK k \in Bad : \A l \in Bad : k <= l
  BY <1>2, LeastNatural
<1>4. k \in Nat
  OBVIOUS
<1>5. PICK S \in SUBSET (1 .. k) : Increasing(S) = {}
  BY <1>3
<1>6. k # 0
  <2>1. ASSUME k = 0 PROVE FALSE
    <3>0. S = {}
      BY <1>5, <2>1
    <3>1. Cardinality(S) = 0
      BY <3>0, FS_EmptySet
    <3>2. <<>> \in [1 .. 0 -> S]
      OBVIOUS
    <3>3. <<>> \in Increasing(S)
      BY <3>1, <3>2 DEF Increasing
    <3> QED  BY <1>5, <3>3
  <2> QED  BY <2>1
<1>7. PICK R \in SUBSET (1 .. k - 1) : R = S \ {k}
  <2>1. S \ {k} \in SUBSET (1 .. k - 1)
    BY <1>4, <1>5, <1>6
  <2> QED  BY <2>1
<1>8. k - 1 \in Nat /\ k - 1 \notin Bad
  BY <1>3, <1>4, <1>6
<1>9. PICK q \in Increasing(R) : TRUE
  BY <1>7, <1>8
<1>10. PICK m \in Nat : m = Cardinality(R)
  BY <1>1, <1>7, <1>8, FS_CardinalityType
<1>11. q \in [1 .. m -> R] /\ \A i, j \in 1 .. m : i < j => q[i] < q[j]
  BY <1>9, <1>10 DEF Increasing
<1>12. k \in S
  BY <1>5, <1>7, <1>9
<1>13. Cardinality(S) = m + 1
  <2>1. S = R \cup {k} /\ k \notin R /\ IsFiniteSet(R)
    BY <1>1, <1>7, <1>8, <1>12
  <2> QED  BY <1>10, <2>1, FS_AddElement
<1>14. PICK e : e = [i \in 1 .. m + 1 |-> IF i = m + 1 THEN k ELSE q[i]]
  OBVIOUS
<1>15. e \in [1 .. m + 1 -> S]
  <2> SUFFICES ASSUME NEW i \in 1 .. m + 1, i # m + 1 PROVE q[i] \in S
    BY <1>12, <1>14
  <2>1. i \in 1 .. m
    OBVIOUS
  <2> QED  BY <1>7, <1>11, <2>1
<1>16. ASSUME NEW i \in 1 .. m + 1, NEW j \in 1 .. m + 1, i < j PROVE e[i] < e[j]
  <2>1. i \in 1 .. m /\ e[i] = q[i] /\ q[i] \in R
    BY <1>11, <1>14, <1>16
  <2>2. CASE j = m + 1
    <3>1. q[i] \in 1 .. k - 1 /\ e[j] = k
      BY <1>7, <1>14, <2>1, <2>2
    <3> QED  BY <1>4, <2>1, <3>1
  <2>3. CASE j # m + 1
    <3>1. j \in 1 .. m /\ e[j] = q[j]
      BY <1>14, <2>3
    <3> QED  BY <1>11, <1>16, <2>1, <3>1
  <2> QED  BY <2>2, <2>3
<1>17. e \in Increasing(S)
  BY <1>13, <1>15, <1>16 DEF Increasing
<1> QED  BY <1>5, <1>17

(* InOrder has every tuple of the page.                                    *)
LEMMA InOrderTuples ==
    ASSUME NEW p
    PROVE  /\ InOrder(p) \in Seq(Nat)
           /\ \A x \in Occupied(p) : \E i \in 1 .. Len(InOrder(p)) : InOrder(p)[i] = x
<1>1. Occupied(p) \in SUBSET (1 .. RowsPerPage) /\ RowsPerPage \in Nat
  BY HeapAssumption DEF Occupied, Slots
<1>2. PICK S : S = Occupied(p)
  OBVIOUS
<1>3. IsFiniteSet(S) /\ Increasing(S) # {}
  BY <1>1, <1>2, Ordered
<1>4. PICK m \in Nat : m = Cardinality(S)
  BY <1>3, FS_CardinalityType
<1>5. PICK q : q = InOrder(p)
  OBVIOUS
<1>6. q = CHOOSE e \in [1 .. m -> S] : \A i, j \in DOMAIN e : i < j => e[i] < e[j]
  BY <1>2, <1>4, <1>5 DEF InOrder
<1>7. \E e \in [1 .. m -> S] : \A i, j \in DOMAIN e : i < j => e[i] < e[j]
  BY <1>3, <1>4 DEF Increasing
<1>8. q \in [1 .. m -> S] /\ \A i, j \in 1 .. m : i < j => q[i] < q[j]
  BY <1>6, <1>7
<1>9. S \in SUBSET Nat
  BY <1>1, <1>2
<1>10. \A i, j \in 1 .. m : q[i] = q[j] => i = j
  <2> SUFFICES ASSUME NEW i \in 1 .. m, NEW j \in 1 .. m, q[i] = q[j], i # j PROVE FALSE
    OBVIOUS
  <2>1. q[i] \in Nat /\ q[j] \in Nat
    BY <1>8, <1>9
  <2>2. i < j \/ j < i
    OBVIOUS
  <2>3. q[i] < q[j] \/ q[j] < q[i]
    BY <1>8, <2>2
  <2> QED  BY <2>1, <2>3
<1>11. q \in Injection(1 .. m, S)
  BY <1>8, <1>10 DEF Injection, IsInjective
<1>12. Cardinality(1 .. m) = m
  BY FS_Interval
<1>13. q \in Surjection(1 .. m, S)
  BY <1>3, <1>4, <1>11, <1>12, FS_Injection
<1>14. \A x \in S : \E i \in 1 .. m : q[i] = x
  BY <1>13 DEF Surjection
<1>15. q \in Seq(S) /\ Len(q) = m
  BY <1>8, Sequence
<1>16. q \in Seq(Nat)
  <2>1. q \in [1 .. m -> Nat]
    BY <1>8, <1>9
  <2> QED  BY <2>1, Sequence
<1> QED  BY <1>2, <1>5, <1>14, <1>15, <1>16

(* A compaction drops no tuple.                                            *)
LEMMA SettledKeeps ==
    ASSUME TypeOK, NEW p \in Pages
    PROVE  /\ Settled(p) \in Seq(Nat)
           /\ \A x \in Occupied(p) : \E i \in 1 .. Len(Settled(p)) : Settled(p)[i] = x
<1>1. places[p] \in Seq(Nat)
  BY DEF TypeOK
<1>2. CASE Settled(p) = places[p]
  BY <1>1, <1>2 DEF Occupied, Range
<1>3. CASE Settled(p) = InOrder(p)
  BY <1>3, InOrderTuples
<1> QED  BY <1>2, <1>3 DEF Settled

(* A page with room has a slot that is free: its tuples are fewer than the *)
(* slots.                                                                  *)
LEMMA FreeSlotIsFree ==
    ASSUME TypeOK, NEW p \in Pages, HasRoom(p)
    PROVE  FreeSlot(p) \in Slots \ Occupied(p)
<1> DEFINE q == Settled(p)
           At == {i \in 1 .. Len(q) : q[i] \in Slots}
           f == [i \in At |-> q[i]]
<1>1. RowsPerPage \in Nat /\ Slots = 1 .. RowsPerPage
  BY HeapAssumption DEF Slots
<1>2. q \in Seq(Nat) /\ Len(q) \in Nat /\ Len(q) < RowsPerPage
  BY SettledKeeps DEF HasRoom
<1>3. ASSUME Slots \subseteq Occupied(p) PROVE FALSE
  <2>1. \A x \in Slots : \E i \in At : f[i] = x
    BY <1>3, SettledKeeps
  <2>2. f \in [At -> Slots]
    OBVIOUS
  <2>3. f \in Surjection(At, Slots)
    BY <2>1, <2>2 DEF Surjection
  <2>4. IsFiniteSet(1 .. Len(q)) /\ Cardinality(1 .. Len(q)) = Len(q)
    <3>1. 1 \in Int /\ Len(q) \in Int
      BY <1>2
    <3>2. PICK l \in Nat : l = Len(q)
      BY <1>2
    <3>3. IsFiniteSet(1 .. l) /\ Cardinality(1 .. l) = IF 1 > l THEN 0 ELSE l - 1 + 1
      BY ONLY FS_Interval, l \in Nat
    <3> QED  BY <3>2, <3>3
  <2>5. IsFiniteSet(At) /\ Cardinality(At) <= Len(q)
    <3>1. At \in SUBSET (1 .. Len(q))
      OBVIOUS
    <3> HIDE DEF At, q
    <3> QED  BY <2>4, <3>1, FS_Subset
  <2>6. Cardinality(Slots) <= Cardinality(At)
    <3> HIDE DEF At, f
    <3> QED  BY <2>3, <2>5, FS_Surjection
  <2>7. Cardinality(Slots) = RowsPerPage
    <3>1. Cardinality(1 .. RowsPerPage) = IF 1 > RowsPerPage THEN 0 ELSE RowsPerPage - 1 + 1
      BY <1>1, FS_Interval
    <3> QED  BY <1>1, <3>1
  <2>8. Cardinality(At) \in Nat
    <3> HIDE DEF At
    <3> QED  BY <2>5, FS_CardinalityType
  <2> HIDE DEF At, q
  <2> QED  BY <1>1, <1>2, <2>5, <2>6, <2>7, <2>8
<1>4. PICK S : S = Slots \ Occupied(p)
  OBVIOUS
<1>5. S \in SUBSET Nat /\ S # {}
  BY <1>1, <1>3, <1>4
<1>6. Min(S) \in S
  BY ONLY <1>5, Minimum
<1> QED  BY <1>4, <1>6 DEF FreeSlot

-----------------------------------------------------------------------------
(* A step that drops no tuple.                                             *)
RowsKept == \A p \in Pages, x \in Slots : x \in Occupied(p) => (x \in Occupied(p))'

(* Every walk and every scan stands on a page.                             *)
OnPages ==
    /\ \A t \in Threads : pc[t] \in Walking => page[t] \in Pages
    /\ \A s \in Scanners : scan[s].at \in {"rows", "turn", "ended"} => scan[s].page \in Pages

(* An attempt to insert changes its page only, and keeps the tuples there. *)
LEMMA AttemptKeeps ==
    ASSUME TypeOK, OnPages, NEW t \in Threads, InsertHere(t) \/ NoRoom(t)
    PROVE  /\ places' \in [Pages -> Seq(Nat)]
           /\ \A p \in Pages \ {page[t]} : places'[p] = places[p]
           /\ RowsKept
<1> DEFINE p == page[t]
           q == Settled(p)
<1>1. p \in Pages /\ places \in [Pages -> Seq(Nat)]
  BY DEF InsertHere, NoRoom, OnPages, TypeOK, Walking
<1>2. q \in Seq(Nat) /\ \A x \in Occupied(p) : \E i \in 1 .. Len(q) : q[i] = x
  BY <1>1, SettledKeeps
<1>3. PICK r : /\ places' = [places EXCEPT ![p] = r]
               /\ r = q \/ \E x \in Nat : r = Append(q, x)
  <2>1. CASE NoRoom(t)
    BY <2>1 DEF NoRoom
  <2>2. CASE InsertHere(t)
    <3>1. FreeSlot(p) \in Slots
      BY <1>1, <2>2, FreeSlotIsFree DEF InsertHere
    <3>2. FreeSlot(p) \in Nat
      BY <3>1, HeapAssumption DEF Slots
    <3> QED  BY <2>2, <3>2 DEF InsertHere
  <2> QED  BY <2>1, <2>2
<1>4. r \in Seq(Nat) /\ \A i \in 1 .. Len(q) : i \in 1 .. Len(r) /\ r[i] = q[i]
  <2> HIDE DEF q
  <2>1. CASE r = q
    BY <1>2, <2>1
  <2>2. ASSUME NEW x \in Nat, r = Append(q, x)
        PROVE  r \in Seq(Nat) /\ \A i \in 1 .. Len(q) : i \in 1 .. Len(r) /\ r[i] = q[i]
    BY <1>2, <2>2
  <2> QED  BY <1>3, <2>1, <2>2
<1>5. places'[p] = r /\ \A o \in Pages \ {p} : places'[o] = places[o]
  BY <1>1, <1>3
<1>6. RowsKept
  <2> SUFFICES ASSUME NEW o \in Pages, NEW x \in Slots, x \in Occupied(o)
               PROVE  \E i \in DOMAIN places'[o] : places'[o][i] = x
    BY DEF RowsKept, Occupied, Range
  <2>1. CASE o = p
    <3>1. \E i \in 1 .. Len(r) : r[i] = x
      BY <1>2, <1>4, <2>1
    <3> QED  BY <1>5, <2>1, <3>1
  <2>2. CASE o # p
    BY <1>5, <2>2 DEF Occupied, Range
  <2> QED  BY <2>1, <2>2
<1>7. places' \in [Pages -> Seq(Nat)]
  BY <1>1, <1>3, <1>4
<1> QED  BY <1>5, <1>6, <1>7

(* What delete_tuple does to the tuples.                                   *)
LEMMA DeleteKeepsOthers ==
    ASSUME TypeOK, NEW t \in Threads, NEW r \in Rids, DeleteTuple(t, r)
    PROVE  /\ places' \in [Pages -> Seq(Nat)]
           /\ \A p \in Pages : places[p] = <<>> => places'[p] = <<>>
           /\ \A p \in Pages, x \in Slots :
                 x \in Occupied(p) /\ <<p, x>> # r => (x \in Occupied(p))'
<1>1. r[1] \in Pages /\ r[2] \in Slots /\ r = <<r[1], r[2]>>
  BY DEF Rids, Rid
<1>2. places \in [Pages -> Seq(Nat)] /\ Gap \in Nat
  BY DEF TypeOK, Gap
<1>3. PICK q \in Seq(Nat) : q = places[r[1]]
  BY <1>1, <1>2
<1>4. PICK d : d = [i \in 1 .. Len(q) |-> IF q[i] = r[2] THEN Gap ELSE q[i]]
  OBVIOUS
<1>5. d \in Seq(Nat) /\ Len(d) = Len(q)
  <2>1. d \in [1 .. Len(q) -> Nat]
    BY <1>2, <1>4
  <2> QED  BY <2>1, Sequence
<1>6. places' = [places EXCEPT ![r[1]] = d]
  BY <1>1, <1>2, <1>3, <1>4 DEF DeleteTuple, ReplaceAll
<1>7. places'[r[1]] = d /\ \A o \in Pages \ {r[1]} : places'[o] = places[o]
  BY <1>1, <1>2, <1>6
<1>8. ASSUME NEW p \in Pages, places[p] = <<>> PROVE places'[p] = <<>>
  BY <1>3, <1>5, <1>7, <1>8
<1>9. ASSUME NEW p \in Pages, NEW x \in Slots, x \in Occupied(p), <<p, x>> # r
      PROVE  (x \in Occupied(p))'
  <2> SUFFICES \E i \in DOMAIN places'[p] : places'[p][i] = x
    BY DEF Occupied, Range
  <2>1. CASE p = r[1]
    <3>1. x # r[2]
      BY <1>1, <1>9, <2>1
    <3>2. PICK i \in 1 .. Len(q) : q[i] = x
      BY <1>3, <1>9, <2>1 DEF Occupied, Range
    <3>3. i \in 1 .. Len(d) /\ d[i] = x
      BY <1>4, <1>5, <3>1, <3>2
    <3> QED  BY <1>5, <1>7, <2>1, <3>3
  <2>2. CASE p # r[1]
    BY <1>7, <1>9, <2>2 DEF Occupied, Range
  <2> QED  BY <2>1, <2>2
<1> QED  BY <1>2, <1>5, <1>6, <1>8, <1>9

-----------------------------------------------------------------------------
(* Every step keeps the types.                                             *)
LEMMA TypeStep ==
    ASSUME TypeOK, MakersOK, OnPages, [Next]_vars
    PROVE  TypeOK'
<1> USE DEF TypeOK, Walking, ScanPlaces
<1>0. First \in Pages /\ First \notin Others /\ None \notin Pages /\ Gap \in Nat
  BY HeapAssumption DEF Gap
<1>1. CASE UNCHANGED vars
  BY <1>1 DEF vars, threadVars
<1>2. ASSUME NEW t \in Threads, InsertBegin(t) PROVE TypeOK'
  BY <1>0, <1>2 DEF InsertBegin
<1>3. ASSUME NEW t \in Threads, InsertHere(t) PROVE TypeOK'
  <2>1. places' \in [Pages -> Seq(Nat)]
    BY <1>3, AttemptKeeps
  <2> QED  BY <1>3, <2>1 DEF InsertHere
<1>4. ASSUME NEW t \in Threads, NoRoom(t) PROVE places' \in [Pages -> Seq(Nat)]
  BY <1>4, AttemptKeeps
<1>5. ASSUME NEW t \in Threads, InsertNext(t) PROVE TypeOK'
  <2>1. places' \in [Pages -> Seq(Nat)]
    BY <1>4, <1>5 DEF InsertNext
  <2>2. next[page[t]] \in Pages \cup {None}
    BY <1>5 DEF InsertNext, NoRoom, OnPages
  <2> QED  BY <1>5, <2>1, <2>2 DEF InsertNext
<1>6. ASSUME NEW t \in Threads, InsertGrow(t) PROVE TypeOK'
  <2>1. places' \in [Pages -> Seq(Nat)]
    BY <1>4, <1>6 DEF InsertGrow
  <2> QED  BY <1>6, <2>1 DEF InsertGrow
<1>7. ASSUME NEW t \in Threads, InsertThrow(t) PROVE TypeOK'
  <2>1. places' \in [Pages -> Seq(Nat)]
    BY <1>4, <1>7 DEF InsertThrow
  <2> QED  BY <1>7, <2>1 DEF InsertThrow
<1>8. ASSUME NEW t \in Threads, InsertNewPage(t) PROVE TypeOK'
  <2>1. PICK p \in Pages \ (own \cup Others) :
          /\ own' = own \cup {p}
          /\ next' = [next EXCEPT ![p] = None]
          /\ places' = [places EXCEPT ![p] = <<>>]
          /\ mine' = [mine EXCEPT ![t] = p]
          /\ shows' = [shows EXCEPT ![t] = p]
    BY <1>8 DEF InsertNewPage
  <2>2. places' \in [Pages -> Seq(Nat)]
    BY <2>1
  <2> QED  BY <1>8, <2>1, <2>2 DEF InsertNewPage
<1>9. ASSUME NEW t \in Threads, InsertNoPage(t) PROVE TypeOK'
  BY <1>9 DEF InsertNoPage
<1>10. ASSUME NEW t \in Threads, InsertLink(t) PROVE TypeOK'
  BY <1>10 DEF InsertLink
<1>11. ASSUME NEW t \in Threads, InsertLost(t) PROVE TypeOK'
  <2>1. next[page[t]] \in Pages \cup {None}
    BY <1>11 DEF InsertLost, OnPages
  <2> QED  BY <1>11, <2>1 DEF InsertLost
<1>12. ASSUME NEW t \in Threads, InsertDiscard(t) PROVE TypeOK'
  BY <1>12 DEF InsertDiscard, Discarded
<1>13. ASSUME NEW t \in Threads, InsertRefused(t) PROVE TypeOK'
  BY <1>13 DEF InsertRefused
<1>14. ASSUME NEW t \in Threads, NEW r \in Rids, DeleteTuple(t, r) PROVE TypeOK'
  <2>1. places' \in [Pages -> Seq(Nat)]
    BY <1>14, DeleteKeepsOthers
  <2>2. owed' \in [Scanners -> SUBSET Rid]
    BY <1>14 DEF DeleteTuple
  <2> QED  BY <1>14, <2>1, <2>2 DEF DeleteTuple, threadVars
<1>15. ASSUME NEW s \in Scanners, ScanBegin(s) PROVE TypeOK'
  <2>1. Rids \in SUBSET Rid
    BY DEF Rids
  <2>2. scan' \in [Scanners -> [page : Pages \cup {None}, slot : Nat, at : ScanPlaces]]
    BY <1>0, <1>15 DEF ScanBegin
  <2> QED  BY <1>15, <2>1, <2>2 DEF ScanBegin, threadVars
<1>16. ASSUME NEW s \in Scanners, ScanRow(s) PROVE TypeOK'
  <2>1. Ahead(s) \in SUBSET Nat /\ Ahead(s) # {}
    BY <1>16, HeapAssumption DEF ScanRow, Ahead, Occupied, Slots
  <2>2. PICK i \in Nat : i = Min(Ahead(s))
    BY <2>1, Minimum
  <2>3. scan' = [scan EXCEPT ![s].slot = i + 1] /\ i + 1 \in Nat
    BY <1>16, <2>2 DEF ScanRow
  <2>4. scan' \in [Scanners -> [page : Pages \cup {None}, slot : Nat, at : ScanPlaces]]
    BY <2>3
  <2>5. owed' \in [Scanners -> SUBSET Rid]
    BY <1>16 DEF ScanRow
  <2> QED  BY <1>16, <2>4, <2>5 DEF ScanRow, threadVars
<1>17. ASSUME NEW s \in Scanners, ScanTurn(s) \/ ScanRefused(s) \/ ScanEnd(s) PROVE TypeOK'
  <2>0. PICK a \in ScanPlaces : scan' = [scan EXCEPT ![s].at = a]
    BY <1>17 DEF ScanTurn, ScanRefused, ScanEnd
  <2>1. scan' \in [Scanners -> [page : Pages \cup {None}, slot : Nat, at : ScanPlaces]]
    BY <2>0
  <2> QED  BY <1>17, <2>1 DEF ScanTurn, ScanRefused, ScanEnd, threadVars
<1>18. ASSUME NEW s \in Scanners, ScanNextPage(s) PROVE TypeOK'
  <2>1. next[scan[s].page] \in Pages
    BY <1>0, <1>18 DEF ScanNextPage, OnPages
  <2>2. scan' = [scan EXCEPT ![s] = [page |-> next[scan[s].page], slot |-> 1, at |-> "rows"]]
    BY <1>18 DEF ScanNextPage
  <2>3. scan' \in [Scanners -> [page : Pages \cup {None}, slot : Nat, at : ScanPlaces]]
    BY <2>1, <2>2
  <2> QED  BY <1>18, <2>3 DEF ScanNextPage, threadVars
<1> USE DEF Next, InsertStep, ScanStep
<1> QED
  BY <1>1, <1>2, <1>3, <1>5, <1>6, <1>7, <1>8, <1>9, <1>10, <1>11, <1>12, <1>13, <1>14, <1>15,
     <1>16, <1>17, <1>18

(* The first page is on the chain.                                         *)
LEMMA FirstIsOn ==
    ASSUME NEW n \in Nat \ {0}, NEW c \in Numbering(n), Linked(n, c)
    PROVE  On(n, c, First)
BY DEF Linked, On

(* The page behind a page of the chain is on it, too.                      *)
LEMMA NextIsOn ==
    ASSUME NEW n \in Nat \ {0}, NEW c \in Numbering(n), Linked(n, c),
           NEW p, On(n, c, p), next[p] # None
    PROVE  On(n, c, next[p])
<1>1. PICK i \in 1 .. n : c[i] = p
  BY DEF On
<1>2. i < n /\ next[p] = c[i + 1]
  BY <1>1 DEF Linked
<1>3. i + 1 \in 1 .. n
  BY <1>2
<1> QED  BY <1>2, <1>3 DEF On

(* Where the walks and scans stand.                                        *)
LEMMA StandOnPages ==
    ASSUME NEW n \in Nat \ {0}, NEW c \in Numbering(n), Visited(n, c)
    PROVE  OnPages
BY DEF Visited, OnPages, On, Numbering

(* The makers stay sound.                                                  *)
LEMMA MakersStep ==
    ASSUME TypeOK, MakersOK, OnPages, [Next]_vars,
           NEW n \in Nat \ {0}, NEW c \in Numbering(n), Good(n, c)
    PROVE  MakersOK'
<1>1. CASE UNCHANGED <<next, pc, mine, shows>>
  BY <1>1 DEF MakersOK
<1>2. ASSUME NEW t \in Threads, UNCHANGED <<next, mine, shows>>, pc[t] \notin {"link", "discard"},
             \E a \in Walking \cup {"idle", "threw"} :
                a \notin {"link", "discard"} /\ pc' = [pc EXCEPT ![t] = a]
      PROVE  MakersOK'
  <2>1. PICK a : a \notin {"link", "discard"} /\ pc' = [pc EXCEPT ![t] = a]
    BY <1>2
  <2>2. \A u \in Threads : pc'[u] \in {"link", "discard"} <=> pc[u] \in {"link", "discard"}
    BY <1>2, <2>1 DEF TypeOK
  <2> QED  BY <1>2, <2>2 DEF MakersOK
<1>3. ASSUME NEW t \in Threads, InsertNewPage(t) PROVE MakersOK'
  <2>1. PICK p \in Pages \ (own \cup Others) :
          /\ own' = own \cup {p}
          /\ next' = [next EXCEPT ![p] = None]
          /\ mine' = [mine EXCEPT ![t] = p]
          /\ shows' = [shows EXCEPT ![t] = p]
    BY <1>3 DEF InsertNewPage
  <2>2. \A u \in Threads : mine[u] # None => mine[u] # p /\ mine[u] \in Pages
    BY <2>1 DEF Good, Owned, TypeOK
  <2>3. p # None
    BY HeapAssumption
  <2>4. mine'[t] = p /\ shows'[t] = p /\ pc'[t] = "link" /\ next'[p] = None
    BY <1>3, <2>1 DEF InsertNewPage, TypeOK
  <2>5. \A u \in Threads \ {t} : mine'[u] = mine[u] /\ shows'[u] = shows[u] /\ pc'[u] = pc[u]
    BY <1>3, <2>1 DEF InsertNewPage, TypeOK
  <2>6. \A u \in Threads \ {t} : mine[u] # None => next'[mine[u]] = next[mine[u]]
    BY <2>1, <2>2 DEF TypeOK
  <2> QED  BY <2>2, <2>3, <2>4, <2>5, <2>6 DEF MakersOK
<1>4. ASSUME NEW t \in Threads, InsertLink(t) PROVE MakersOK'
  <2>1. On(n, c, page[t])
    BY <1>4 DEF InsertLink, Good, Visited, Walking
  <2>2. \A u \in Threads : mine[u] # page[t]
    BY <2>1 DEF Good, Owned
  <2>3. \A u \in Threads : mine[u] # None => next'[mine[u]] = next[mine[u]]
    BY <1>4, <2>2 DEF InsertLink, TypeOK
  <2>4. mine'[t] = None /\ shows'[t] = None /\ pc'[t] = "look"
    BY <1>4 DEF InsertLink, TypeOK
  <2>5. \A u \in Threads \ {t} : mine'[u] = mine[u] /\ shows'[u] = shows[u] /\ pc'[u] = pc[u]
    BY <1>4 DEF InsertLink, TypeOK
  <2> QED  BY <2>3, <2>4, <2>5 DEF MakersOK
<1>5. ASSUME NEW t \in Threads, InsertLost(t) PROVE MakersOK'
  <2>1. \A u \in Threads : pc'[u] \in {"link", "discard"} <=> pc[u] \in {"link", "discard"}
    BY <1>5 DEF InsertLost, TypeOK
  <2>2. UNCHANGED <<next, mine, shows>>
    BY <1>5 DEF InsertLost
  <2> QED  BY <2>1, <2>2 DEF MakersOK
<1>6. ASSUME NEW t \in Threads, InsertDiscard(t) PROVE MakersOK'
  <2>1. mine'[t] = None /\ shows'[t] = None /\ pc'[t] = "look"
    BY <1>6 DEF InsertDiscard, TypeOK
  <2>2. \A u \in Threads \ {t} : mine'[u] = mine[u] /\ shows'[u] = shows[u] /\ pc'[u] = pc[u]
    BY <1>6 DEF InsertDiscard, TypeOK
  <2>3. next' = next
    BY <1>6 DEF InsertDiscard
  <2> QED  BY <2>1, <2>2, <2>3 DEF MakersOK
<1>7. ASSUME NEW t \in Threads,
             InsertBegin(t) \/ InsertHere(t) \/ InsertRefused(t)
               \/ InsertGrow(t) \/ InsertThrow(t) \/ InsertNoPage(t)
      PROVE  MakersOK'
  <2>1. UNCHANGED <<next, mine, shows>>
    BY <1>7 DEF InsertBegin, InsertHere, InsertRefused, InsertGrow, InsertThrow, InsertNoPage
  <2>2. pc[t] \notin {"link", "discard"}
    BY <1>7 DEF InsertBegin, InsertHere, InsertRefused, InsertGrow, InsertThrow, InsertNoPage, NoRoom
  <2>3. \E a \in {"look", "idle", "new", "threw"} : pc' = [pc EXCEPT ![t] = a]
    BY <1>7 DEF InsertBegin, InsertHere, InsertRefused, InsertGrow, InsertThrow, InsertNoPage
  <2>4. \E a \in Walking \cup {"idle", "threw"} :
            a \notin {"link", "discard"} /\ pc' = [pc EXCEPT ![t] = a]
    BY <2>3 DEF Walking
  <2> QED  BY <1>2, <2>1, <2>2, <2>4
<1>8. ASSUME NEW t \in Threads, InsertNext(t) PROVE MakersOK'
  BY <1>1, <1>8 DEF InsertNext
<1>9. ASSUME NEW t \in Threads, NEW r \in Rids, DeleteTuple(t, r) PROVE MakersOK'
  BY <1>1, <1>9 DEF DeleteTuple, threadVars
<1>10. ASSUME NEW s \in Scanners, ScanBegin(s) \/ ScanStep(s) PROVE MakersOK'
  BY <1>1, <1>10 DEF ScanBegin, ScanStep, ScanRow, ScanTurn, ScanNextPage, ScanRefused, ScanEnd, threadVars
<1>11. CASE UNCHANGED vars
  BY <1>1, <1>11 DEF vars, threadVars
<1> QED
  BY <1>3, <1>4, <1>5, <1>6, <1>7, <1>8, <1>9, <1>10, <1>11 DEF Next, InsertStep

-----------------------------------------------------------------------------
(* The chain, and whose page each one is, do not change.                   *)
LEMMA SameChain ==
    ASSUME NEW n \in Nat \ {0}, NEW c \in Numbering(n), Linked(n, c), Owned(n, c),
           UNCHANGED <<own, next, mine>>
    PROVE  Linked(n, c)' /\ Owned(n, c)'
BY DEF Linked, Owned, On

(* What is promised stays so if no tuple is dropped.                       *)
LEMMA SamePromises ==
    ASSUME TypeOK, NEW n \in Nat \ {0}, NEW c \in Numbering(n), Promised(n, c),
           UNCHANGED <<scan, owed>>, RowsKept
    PROVE  Promised(n, c)'
<1>1. \A r \in Rids : (r \in Rids)'
  <2> TAKE r \in Rids
  <2>1. r \in Rid /\ r[1] \in Pages /\ r[2] \in Slots /\ r[2] \in Occupied(r[1])
    BY DEF Rids, Rid
  <2>2. (r[2] \in Occupied(r[1]))'
    BY <2>1 DEF RowsKept
  <2> QED  BY <2>1, <2>2 DEF Rids
<1> QED  BY <1>1 DEF Promised, AheadOf

(* A step of an insert along the chain that leaves the chain alone.        *)
LEMMA WalkStep ==
    ASSUME TypeOK, NEW n \in Nat \ {0}, NEW c \in Numbering(n), Good(n, c), NEW t \in Threads,
           UNCHANGED <<own, next, mine, scan, owed>>,
           \A u \in Threads \ {t} : pc'[u] = pc[u] /\ page'[u] = page[u],
           pc'[t] \in Walking => On(n, c, page'[t]),
           RowsKept,
           \A p \in Pages : ~On(n, c, p) => places'[p] = places[p]
    PROVE  Good(n, c)'
<1>1. Linked(n, c)' /\ Owned(n, c)'
  BY SameChain DEF Good
<1>2. Promised(n, c)'
  BY SamePromises DEF Good
<1>3. Visited(n, c)'
  BY DEF Good, Visited, On
<1> QED  BY <1>1, <1>2, <1>3 DEF Good

(* Nothing happens to the rows.                                            *)
LEMMA SameRows ==
    ASSUME UNCHANGED places
    PROVE  RowsKept
BY DEF RowsKept, Occupied

(* The steps of an insert that do not change the chain keep it good.       *)
LEMMA WalksKeep ==
    ASSUME TypeOK, NEW n \in Nat \ {0}, NEW c \in Numbering(n), Good(n, c), OnPages,
           NEW t \in Threads,
           \/ InsertBegin(t) \/ InsertHere(t) \/ InsertRefused(t) \/ InsertNext(t)
           \/ InsertGrow(t) \/ InsertThrow(t) \/ InsertNoPage(t) \/ InsertLost(t)
    PROVE  Good(n, c)'
<1> USE DEF TypeOK
<1>1. Linked(n, c)
  BY DEF Good
<1>2. pc[t] \in Walking => On(n, c, page[t])
  BY DEF Good, Visited
<1>3. CASE InsertBegin(t)
  <2>1. On(n, c, page'[t])
    BY <1>1, <1>3, FirstIsOn DEF InsertBegin
  <2> QED  BY <1>3, <2>1, WalkStep, SameRows DEF InsertBegin
<1>4. CASE InsertRefused(t)
  <2>1. pc'[t] = "idle"
    BY <1>4 DEF InsertRefused
  <2> QED  BY <1>4, <2>1, WalkStep, SameRows DEF InsertRefused, Walking
<1>5. CASE InsertNoPage(t)
  <2>1. pc'[t] = "threw"
    BY <1>5 DEF InsertNoPage
  <2> QED  BY <1>5, <2>1, WalkStep, SameRows DEF InsertNoPage, Walking
<1>6. CASE InsertLost(t)
  <2>1. pc[t] = "link" /\ next[page[t]] # None /\ page'[t] = next[page[t]]
    BY <1>6 DEF InsertLost, MayLink
  <2>2. On(n, c, page'[t])
    BY <1>1, <1>2, <2>1, NextIsOn DEF Walking
  <2> QED  BY <1>6, <2>2, WalkStep, SameRows DEF InsertLost
<1>7. CASE InsertHere(t) \/ NoRoom(t)
  <2>1. pc[t] = "look" /\ On(n, c, page[t])
    BY <1>2, <1>7 DEF InsertHere, NoRoom, Walking
  <2>2. RowsKept /\ \A p \in Pages \ {page[t]} : places'[p] = places[p]
    BY <1>7, AttemptKeeps
  <2>3. \A p \in Pages : ~On(n, c, p) => places'[p] = places[p]
    BY <2>1, <2>2
  <2>4. CASE InsertHere(t)
    <3>1. pc'[t] = "idle"
      BY <2>4 DEF InsertHere
    <3> QED  BY <2>2, <2>3, <2>4, <3>1, WalkStep DEF InsertHere, Walking
  <2>5. CASE InsertNext(t)
    <3>1. On(n, c, page'[t])
      BY <1>1, <2>1, <2>5, NextIsOn DEF InsertNext
    <3> QED  BY <2>2, <2>3, <2>5, <3>1, WalkStep DEF InsertNext
  <2>6. CASE InsertGrow(t)
    <3>1. On(n, c, page'[t])
      BY <2>1, <2>6 DEF InsertGrow
    <3> QED  BY <2>2, <2>3, <2>6, <3>1, WalkStep DEF InsertGrow
  <2>7. CASE InsertThrow(t)
    <3>1. pc'[t] = "threw"
      BY <2>7 DEF InsertThrow
    <3> QED  BY <2>2, <2>3, <2>7, <3>1, WalkStep DEF InsertThrow, Walking
  <2>8. InsertHere(t) \/ InsertNext(t) \/ InsertGrow(t) \/ InsertThrow(t) => Good(n, c)'
    BY <2>4, <2>5, <2>6, <2>7
  <2> QED
    BY <1>3, <1>4, <1>5, <1>6, <2>8
<1>8. InsertHere(t) \/ InsertNext(t) \/ InsertGrow(t) \/ InsertThrow(t) => InsertHere(t) \/ NoRoom(t)
  BY DEF InsertNext, InsertGrow, InsertThrow
<1> QED  BY <1>3, <1>4, <1>5, <1>6, <1>7, <1>8

(* A page that was made is not on the chain yet, and empty.                *)
LEMMA MakeKeeps ==
    ASSUME TypeOK, MakersOK, NEW n \in Nat \ {0}, NEW c \in Numbering(n), Good(n, c),
           NEW t \in Threads, InsertNewPage(t)
    PROVE  Good(n, c)'
<1>1. PICK p \in Pages \ (own \cup Others) :
        /\ own' = own \cup {p}
        /\ next' = [next EXCEPT ![p] = None]
        /\ places' = [places EXCEPT ![p] = <<>>]
        /\ mine' = [mine EXCEPT ![t] = p]
        /\ shows' = [shows EXCEPT ![t] = p]
  BY DEF InsertNewPage
<1>2. ~On(n, c, p) /\ p \in Pages /\ p # None /\ p \notin own
  BY <1>1, HeapAssumption DEF Good, Owned
<1>3. mine[t] = None /\ mine'[t] = p /\ \A u \in Threads \ {t} : mine'[u] = mine[u]
  <2>1. mine[t] = None
    BY DEF InsertNewPage, MakersOK
  <2>2. mine'[t] = p /\ \A u \in Threads \ {t} : mine'[u] = mine[u]
    BY <1>1 DEF TypeOK
  <2> QED  BY <2>1, <2>2
<1>4. \A i \in 1 .. n : c[i] \in Pages /\ c[i] # p
  BY <1>2 DEF On, Numbering
<1>5. Linked(n, c)'
  <2>1. \A i \in 1 .. n : next'[c[i]] = next[c[i]]
    BY <1>1, <1>4 DEF TypeOK
  <2> QED  BY <2>1 DEF Good, Linked
<1>6. Owned(n, c)'
  <2>1. ASSUME NEW o \in Pages
        PROVE  o \in own' <=> On(n, c, o) \/ \E u \in Threads : mine'[u] = o
    <3>1. o \in own <=> On(n, c, o) \/ \E u \in Threads : mine[u] = o
      BY DEF Good, Owned
    <3>2. CASE o = p
      BY <1>1, <1>3, <3>2
    <3>3. CASE o # p
      <4>1. \A u \in Threads : mine'[u] = o <=> mine[u] = o
        BY <1>3, <3>3, HeapAssumption
      <4> QED  BY <1>1, <3>1, <3>3, <4>1
    <3> QED  BY <3>2, <3>3
  <2>2. \A u \in Threads : ~On(n, c, mine'[u])
    BY <1>2, <1>3 DEF Good, Owned
  <2> QED  BY <2>1, <2>2 DEF Owned, On
<1>7. UNCHANGED <<page, scan, owed>> /\ pc'[t] = "link" /\ pc[t] = "new"
        /\ \A u \in Threads \ {t} : pc'[u] = pc[u]
  BY DEF InsertNewPage, TypeOK
<1>8. places'[p] = <<>> /\ places[p] = <<>> /\ \A o \in Pages \ {p} : places'[o] = places[o]
  BY <1>1, <1>2 DEF Good, Visited, TypeOK
<1>9. places' = places
  <2>1. places' \in [Pages -> Seq(Nat)] /\ places \in [Pages -> Seq(Nat)]
    BY <1>1 DEF TypeOK
  <2>2. \A o \in Pages : places'[o] = places[o]
    BY <1>8
  <2> QED  BY <2>1, <2>2
<1>10. Visited(n, c)'
  BY <1>7, <1>9 DEF Good, Visited, On, Walking
<1>11. Promised(n, c)'
  BY <1>7, <1>9, SameRows, SamePromises DEF Good
<1> QED  BY <1>5, <1>6, <1>10, <1>11 DEF Good

(* Linking gives the page behind the last one the next number.             *)
LEMMA LinkKeeps ==
    ASSUME TypeOK, MakersOK, NEW n \in Nat \ {0}, NEW c \in Numbering(n), Good(n, c),
           NEW t \in Threads, InsertLink(t)
    PROVE  \E m \in Nat \ {0} : \E d \in Numbering(m) : Good(m, d)'
<1>1. PICK x \in Pages : x = mine[t] /\ x = shows[t]
  BY DEF InsertLink, MakersOK, TypeOK
<1>2. pc[t] = "link" /\ next[page[t]] = None /\ next' = [next EXCEPT ![page[t]] = x]
  BY <1>1 DEF InsertLink, MayLink
<1>3. PICK i \in 1 .. n : c[i] = page[t]
  BY <1>2 DEF Good, Visited, On, Walking
<1>4. None \notin Pages /\ \A k \in 1 .. n : c[k] \in Pages
  BY HeapAssumption DEF Numbering
<1>5. i = n
  <2>1. ASSUME i < n PROVE FALSE
    <3>1. i + 1 \in 1 .. n /\ next[c[i]] = c[i + 1]
      BY <2>1 DEF Good, Linked
    <3> QED  BY <1>2, <1>3, <1>4, <3>1
  <2> QED  BY <2>1
<1>6. ~On(n, c, x) /\ next[x] = None
  BY <1>1, <1>4 DEF Good, Owned, MakersOK
<1>7. PICK m \in Nat \ {0} : m = n + 1
  OBVIOUS
<1>8. PICK d : d = [k \in 1 .. m |-> IF k <= n THEN c[k] ELSE x]
  OBVIOUS
<1>9. d \in Numbering(m) /\ d[m] = x /\ \A k \in 1 .. n : k \in 1 .. m /\ d[k] = c[k]
  BY <1>4, <1>7, <1>8 DEF Numbering
<1>10. \A p : On(m, d, p) <=> On(n, c, p) \/ p = x
  <2>1. \A k \in 1 .. m : k \in 1 .. n \/ k = m
    BY <1>7
  <2>2. m \in 1 .. m
    OBVIOUS
  <2> QED  BY <1>9, <2>1, <2>2 DEF On
<1>11. Linked(m, d)'
  <2>1. d[1] = First
    BY <1>9 DEF Good, Linked
  <2>2. ASSUME NEW k \in 1 .. m, NEW l \in 1 .. m, d[k] = d[l] PROVE k = l
    <3>1. CASE k \in 1 .. n /\ l \in 1 .. n
      BY <1>9, <2>2, <3>1 DEF Good, Linked
    <3>2. CASE k = m /\ l = m
      BY <3>2
    <3>3. CASE k \in 1 .. n /\ l = m
      BY <1>6, <1>9, <2>2, <3>3 DEF On
    <3>4. CASE k = m /\ l \in 1 .. n
      BY <1>6, <1>9, <2>2, <3>4 DEF On
    <3> QED  BY <1>7, <3>1, <3>2, <3>3, <3>4
  <2>3. ASSUME NEW k \in 1 .. m PROVE next'[d[k]] = IF k < m THEN d[k + 1] ELSE None
    <3>1. CASE k = m
      <4>1. x # page[t]
        BY <1>3, <1>6 DEF On
      <4> QED  BY <1>2, <1>6, <1>9, <3>1, <4>1 DEF TypeOK
    <3>2. CASE k = n
      <4>1. d[k] = page[t] /\ d[k + 1] = x /\ k < m
        BY <1>3, <1>5, <1>7, <1>9, <3>2
      <4>2. page[t] \in Pages
        BY <1>3, <1>4
      <4>3. next'[page[t]] = x
        BY <1>2, <4>2 DEF TypeOK
      <4> QED  BY <4>1, <4>3
    <3>3. CASE k < n
      <4>1. k \in 1 .. n /\ k + 1 \in 1 .. n /\ k < m
        BY <1>7, <3>3
      <4>2. d[k] = c[k] /\ d[k + 1] = c[k + 1]
        BY <1>9, <4>1
      <4>3. c[k] # page[t]
        BY <1>3, <1>5, <3>3, <4>1 DEF Good, Linked
      <4>4. next'[c[k]] = next[c[k]]
        BY <1>2, <1>4, <4>1, <4>3 DEF TypeOK
      <4>5. next[c[k]] = c[k + 1]
        BY <3>3, <4>1 DEF Good, Linked
      <4> QED  BY <4>1, <4>2, <4>4, <4>5
    <3> QED  BY <1>7, <3>1, <3>2, <3>3
  <2> QED  BY <2>1, <2>2, <2>3 DEF Linked
<1>12. mine'[t] = None /\ own' = own /\ \A u \in Threads \ {t} : mine'[u] = mine[u] /\ mine[u] # x
  BY <1>1, <1>4 DEF InsertLink, MakersOK, TypeOK
<1>13. Owned(m, d)'
  <2>1. ASSUME NEW o \in Pages
        PROVE  o \in own' <=> On(m, d, o) \/ \E u \in Threads : mine'[u] = o
    <3>1. o \in own <=> On(n, c, o) \/ \E u \in Threads : mine[u] = o
      BY DEF Good, Owned
    <3>2. CASE o = x
      BY <1>1, <1>10, <1>12, <3>1, <3>2
    <3>3. CASE o # x
      <4>1. \A u \in Threads : mine'[u] = o <=> mine[u] = o
        BY <1>1, <1>4, <1>12, <3>3
      <4> QED  BY <1>10, <1>12, <3>1, <3>3, <4>1
    <3> QED  BY <3>2, <3>3
  <2>2. \A u \in Threads : ~On(m, d, mine'[u])
    <3>1. ~On(n, c, None)
      BY <1>4 DEF On
    <3> QED  BY <1>4, <1>10, <1>12, <3>1 DEF Good, Owned
  <2> QED  BY <2>1, <2>2 DEF Owned, On
<1>14. UNCHANGED <<places, scan, owed>> /\ page'[t] = x /\ pc'[t] = "look"
         /\ \A u \in Threads \ {t} : pc'[u] = pc[u] /\ page'[u] = page[u]
  BY <1>1 DEF InsertLink, TypeOK
<1>15. Visited(m, d)'
  <2>1. \A u \in Threads : pc'[u] \in Walking => On(m, d, page'[u])
    BY <1>10, <1>14 DEF Good, Visited
  <2>2. \A s \in Scanners : scan'[s].at \in {"rows", "turn", "ended"} => On(m, d, scan'[s].page)
    BY <1>10, <1>14 DEF Good, Visited
  <2>3. \A p \in Pages : ~On(m, d, p) => places'[p] = <<>>
    BY <1>10, <1>14 DEF Good, Visited
  <2> QED  BY <2>1, <2>2, <2>3 DEF Visited, On
<1>16. Promised(m, d)'
  <2>1. Promised(n, c)'
    BY <1>14, SameRows, SamePromises DEF Good
  <2>2. ASSUME NEW s \in Scanners, NEW r, AheadOf(n, c, s, r)' PROVE AheadOf(m, d, s, r)'
    <3>1. PICK k \in 1 .. n, j \in 1 .. n :
            /\ c[k] = scan'[s].page /\ c[j] = r[1] /\ k <= j
            /\ k = j => scan'[s].at = "rows" /\ scan'[s].slot <= r[2]
      BY <2>2 DEF AheadOf
    <3> QED  BY <1>9, <3>1 DEF AheadOf
  <2> QED  BY <2>1, <2>2 DEF Promised
<1>17. Good(m, d)'
  BY <1>11, <1>13, <1>15, <1>16 DEF Good
<1> QED  BY <1>9, <1>17

(* A page that is given back is not on the chain, and nobody has it        *)
(* pinned, so the pool deletes it.                                         *)
LEMMA DiscardKeeps ==
    ASSUME TypeOK, MakersOK, NEW n \in Nat \ {0}, NEW c \in Numbering(n), Good(n, c),
           NEW t \in Threads, InsertDiscard(t)
    PROVE  Good(n, c)'
<1>1. PICK x \in Pages : x = mine[t] /\ x = shows[t]
  BY DEF InsertDiscard, MakersOK, TypeOK
<1>2. ~On(n, c, x)
  BY <1>1 DEF Good, Owned
<1>3. x \notin Pinned
  BY <1>2 DEF Pinned, Good, Visited, Walking
<1>4. own' = own \ {x}
  BY <1>1, <1>3 DEF InsertDiscard, Discarded
<1>5. mine'[t] = None /\ \A u \in Threads \ {t} : mine'[u] = mine[u] /\ mine[u] # x
  BY <1>1, HeapAssumption DEF InsertDiscard, MakersOK, TypeOK
<1>6. None \notin Pages
  BY HeapAssumption
<1>7. Linked(n, c)'
  BY DEF Good, Linked, InsertDiscard
<1>8. Owned(n, c)'
  <2>1. ASSUME NEW o \in Pages
        PROVE  o \in own' <=> On(n, c, o) \/ \E u \in Threads : mine'[u] = o
    <3>1. o \in own <=> On(n, c, o) \/ \E u \in Threads : mine[u] = o
      BY DEF Good, Owned
    <3>2. CASE o = x
      <4>1. \A u \in Threads : mine'[u] # o
        BY <1>5, <1>6, <3>2
      <4> QED  BY <1>2, <1>4, <3>2, <4>1
    <3>3. CASE o # x
      <4>1. \A u \in Threads : mine'[u] = o <=> mine[u] = o
        BY <1>1, <1>5, <1>6, <3>3
      <4> QED  BY <1>4, <3>1, <3>3, <4>1
    <3> QED  BY <3>2, <3>3
  <2>2. \A u \in Threads : ~On(n, c, mine'[u])
    <3>1. ~On(n, c, None)
      BY <1>6 DEF On, Numbering
    <3> QED  BY <1>5, <3>1 DEF Good, Owned
  <2> QED  BY <2>1, <2>2 DEF Owned, On
<1>9. UNCHANGED <<places, page, scan, owed>> /\ pc[t] = "discard" /\ pc'[t] = "look"
        /\ \A u \in Threads \ {t} : pc'[u] = pc[u]
  BY DEF InsertDiscard, TypeOK
<1>10. Visited(n, c)'
  BY <1>9 DEF Good, Visited, On, Walking
<1>11. Promised(n, c)'
  BY <1>9, SameRows, SamePromises DEF Good
<1> QED  BY <1>7, <1>8, <1>10, <1>11 DEF Good

(* A deleted tuple is not promised any more; the others stay.              *)
LEMMA DeleteKeeps ==
    ASSUME TypeOK, NEW n \in Nat \ {0}, NEW c \in Numbering(n), Good(n, c),
           NEW t \in Threads, NEW r \in Rids, DeleteTuple(t, r)
    PROVE  Good(n, c)'
<1>1. UNCHANGED <<own, next, mine, pc, page, scan>>
        /\ \A s \in Scanners : owed'[s] = owed[s] \ {r}
  BY DEF DeleteTuple, threadVars
<1>2. Linked(n, c)' /\ Owned(n, c)'
  BY <1>1, SameChain DEF Good
<1>3. \A p \in Pages : places[p] = <<>> => places'[p] = <<>>
  BY DeleteKeepsOthers
<1>4. Visited(n, c)'
  BY <1>1, <1>3 DEF Good, Visited, On
<1>5. \A q \in Rids : q # r => (q \in Rids)'
  <2> SUFFICES ASSUME NEW q \in Rids, q # r PROVE (q \in Rids)'
    OBVIOUS
  <2>1. q \in Rid /\ q[1] \in Pages /\ q[2] \in Slots /\ q[2] \in Occupied(q[1]) /\ q = <<q[1], q[2]>>
    BY DEF Rids, Rid
  <2>2. (q[2] \in Occupied(q[1]))'
    BY <2>1, DeleteKeepsOthers
  <2> QED  BY <2>1, <2>2 DEF Rids
<1>6. Promised(n, c)'
  <2>1. ASSUME NEW s \in Scanners, scan'[s].at \in {"rows", "turn"}, NEW q \in owed'[s]
        PROVE  (q \in Rids)' /\ AheadOf(n, c, s, q)'
    <3>1. q \in owed[s] /\ q # r /\ scan[s].at \in {"rows", "turn"}
      BY <1>1, <2>1
    <3>2. q \in Rids /\ AheadOf(n, c, s, q)
      BY <3>1 DEF Good, Promised
    <3> QED  BY <1>1, <1>5, <3>1, <3>2 DEF AheadOf
  <2>2. ASSUME NEW s \in Scanners, scan'[s].at = "ended" PROVE owed'[s] = {}
    BY <1>1, <2>2 DEF Good, Promised
  <2> QED  BY <2>1, <2>2 DEF Promised
<1> QED  BY <1>2, <1>4, <1>6 DEF Good

(* A scan that moves, or is given a debt, and nothing else.                *)
LEMMA ScanMoves ==
    ASSUME TypeOK, NEW n \in Nat \ {0}, NEW c \in Numbering(n), Good(n, c), NEW s \in Scanners,
           UNCHANGED <<own, next, places, threadVars>>,
           \A u \in Scanners \ {s} : scan'[u] = scan[u] /\ owed'[u] = owed[u],
           scan'[s].at \in {"rows", "turn", "ended"} => On(n, c, scan'[s].page),
           scan'[s].at \in {"rows", "turn"} =>
              \A r \in owed'[s] : r \in Rids /\ AheadOf(n, c, s, r)',
           scan'[s].at = "ended" => owed'[s] = {}
    PROVE  Good(n, c)'
<1>1. Linked(n, c)' /\ Owned(n, c)'
  BY SameChain DEF Good, threadVars
<1>2. Visited(n, c)'
  BY DEF Good, Visited, On, threadVars
<1>3. (Rids = Rids')
  BY DEF Rids, Occupied
<1>4. Promised(n, c)'
  <2>1. ASSUME NEW u \in Scanners \ {s}, NEW r, AheadOf(n, c, u, r) PROVE AheadOf(n, c, u, r)'
    BY <2>1 DEF AheadOf
  <2>2. ASSUME NEW u \in Scanners, scan'[u].at \in {"rows", "turn"}, NEW r \in owed'[u]
        PROVE  (r \in Rids)' /\ AheadOf(n, c, u, r)'
    <3>1. CASE u = s
      BY <1>3, <2>2, <3>1
    <3>2. CASE u # s
      BY <1>3, <2>1, <2>2, <3>2 DEF Good, Promised
    <3> QED  BY <3>1, <3>2
  <2>3. ASSUME NEW u \in Scanners, scan'[u].at = "ended" PROVE owed'[u] = {}
    BY <2>3 DEF Good, Promised
  <2> QED  BY <2>2, <2>3 DEF Promised
<1> QED  BY <1>1, <1>2, <1>4 DEF Good

(* A scan begins on the first page, and every tuple is ahead of it.        *)
LEMMA BeginKeeps ==
    ASSUME TypeOK, NEW n \in Nat \ {0}, NEW c \in Numbering(n), Good(n, c),
           NEW s \in Scanners, ScanBegin(s)
    PROVE  Good(n, c)'
<1>1. /\ scan'[s] = [page |-> First, slot |-> 1, at |-> "rows"] /\ owed'[s] = Rids
      /\ \A u \in Scanners \ {s} : scan'[u] = scan[u] /\ owed'[u] = owed[u]
  BY DEF ScanBegin, TypeOK
<1>2. On(n, c, First) /\ c[1] = First
  BY FirstIsOn DEF Good, Linked
<1>3. ASSUME NEW r \in Rids PROVE AheadOf(n, c, s, r)'
  <2>1. r[1] \in Pages /\ r[2] \in Slots /\ r[2] \in Occupied(r[1])
    BY DEF Rids, Rid
  <2>2. places[r[1]] # <<>>
    BY <2>1 DEF Occupied, Range
  <2>3. PICK j \in 1 .. n : c[j] = r[1]
    BY <2>1, <2>2 DEF Good, Visited, On
  <2>4. 1 <= r[2] /\ 1 \in 1 .. n /\ 1 <= j
    BY <2>1, HeapAssumption DEF Slots
  <2> QED  BY <1>1, <1>2, <2>3, <2>4 DEF AheadOf
<1>4. UNCHANGED <<own, next, places, threadVars>>
  BY DEF ScanBegin
<1> QED  BY <1>1, <1>2, <1>3, <1>4, ScanMoves

(* Where a scan and what it owes are.                                      *)
LEMMA DebtAhead ==
    ASSUME TypeOK, NEW n \in Nat \ {0}, NEW c \in Numbering(n), Good(n, c), NEW s \in Scanners,
           scan[s].at \in {"rows", "turn"}
    PROVE  \E k \in 1 .. n :
              /\ c[k] = scan[s].page
              /\ \A r \in owed[s] :
                    /\ r \in Rids
                    /\ \E j \in 1 .. n :
                          /\ c[j] = r[1] /\ k <= j
                          /\ k = j => scan[s].at = "rows" /\ scan[s].slot <= r[2]
<1>1. PICK k \in 1 .. n : c[k] = scan[s].page
  BY DEF Good, Visited, On
<1>2. ASSUME NEW r \in owed[s]
      PROVE  /\ r \in Rids
             /\ \E j \in 1 .. n :
                   /\ c[j] = r[1] /\ k <= j
                   /\ k = j => scan[s].at = "rows" /\ scan[s].slot <= r[2]
  <2>1. r \in Rids /\ AheadOf(n, c, s, r)
    BY DEF Good, Promised
  <2>2. PICK l \in 1 .. n, j \in 1 .. n :
          /\ c[l] = scan[s].page /\ c[j] = r[1] /\ l <= j
          /\ l = j => scan[s].at = "rows" /\ scan[s].slot <= r[2]
    BY <2>1 DEF AheadOf
  <2>3. l = k
    BY <1>1, <2>2 DEF Good, Linked
  <2> QED  BY <2>1, <2>2, <2>3
<1> QED  BY <1>1, <1>2

(* A scan returns the first tuple ahead of it on its page.                 *)
LEMMA RowKeeps ==
    ASSUME TypeOK, NEW n \in Nat \ {0}, NEW c \in Numbering(n), Good(n, c),
           NEW s \in Scanners, ScanRow(s)
    PROVE  Good(n, c)'
<1>1. scan[s].at = "rows" /\ Ahead(s) # {}
  BY DEF ScanRow
<1>2. Ahead(s) \in SUBSET Nat
  BY HeapAssumption DEF Ahead, Occupied, Slots
<1>3. PICK i \in Nat : i = Min(Ahead(s)) /\ \A x \in Ahead(s) : i <= x
  BY <1>1, <1>2, Minimum
<1>4. /\ scan'[s].page = scan[s].page /\ scan'[s].at = "rows" /\ scan'[s].slot = i + 1
      /\ owed'[s] = owed[s] \ {<<scan[s].page, i>>}
      /\ \A u \in Scanners \ {s} : scan'[u] = scan[u] /\ owed'[u] = owed[u]
  <2>1. /\ scan' = [scan EXCEPT ![s].slot = i + 1]
        /\ owed' = [owed EXCEPT ![s] = @ \ {<<scan[s].page, i>>}]
    BY <1>3 DEF ScanRow
  <2> QED  BY <1>1, <2>1 DEF TypeOK
<1>5. PICK k \in 1 .. n :
        /\ c[k] = scan[s].page
        /\ \A r \in owed[s] :
              /\ r \in Rids
              /\ \E j \in 1 .. n : /\ c[j] = r[1] /\ k <= j
                                   /\ k = j => scan[s].slot <= r[2]
  BY <1>1, DebtAhead
<1>6. ASSUME NEW r \in owed'[s] PROVE r \in Rids /\ AheadOf(n, c, s, r)'
  <2>1. r \in owed[s] /\ r # <<scan[s].page, i>>
    BY <1>4
  <2>2. r \in Rids /\ r[1] \in Pages /\ r[2] \in Slots /\ r[2] \in Occupied(r[1]) /\ r = <<r[1], r[2]>>
    BY <1>5, <2>1 DEF Rids, Rid
  <2>3. PICK j \in 1 .. n : /\ c[j] = r[1] /\ k <= j
                            /\ k = j => scan[s].slot <= r[2]
    BY <1>5, <2>1
  <2>4. r[2] \in Nat
    BY <2>2, HeapAssumption DEF Slots
  <2>5. ASSUME k = j PROVE i + 1 <= r[2]
    <3>1. r[1] = scan[s].page /\ scan[s].slot <= r[2]
      BY <1>5, <2>3, <2>5
    <3>2. r[2] \in Ahead(s)
      BY <2>2, <3>1 DEF Ahead
    <3>3. r[2] # i
      BY <2>1, <2>2, <3>1
    <3> QED  BY <1>3, <2>4, <3>2, <3>3
  <2> QED  BY <1>4, <1>5, <2>2, <2>3, <2>5 DEF AheadOf
<1>7. UNCHANGED <<own, next, places, threadVars>>
  BY DEF ScanRow
<1>8. On(n, c, scan'[s].page)
  BY <1>4, <1>5 DEF On
<1> QED  BY <1>4, <1>6, <1>7, <1>8, ScanMoves

(* A scan leaves a page when nothing on it is ahead, goes to the page      *)
(* behind it, and ends when there is none.                                 *)
LEMMA TurnKeeps ==
    ASSUME TypeOK, NEW n \in Nat \ {0}, NEW c \in Numbering(n), Good(n, c), NEW s \in Scanners,
           ScanTurn(s) \/ ScanNextPage(s) \/ ScanRefused(s) \/ ScanEnd(s)
    PROVE  Good(n, c)'
<1>1. /\ UNCHANGED <<own, next, places, threadVars, owed>>
      /\ scan[s].at \in {"rows", "turn"}
  BY DEF ScanTurn, ScanNextPage, ScanRefused, ScanEnd
<1>2. PICK k \in 1 .. n :
        /\ c[k] = scan[s].page
        /\ \A r \in owed[s] :
              /\ r \in Rids
              /\ \E j \in 1 .. n : /\ c[j] = r[1] /\ k <= j
                                   /\ k = j => scan[s].at = "rows" /\ scan[s].slot <= r[2]
  BY <1>1, DebtAhead
<1>3. None \notin Pages /\ \A i \in 1 .. n : c[i] \in Pages
  BY HeapAssumption DEF Numbering
<1>4. next[scan[s].page] = IF k < n THEN c[k + 1] ELSE None
  BY <1>2 DEF Good, Linked
<1>5. CASE ScanTurn(s)
  <2>1. /\ scan[s].at = "rows" /\ Ahead(s) = {}
        /\ scan'[s].page = scan[s].page /\ scan'[s].at = "turn"
        /\ \A u \in Scanners \ {s} : scan'[u] = scan[u]
    BY <1>5 DEF ScanTurn, TypeOK
  <2>2. ASSUME NEW r \in owed[s] PROVE r \in Rids /\ AheadOf(n, c, s, r)'
    <3>1. r \in Rids /\ r[2] \in Occupied(r[1])
      BY <1>2 DEF Rids
    <3>2. PICK j \in 1 .. n : /\ c[j] = r[1] /\ k <= j
                              /\ k = j => scan[s].slot <= r[2]
      BY <1>2
    <3>3. k # j
      BY <1>2, <2>1, <3>1, <3>2 DEF Ahead
    <3> QED  BY <1>2, <2>1, <3>1, <3>2, <3>3 DEF AheadOf
  <2>3. On(n, c, scan'[s].page)
    BY <1>2, <2>1 DEF On
  <2> QED  BY <1>1, <2>1, <2>2, <2>3, ScanMoves
<1>6. CASE ScanNextPage(s)
  <2>1. /\ scan[s].at = "turn" /\ next[scan[s].page] # None
        /\ scan'[s] = [page |-> next[scan[s].page], slot |-> 1, at |-> "rows"]
        /\ \A u \in Scanners \ {s} : scan'[u] = scan[u]
    BY <1>6 DEF ScanNextPage, TypeOK
  <2>2. k < n /\ k + 1 \in 1 .. n /\ scan'[s].page = c[k + 1]
    BY <1>4, <2>1
  <2>3. ASSUME NEW r \in owed[s] PROVE r \in Rids /\ AheadOf(n, c, s, r)'
    <3>1. r \in Rids /\ r[2] \in Slots
      BY <1>2 DEF Rids, Rid
    <3>2. PICK j \in 1 .. n : c[j] = r[1] /\ k <= j /\ k # j
      BY <1>2, <2>1
    <3>3. k + 1 <= j /\ 1 <= r[2]
      BY <3>1, <3>2, HeapAssumption DEF Slots
    <3> QED  BY <2>1, <2>2, <3>1, <3>2, <3>3 DEF AheadOf
  <2>4. On(n, c, scan'[s].page)
    BY <2>2 DEF On
  <2> QED  BY <1>1, <2>1, <2>3, <2>4, ScanMoves
<1>7. CASE ScanRefused(s)
  <2>1. scan'[s].at = "refused" /\ \A u \in Scanners \ {s} : scan'[u] = scan[u]
    BY <1>7 DEF ScanRefused, TypeOK
  <2> QED  BY <1>1, <2>1, ScanMoves
<1>8. CASE ScanEnd(s)
  <2>1. /\ scan[s].at = "turn" /\ next[scan[s].page] = None
        /\ scan'[s].page = scan[s].page /\ scan'[s].at = "ended"
        /\ \A u \in Scanners \ {s} : scan'[u] = scan[u]
    BY <1>8 DEF ScanEnd, TypeOK
  <2>2. k = n
    <3>1. ASSUME k < n PROVE FALSE
      <4>1. k + 1 \in 1 .. n
        BY <3>1
      <4> QED  BY <1>3, <1>4, <2>1, <3>1, <4>1
    <3> QED  BY <3>1
  <2>3. owed[s] = {}
    BY <1>2, <2>1, <2>2
  <2>4. On(n, c, scan'[s].page)
    BY <1>2, <2>1 DEF On
  <2> QED  BY <1>1, <2>1, <2>3, <2>4, ScanMoves
<1> QED  BY <1>5, <1>6, <1>7, <1>8

-----------------------------------------------------------------------------
(* The invariant holds at the start, when the first page is the chain ...  *)
LEMMA InitInv ==
    ASSUME Init
    PROVE  Inv
<1>1. First \in Pages \ Others /\ None \notin Pages
  BY HeapAssumption
<1>2. TypeOK
  <2>1. places \in [Pages -> Seq(Nat)]
    BY DEF Init
  <2>2. scan \in [Scanners -> [page : Pages \cup {None}, slot : Nat, at : ScanPlaces]]
    BY DEF Init, NoScan, ScanPlaces
  <2> QED  BY <1>1, <2>1, <2>2 DEF Init, TypeOK, Walking
<1>3. MakersOK
  BY DEF Init, MakersOK
<1>4. PICK c : c = [i \in 1 .. 1 |-> First]
  OBVIOUS
<1>5. c \in Numbering(1) /\ c[1] = First /\ \A i \in 1 .. 1 : i = 1
  BY <1>1, <1>4 DEF Numbering
<1>6. \A p : On(1, c, p) <=> p = First
  BY <1>5 DEF On
<1>7. Linked(1, c)
  BY <1>1, <1>5 DEF Init, Linked
<1>8. Owned(1, c)
  BY <1>1, <1>6 DEF Init, Owned
<1>9. Visited(1, c)
  BY <1>6 DEF Init, Visited, NoScan, Walking
<1>10. Promised(1, c)
  BY DEF Init, Promised, NoScan
<1>11. Good(1, c)
  BY <1>7, <1>8, <1>9, <1>10 DEF Good
<1> QED  BY <1>2, <1>3, <1>5, <1>11 DEF Inv

(* ... and every step keeps it.                                            *)
LEMMA StepInv ==
    ASSUME Inv, [Next]_vars
    PROVE  Inv'
<1>1. TypeOK /\ MakersOK
  BY DEF Inv
<1>2. PICK n \in Nat \ {0} : \E c \in Numbering(n) : Good(n, c)
  BY DEF Inv
<1>3. PICK c \in Numbering(n) : Good(n, c)
  BY <1>2
<1>4. OnPages
  BY <1>3, StandOnPages DEF Good
<1>5. TypeOK' /\ MakersOK'
  BY <1>1, <1>3, <1>4, TypeStep, MakersStep
<1>6. CASE UNCHANGED vars
  <2>1. UNCHANGED <<own, next, places, mine, pc, page, scan, owed>>
    BY <1>6 DEF vars, threadVars
  <2>2. Linked(n, c)' /\ Owned(n, c)'
    BY <1>3, <2>1, SameChain DEF Good
  <2>3. Visited(n, c)'
    BY <1>3, <2>1 DEF Good, Visited, On
  <2>4. Promised(n, c)'
    BY <1>1, <1>3, <2>1, SameRows, SamePromises DEF Good
  <2>5. Good(n, c)'
    BY <2>2, <2>3, <2>4 DEF Good
  <2> QED  BY <1>5, <2>5 DEF Inv
<1>7. ASSUME NEW t \in Threads, InsertLink(t) PROVE Inv'
  BY <1>1, <1>3, <1>5, <1>7, LinkKeeps DEF Inv
<1>8. ASSUME Good(n, c)' PROVE Inv'
  BY <1>5, <1>8 DEF Inv
<1>9. ASSUME NEW t \in Threads, InsertBegin(t) \/ InsertRefused(t) PROVE Inv'
  BY <1>1, <1>3, <1>4, <1>8, <1>9, WalksKeep
<1>10. ASSUME NEW t \in Threads, InsertStep(t) PROVE Inv'
  BY <1>1, <1>3, <1>4, <1>7, <1>8, <1>10, WalksKeep, MakeKeeps, DiscardKeeps DEF InsertStep
<1>11. ASSUME NEW t \in Threads, NEW r \in Rids, DeleteTuple(t, r) PROVE Inv'
  BY <1>1, <1>3, <1>8, <1>11, DeleteKeeps
<1>12. ASSUME NEW s \in Scanners, ScanBegin(s) PROVE Inv'
  BY <1>1, <1>3, <1>8, <1>12, BeginKeeps
<1>13. ASSUME NEW s \in Scanners, ScanStep(s) PROVE Inv'
  BY <1>1, <1>3, <1>8, <1>13, RowKeeps, TurnKeeps DEF ScanStep
<1> QED
  BY <1>6, <1>9, <1>10, <1>11, <1>12, <1>13 DEF Next

(* The invariant holds in every state.                                     *)
LEMMA HeapInvariant == Spec => []Inv
BY InitInv, StepInv, PTL DEF Spec

(* A chain that is numbered is intact.                                     *)
LEMMA ChainFromInv == Inv => ChainIntact
<1> SUFFICES ASSUME Inv PROVE ChainIntact
  OBVIOUS
<1>1. PICK n \in Nat \ {0} : \E c \in Numbering(n) : Good(n, c)
  BY DEF Inv
<1>2. PICK c \in Numbering(n) : Good(n, c)
  BY <1>1
<1>3. own \in SUBSET Pages /\ MakersOK
  BY DEF Inv, TypeOK
<1>4. ASSUME NEW p \in own, next[p] # None
      PROVE  \E i \in 1 .. n : c[i] = p /\ i + 1 \in 1 .. n /\ next[p] = c[i + 1]
  <2>1. \A t \in Threads : mine[t] # p
    BY <1>3, <1>4, HeapAssumption DEF MakersOK
  <2>2. PICK i \in 1 .. n : c[i] = p
    BY <1>2, <1>3, <2>1 DEF Good, Owned, On
  <2>3. i < n /\ next[p] = c[i + 1]
    BY <1>2, <1>4, <2>2 DEF Good, Linked
  <2> QED  BY <2>2, <2>3
<1>5. \A i, j \in 1 .. n : c[i] = c[j] => i = j
  BY <1>2 DEF Good, Linked
<1>6. \A i \in 1 .. n : c[i] \in own
  BY <1>2 DEF Good, Owned, On, Numbering
<1>7. ASSUME NEW p \in own, next[p] # None
      PROVE  next[p] \in own \ {First} /\ \A q \in own : next[q] = next[p] => q = p
  <2>1. PICK i \in 1 .. n : c[i] = p /\ i + 1 \in 1 .. n /\ next[p] = c[i + 1]
    BY <1>4, <1>7
  <2>2. next[p] \in own
    BY <1>6, <2>1
  <2>3. next[p] # First
    <3>1. c[1] = First /\ 1 \in 1 .. n /\ i + 1 # 1
      BY <1>2 DEF Good, Linked
    <3> QED  BY <1>5, <2>1, <3>1
  <2>4. ASSUME NEW q \in own, next[q] = next[p] PROVE q = p
    <3>1. PICK j \in 1 .. n : c[j] = q /\ j + 1 \in 1 .. n /\ next[q] = c[j + 1]
      BY <1>4, <1>7, <2>4
    <3>2. i + 1 = j + 1
      BY <1>5, <2>1, <2>4, <3>1
    <3> QED  BY <2>1, <3>1, <3>2
  <2> QED  BY <2>2, <2>3, <2>4
<1> QED  BY <1>7 DEF ChainIntact

(* The pages of a heap stay one chain however threads insert, grow the     *)
(* chain and delete at the same time (TableHeap::insert_tuple).            *)
THEOREM ChainKept == Spec => []ChainIntact
BY HeapInvariant, ChainFromInv, PTL

(* A scan that ends has returned every tuple that was there when it began  *)
(* and that nobody has deleted (TableHeap::Scan::next).                    *)
THEOREM ScansAreComplete == Spec => []ScanComplete
<1>1. Inv => ScanComplete
  BY DEF Inv, Good, Promised, ScanComplete
<1> QED  BY <1>1, HeapInvariant, PTL

(* Nth counts the pages as they are numbered: one function does both, and  *)
(* the first distance at which Nth differs from it would be no exception.  *)
LEMMA NthIsNumber ==
    ASSUME NEW n \in Nat \ {0}, NEW c \in Numbering(n), Linked(n, c)
    PROVE  \A k \in 0 .. Cardinality(Pages) : Nth[k] = IF k < n THEN c[k + 1] ELSE None
<1> DEFINE N == Cardinality(Pages)
           f == [k \in 0 .. N |-> IF k < n THEN c[k + 1] ELSE None]
<1>1. N \in Nat /\ None \notin Pages /\ \A i \in 1 .. n : c[i] \in Pages
  BY HeapAssumption, FS_CardinalityType DEF Numbering
<1>2. \A k \in 0 .. N : k # 0 => k - 1 \in 0 .. N /\ k - 1 < k
  BY <1>1
<1>3. \A k \in 0 .. N : f[k] = IF k = 0 THEN First
                               ELSE IF f[k - 1] = None THEN None ELSE next[f[k - 1]]
  <2> TAKE k \in 0 .. N
  <2>1. CASE k = 0
    BY <2>1 DEF Linked
  <2>2. CASE k # 0 /\ k - 1 < n
    <3>1. k \in 1 .. n
      BY <1>1, <2>2
    <3>2. f[k - 1] = c[k]
      BY <1>2, <2>2
    <3>3. next[c[k]] = IF k < n THEN c[k + 1] ELSE None
      BY <3>1 DEF Linked
    <3> QED  BY <1>1, <2>2, <3>1, <3>2, <3>3
  <2>3. CASE k # 0 /\ ~(k - 1 < n)
    <3>1. f[k - 1] = None
      BY <1>2, <2>3
    <3>2. f[k] = None
      BY <2>3
    <3> QED  BY <2>3, <3>1, <3>2
  <2> QED  BY <2>1, <2>2, <2>3
<1>4. \E g : g = [k \in 0 .. N |-> IF k = 0 THEN First
                                   ELSE IF g[k - 1] = None THEN None ELSE next[g[k - 1]]]
  <2>1. f = [k \in 0 .. N |-> IF k = 0 THEN First
                              ELSE IF f[k - 1] = None THEN None ELSE next[f[k - 1]]]
    BY <1>3
  <2> HIDE DEF f
  <2> QED  BY <2>1
<1>5. Nth = [k \in 0 .. N |-> IF k = 0 THEN First
                              ELSE IF Nth[k - 1] = None THEN None ELSE next[Nth[k - 1]]]
  BY <1>4, Zenon DEF Nth
<1>6. \A k \in 0 .. N : Nth[k] = IF k = 0 THEN First
                                 ELSE IF Nth[k - 1] = None THEN None ELSE next[Nth[k - 1]]
  <2> PICK g : g = Nth
    OBVIOUS
  <2>1. g = [k \in 0 .. N |-> IF k = 0 THEN First
                              ELSE IF g[k - 1] = None THEN None ELSE next[g[k - 1]]]
    BY <1>5
  <2>2. \A k \in 0 .. N : g[k] = IF k = 0 THEN First
                                 ELSE IF g[k - 1] = None THEN None ELSE next[g[k - 1]]
    BY <2>1
  <2> QED  BY <2>2
<1> HIDE DEF f
<1> DEFINE Odd == {k \in 0 .. N : Nth[k] # f[k]}
<1>7. Odd = {}
  <2>1. ASSUME Odd # {} PROVE FALSE
    <3>1. Odd \in SUBSET Nat
      BY <1>1
    <3>2. PICK k \in Odd : \A l \in Odd : k <= l
      BY <2>1, <3>1, LeastNatural
    <3>3. k \in 0 .. N /\ Nth[k] # f[k]
      BY <3>2
    <3>4. CASE k = 0
      BY <1>3, <1>6, <3>3, <3>4
    <3>5. CASE k # 0
      <4>1. k - 1 \in 0 .. N /\ k - 1 < k
        BY <1>2, <3>3, <3>5
      <4>2. Nth[k - 1] = f[k - 1]
        BY <3>2, <4>1
      <4> QED  BY <1>3, <1>6, <3>3, <3>5, <4>2
    <3> QED  BY <3>4, <3>5
  <2> QED  BY <2>1
<1>8. \A k \in 0 .. N : Nth[k] = f[k]
  BY <1>7
<1> QED  BY <1>8 DEF f

(* A page that is allocated has a number, or a thread has made it.         *)
LEMMA PagesFromInv == Inv => NoPageLeaked
<1> SUFFICES ASSUME Inv PROVE NoPageLeaked
  OBVIOUS
<1> DEFINE N == Cardinality(Pages)
<1>1. PICK n \in Nat \ {0} : \E c \in Numbering(n) : Good(n, c)
  BY DEF Inv
<1>2. PICK c \in Numbering(n) : Good(n, c)
  BY <1>1
<1>3. \A k \in 0 .. N : Nth[k] = IF k < n THEN c[k + 1] ELSE None
  BY <1>2, NthIsNumber DEF Good
<1>4. IsFiniteSet(Pages) /\ N \in Nat /\ None \notin Pages
  BY HeapAssumption, FS_CardinalityType
<1>5. n <= N
  <2>1. c \in Injection(1 .. n, Pages)
    BY <1>2 DEF Good, Linked, Numbering, Injection, IsInjective
  <2>2. Cardinality(1 .. n) <= N
    BY <1>4, <2>1, FS_Injection
  <2>3. Cardinality(1 .. n) = n
    BY FS_Interval
  <2> QED  BY <2>2, <2>3
<1>6. \A p : p \in Reachable <=> On(n, c, p)
  <2>1. ASSUME NEW p, p \in Reachable PROVE On(n, c, p)
    <3>1. PICK k \in 0 .. N : p = Nth[k] /\ p # None
      BY <2>1 DEF Reachable
    <3>2. k < n /\ p = c[k + 1]
      BY <1>3, <3>1
    <3>3. k + 1 \in 1 .. n
      BY <1>4, <3>2
    <3> QED  BY <3>2, <3>3 DEF On
  <2>2. ASSUME NEW p, On(n, c, p) PROVE p \in Reachable
    <3>1. PICK i \in 1 .. n : c[i] = p
      BY <2>2 DEF On
    <3>2. i - 1 \in 0 .. N /\ i - 1 < n /\ (i - 1) + 1 = i
      BY <1>4, <1>5
    <3>3. Nth[i - 1] = p
      BY <1>3, <3>1, <3>2
    <3>4. p # None
      BY <1>4, <3>1 DEF Numbering
    <3> QED  BY <3>2, <3>3, <3>4 DEF Reachable
  <2> QED  BY <2>1, <2>2
<1>7. ASSUME NEW p PROVE p \in own <=> p \in Reachable \/ \E t \in Threads : mine[t] # None /\ p = mine[t]
  <2>1. own \in SUBSET Pages /\ \A t \in Threads : mine[t] \in Pages \cup {None}
    BY DEF Inv, TypeOK
  <2>2. On(n, c, p) => p \in Pages
    BY DEF On, Numbering
  <2>3. p \in Pages => (p \in own <=> On(n, c, p) \/ \E t \in Threads : mine[t] = p)
    BY <1>2 DEF Good, Owned
  <2> QED  BY <1>4, <1>6, <2>1, <2>2, <2>3
<1> QED  BY <1>7 DEF NoPageLeaked

(* No page is lost when threads grow the chain at the same time: what is   *)
(* allocated is on the chain, or in the hands of a thread that will link   *)
(* or delete it (TableHeap::insert_tuple, the second look at next_page).   *)
THEOREM NoPageIsLeaked == Spec => []NoPageLeaked
BY HeapInvariant, PagesFromInv, PTL

=============================================================================
