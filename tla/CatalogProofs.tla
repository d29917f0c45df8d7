--------------------------- MODULE CatalogProofs ---------------------------
(***************************************************************************)
(* The map of tables and the rows behind it, for any number of             *)
(* transactions, names and rows.  A row is a table's, or of the one        *)
(* creation that has latch_, or the last one a rollback has still to       *)
(* delete, or was left behind; the undo log of a transaction stays good because it has the     *)
(* rows in it exclusively, and a table that was returned because its row   *)
(* is locked.  The pages need none of this: only latch_.                   *)
(***************************************************************************)
EXTENDS Catalog, FiniteSetTheorems, SequenceTheorems, WellFoundedInduction, TLAPS

Undos == {RowUndo(r) : r \in Rids} \cup {TableUndo(n) : n \in Names}

Ended == {"committed", "aborted", "done"}

Pcs == {"idle", "create", "drop", "look", "undo", "failed", "unlock"} \cup Ended

TypeOK ==
    /\ state \in [Txns -> Locks!TransactionState \cup {"NONE"}]
    /\ shared \in [Txns -> SUBSET Rids] /\ exclusive \in [Txns -> SUBSET Rids]
    /\ tables \in [Names -> Rids \cup {None}]
    /\ rows \in [Rids -> Names \cup {None}]
    /\ first \in [Names -> Pages \cup {None}]
    /\ used \in SUBSET Pages /\ leaks \in Nat /\ faults \in Nat
    /\ latch \in Txns \cup {None}
    /\ log \in [Txns -> Seq(Undos)] /\ todo \in [Txns -> Nat]
    /\ pc \in [Txns -> Pcs]
    /\ want \in [Txns -> SUBSET (Names \X Rids)] /\ seen \in [Txns -> SUBSET (Names \X Rids)]
    /\ got \in [Txns -> SUBSET (Names \X Rids)]
    /\ dropped \in [Txns -> BOOLEAN] /\ broken \in BOOLEAN /\ kept \in SUBSET Rids

(* The records of a creation come in pairs, the row's before the table's.  *)
Paired(L) ==
    \A i \in 1 .. Len(L) :
        /\ L[i].undo = "row" => i + 1 \in 1 .. Len(L) /\ L[i + 1].undo = "table"
        /\ L[i].undo = "table" => i - 1 \in 1 .. Len(L) /\ L[i - 1].undo = "row"

LogsOK ==
    \A t \in Txns :
        /\ Paired(log[t])
        /\ pc[t] = "undo" => todo[t] <= Len(log[t])
        /\ pc[t] \notin Ended => \A i \in 1 .. Len(log[t]) :
              log[t][i].undo = "row" => log[t][i].arg \in exclusive[t]

(* Two transactions never have one row if one of them writes it.           *)
Compatible ==
    \A t, u \in Txns : t # u => exclusive[t] \cap (shared[u] \cup exclusive[u]) = {}

(* What a transaction knows at every place of a call.                      *)
CallsOK ==
    \A t \in Txns :
        /\ pc[t] = "create" <=> latch = t
        /\ pc[t] = "create" => \E e \in Names \X Rids : want[t] = {e}
        /\ pc[t] = "drop" =>
              \E e \in Names \X Rids :
                 /\ seen[t] = {e} /\ want[t] \subseteq {e}
                 /\ want[t] = {} => e[2] \in exclusive[t]
                 /\ \A g \in got[t] : g[1] # e[1]
        /\ pc[t] = "look" => \A e \in seen[t] \ want[t] : e[2] \in shared[t] \cup exclusive[t]

(* The heaps in use: of the tables in the map and of the one being         *)
(* created.                                                                *)
Creating(n) == \E t \in Txns : pc[t] = "create" /\ \E e \in want[t] : e[1] = n

HeapsOK ==
    \A n \in Names :
        /\ first[n] # None <=> tables[n] # None \/ Creating(n)
        /\ Creating(n) => tables[n] = None

(* Every heap's page is its own, and what no heap has are the leaks.       *)
Owned == {first[n] : n \in Names} \ {None}

PagesOK ==
    /\ \A n \in Names : first[n] # None => first[n] \in used
    /\ \A m, n \in Names : m # n /\ first[m] # None => first[m] # first[n]
    /\ Cardinality(used \ Owned) = leaks

CatInv == TypeOK /\ LogsOK /\ Compatible /\ CallsOK /\ HeapsOK /\ PagesOK

-----------------------------------------------------------------------------
(* How much of its log a transaction may still have to run.  One that has  *)
(* dropped a table does not roll back.                                     *)
Depth(t) ==
    IF pc[t] = "undo" THEN todo[t]
    ELSE IF pc[t] \in {"idle", "create", "drop", "look"} /\ ~dropped[t] THEN Len(log[t]) ELSE 0

RowAt(t, i, r) == i \in 1 .. Depth(t) /\ log[t][i].undo = "row" /\ log[t][i].arg = r

TableAt(t, i, n) == i \in 1 .. Depth(t) /\ log[t][i].undo = "table" /\ log[t][i].arg = n

(* The row a rollback has taken the table from already.                    *)
Loose(t, r) == RowAt(t, Depth(t), r)

NewRow(t, n, r) == pc[t] = "create" /\ <<n, r>> \in want[t]

Mapped == \A n \in Names : tables[n] # None => rows[tables[n]] = n

Known ==
    \A r \in Rids : rows[r] # None =>
        \/ tables[rows[r]] = r \/ r \in kept
        \/ \E t \in Txns : NewRow(t, rows[r], r) \/ Loose(t, r)

Creations ==
    \A t \in Txns, n \in Names, r \in Rids : NewRow(t, n, r) =>
        /\ rows[r] = n
        /\ \A m \in Names : tables[m] # r
        /\ \A u \in Txns, i \in Nat : ~RowAt(u, i, r)

Rollbacks ==
    \A t \in Txns, i \in Nat :
        /\ \A r \in Rids : RowAt(t, i, r) =>
              /\ rows[r] # None
              /\ \A j \in Nat : RowAt(t, j, r) => j = i
              /\ i = Depth(t) => \A m \in Names : tables[m] # r
        /\ \A n \in Names : TableAt(t, i, n) => tables[n] = log[t][i - 1].arg

Returned ==
    \A t \in Txns :
        /\ state[t] = "NONE" => pc[t] = "idle" /\ got[t] = {}
        /\ state[t] = "GROWING" =>
              /\ pc[t] \in {"idle", "create", "drop", "look"}
              /\ got[t] \subseteq Entries
              /\ \A e \in got[t] : e[2] \in shared[t] \cup exclusive[t]
              /\ pc[t] = "drop" => \A e \in want[t], g \in got[t] : e[2] \in shared[t] => g[2] # e[2]

(* A row that was left behind is nobody's any more, and never free again.  *)
Left ==
    \A r \in kept :
        /\ rows[r] # None /\ \A m \in Names : tables[m] # r
        /\ \A u \in Txns : \A x : ~RowAt(u, x, r) /\ ~NewRow(u, x, r)

Stored == Mapped /\ Known /\ Creations /\ Rollbacks /\ Left

UnlessBroken == ~broken => Stored /\ Returned

Inv == CatInv /\ UnlessBroken

-----------------------------------------------------------------------------
(* A set of natural numbers that is not empty has a least one.             *)
LEMMA LeastNatural ==
    ASSUME NEW S \in SUBSET Nat, S # {}
    PROVE  \E m \in S : \A n \in S : m <= n
<1>1. PICK m \in S : \A n \in S : ~(<<n, m>> \in OpToRel(<, Nat))
  BY NatLessThanWellFounded, WFMin, Zenon
<1>2. \A n \in S : ~(n < m)
  BY <1>1 DEF OpToRel
<1> QED  BY <1>2

(* A new entry goes to a free row, a new heap to a free page.              *)
LEMMA FreePlaces ==
    /\ Rids \in SUBSET Nat /\ Pages \in SUBSET Nat
    /\ IsFiniteSet(Pages) /\ None \notin Rids /\ None \notin Pages /\ None \notin Names /\ None \notin Txns
    /\ FreeRows # {} => FirstFree \in Rids /\ rows[FirstFree] = None
    /\ \A n : NewHeap(n) /\ used \in SUBSET Pages => \E p \in Pages \ used :
          /\ used' = used \cup {p} /\ first' = [first EXCEPT ![n] = p]
          /\ UNCHANGED <<leaks, faults>>
<1>1. Rids \in SUBSET Nat /\ Pages \in SUBSET Nat
  BY DEF Rids, Pages
<1>2. IsFiniteSet(Pages)
  BY CatalogAssumption, FS_Interval DEF Pages
<1>3. None \notin Rids /\ None \notin Pages /\ None \notin Names /\ None \notin Txns
  BY <1>1, CatalogAssumption
<1>4. ASSUME FreeRows # {} PROVE FirstFree \in Rids /\ rows[FirstFree] = None
  <2>1. FreeRows \in SUBSET Nat
    BY <1>1 DEF FreeRows
  <2>2. \E r \in FreeRows : \A s \in FreeRows : r <= s
    BY <1>4, <2>1, LeastNatural
  <2>3. FirstFree \in FreeRows
    BY <2>2 DEF FirstFree
  <2> QED  BY <2>3 DEF FreeRows
<1>5. ASSUME NEW n, NewHeap(n), used \in SUBSET Pages
      PROVE  \E p \in Pages \ used :
                /\ used' = used \cup {p} /\ first' = [first EXCEPT ![n] = p]
                /\ UNCHANGED <<leaks, faults>>
  <2> DEFINE Free == Pages \ used
  <2>1. Free \in SUBSET Nat /\ Free # {}
    BY <1>1, <1>5 DEF NewHeap
  <2>2. \E p \in Free : \A q \in Free : p <= q
    BY <2>1, LeastNatural
  <2> QED  BY <1>5, <2>2 DEF NewHeap
<1> QED  BY <1>1, <1>2, <1>3, <1>4, <1>5

(* The steps of a transaction, and those without one.                      *)
CatStep(t) ==
    \/ Begin(t) \/ AllTables(t) \/ CreateFails(t)
    \/ \E n \in Names : CreateTable(t, n) \/ GetTable(t, n) \/ DropTable(t, n)
    \/ CallStep(t) \/ Commit(t) \/ Abort(t)

AutoStep == CreateFailsAuto \/ \E n \in Names : CreateTableAuto(n) \/ DropTableAuto(n)

(* The step of the lock table in the step of a transaction.                *)
LockStep(t) ==
    \/ UNCHANGED lockVars
    \/ Locks!Begin(t) \/ Locks!Refuse(t) \/ Locks!Shrink(t) \/ Locks!End(t)
    \/ Locks!ReleaseAll(t) /\ pc'[t] \in Ended
    \/ \E r \in Rids : Locks!GrantShared(t, r) \/ Locks!GrantExclusive(t, r) \/ Locks!DropForUpgrade(t, r)

(* Every step of a transaction is one of the lock table's, or none.        *)
LEMMA LockSteps ==
    ASSUME TypeOK, NEW t \in Txns, CatStep(t)
    PROVE  LockStep(t)
<1>1. \A e \in want[t] : e[2] \in Rids
  BY DEF TypeOK
<1>2. ASSUME NEW r \in Rids, Grant(t, r) \/ Refused(t, r) PROVE LockStep(t)
  BY <1>2 DEF Grant, Refused, LockStep
<1>3. CASE CreateLocked(t) \/ CreateRefused(t) \/ LockRow(t) \/ LockRefused(t)
  BY <1>1, <1>2, <1>3 DEF CreateLocked, CreateRefused, LockRow, LockRefused
<1>4. CASE LockUpgrade(t)
  BY <1>1, <1>4 DEF LockUpgrade, LockStep
<1>5. CASE Unlock(t)
  BY <1>5 DEF Unlock, Goto, LockStep, Ended, TypeOK
<1>6. CASE Begin(t) \/ Commit(t) \/ Abort(t) \/ End(t)
  BY <1>6 DEF Begin, Commit, Abort, End, LockStep
<1>7. CASE UNCHANGED lockVars
  BY <1>7 DEF LockStep
<1>8. \/ CreateLocked(t) \/ CreateRefused(t) \/ LockRow(t) \/ LockRefused(t) \/ LockUpgrade(t) \/ Unlock(t)
      \/ Begin(t) \/ Commit(t) \/ Abort(t) \/ End(t) \/ UNCHANGED lockVars
  BY DEF CatStep, CallStep, AllTables, GetTable, LookUp, CreateTable, CreateFails, DropTable, LookDone, DropDone,
     UndoTable, UndoTableFails, UndoRow
<1> QED  BY <1>3, <1>4, <1>5, <1>6, <1>7, <1>8

(* It keeps the locks compatible, leaves those of others alone, and takes  *)
(* an exclusive lock away only at the end.                                 *)
LEMMA LockEffects ==
    ASSUME TypeOK, Compatible, NEW t \in Txns, LockStep(t)
    PROVE  /\ state' \in [Txns -> Locks!TransactionState \cup {"NONE"}]
           /\ shared' \in [Txns -> SUBSET Rids] /\ exclusive' \in [Txns -> SUBSET Rids]
           /\ \A u \in Txns \ {t} : state'[u] = state[u] /\ shared'[u] = shared[u] /\ exclusive'[u] = exclusive[u]
           /\ Compatible'
           /\ exclusive[t] \subseteq exclusive'[t] \/ pc'[t] \in Ended
<1>1. CASE UNCHANGED lockVars
  BY <1>1 DEF lockVars, TypeOK, Compatible
<1>2. CASE Locks!Begin(t) \/ Locks!Refuse(t) \/ Locks!Shrink(t) \/ Locks!End(t)
  BY <1>2 DEF Locks!Begin, Locks!Refuse, Locks!Shrink, Locks!End, Locks!TransactionState, TypeOK, Compatible
<1>3. CASE Locks!ReleaseAll(t) /\ pc'[t] \in Ended
  BY <1>3 DEF Locks!ReleaseAll, TypeOK, Compatible
<1>4. ASSUME NEW r \in Rids, Locks!GrantShared(t, r)
      PROVE  /\ shared' \in [Txns -> SUBSET Rids] /\ UNCHANGED <<state, exclusive>> /\ Compatible'
             /\ \A u \in Txns \ {t} : shared'[u] = shared[u]
  BY <1>4 DEF Locks!GrantShared, Locks!Unwritten, TypeOK, Compatible
<1>5. ASSUME NEW r \in Rids, Locks!GrantExclusive(t, r)
      PROVE  /\ shared' \in [Txns -> SUBSET Rids] /\ exclusive' \in [Txns -> SUBSET Rids]
             /\ UNCHANGED state /\ Compatible' /\ exclusive[t] \subseteq exclusive'[t]
             /\ \A u \in Txns \ {t} : shared'[u] = shared[u] /\ exclusive'[u] = exclusive[u]
  BY <1>5 DEF Locks!GrantExclusive, Locks!Alone, TypeOK, Compatible
<1>6. ASSUME NEW r \in Rids, Locks!DropForUpgrade(t, r)
      PROVE  /\ shared' \in [Txns -> SUBSET Rids] /\ UNCHANGED <<state, exclusive>> /\ Compatible'
             /\ \A u \in Txns \ {t} : shared'[u] = shared[u]
  BY <1>6 DEF Locks!DropForUpgrade, TypeOK, Compatible
<1> QED  BY <1>1, <1>2, <1>3, <1>4, <1>5, <1>6 DEF LockStep, TypeOK

(* A step that leaves the other transactions as they are.                  *)
Others(t) ==
    \A u \in Txns \ {t} :
        /\ pc'[u] = pc[u] /\ log'[u] = log[u] /\ todo'[u] = todo[u] /\ want'[u] = want[u]
        /\ seen'[u] = seen[u] /\ got'[u] = got[u] /\ dropped'[u] = dropped[u]
        /\ state'[u] = state[u] /\ shared'[u] = shared[u] /\ exclusive'[u] = exclusive[u]

(* The two records of a creation, behind those that are there.             *)
LEMMA Appended ==
    ASSUME NEW L \in Seq(Undos), NEW n \in Names, NEW r \in Rids,
           NEW M, M = L \o <<RowUndo(r), TableUndo(n)>>
    PROVE  /\ M \in Seq(Undos) /\ Len(M) = Len(L) + 2
           /\ \A i \in 1 .. Len(L) : M[i] = L[i]
           /\ M[Len(L) + 1] = RowUndo(r) /\ M[Len(L) + 2] = TableUndo(n)
<1>1. RowUndo(r) \in Undos /\ TableUndo(n) \in Undos
  BY DEF Undos
<1>2. PICK R \in Undos, T \in Undos : R = RowUndo(r) /\ T = TableUndo(n)
  BY <1>1
<1>3. <<R, T>> \in Seq(Undos)
  BY ONLY R \in Undos, T \in Undos
<1>4. PICK K \in Seq(Undos) : K = <<R, T>>
  BY <1>3
<1>5. Len(K) = 2 /\ K[1] = R /\ K[2] = T
  BY <1>4
<1>6. M = L \o K
  BY <1>2, <1>4
<1>7. PICK k \in Nat : k = Len(L)
  BY LenProperties
<1>8. /\ M \in Seq(Undos) /\ Len(M) = k + 2
      /\ \A i \in 1 .. k + 2 : M[i] = IF i <= k THEN L[i] ELSE K[i - k]
  BY <1>5, <1>6, <1>7, ConcatProperties
<1>9. /\ \A i \in 1 .. k : M[i] = L[i]
      /\ M[k + 1] = K[1] /\ M[k + 2] = K[2]
  <2>1. \A i \in 1 .. k : i \in 1 .. k + 2 /\ i <= k
    OBVIOUS
  <2>2. k + 1 \in 1 .. k + 2 /\ ~(k + 1 <= k) /\ k + 1 - k = 1
    OBVIOUS
  <2>3. k + 2 \in 1 .. k + 2 /\ ~(k + 2 <= k) /\ k + 2 - k = 2
    OBVIOUS
  <2>4. \A i \in 1 .. k : M[i] = L[i]
    BY ONLY <1>8, <2>1
  <2>5. M[k + 1] = K[k + 1 - k]
    BY ONLY <1>8, <2>2
  <2>6. M[k + 2] = K[k + 2 - k]
    BY ONLY <1>8, <2>3
  <2> QED  BY <2>2, <2>3, <2>4, <2>5, <2>6
<1> QED  BY <1>2, <1>5, <1>7, <1>8, <1>9

(* The record that a rollback has come to.                                 *)
LEMMA NextRecord ==
    ASSUME TypeOK, LogsOK, NEW t \in Txns, pc[t] = "undo", todo[t] > 0
    PROVE  /\ todo[t] \in 1 .. Len(log[t]) /\ todo[t] - 1 \in Nat /\ Record(t) \in Undos
           /\ Record(t).undo = "row" => Record(t).arg \in Rids
           /\ Record(t).undo = "table" => Record(t).arg \in Names
           /\ Record(t).undo \in {"row", "table"}
<1>1. todo[t] \in 1 .. Len(log[t]) /\ todo[t] - 1 \in Nat /\ log[t] \in Seq(Undos)
  <2>1. todo[t] \in Nat /\ log[t] \in Seq(Undos) /\ todo[t] <= Len(log[t]) /\ Len(log[t]) \in Nat
    BY LenProperties DEF TypeOK, LogsOK
  <2> QED  BY <2>1
<1>2. Record(t) \in Undos
  BY <1>1, ElementOfSeq DEF Record
<1> QED  BY <1>1, <1>2 DEF Undos, RowUndo, TableUndo

(* A creation that fails loses pages that nobody has had.                  *)
LEMMA PagesLost ==
    ASSUME TypeOK, LosesPages
    PROVE  /\ used' \in SUBSET Pages /\ leaks' \in Nat /\ UNCHANGED <<first, faults>>
           /\ used \subseteq used'
           /\ PagesOK => PagesOK'
<1>1. PICK lost \in SUBSET (Pages \ used) :
         /\ Cardinality(lost) \in 1 .. 2
         /\ used' = used \cup lost /\ leaks' = leaks + Cardinality(lost)
  BY DEF LosesPages
<1>2. PICK c \in Nat : c = Cardinality(lost)
  BY <1>1
<1>3. /\ used' \in SUBSET Pages /\ leaks' \in Nat /\ UNCHANGED <<first, faults>>
      /\ used \subseteq used'
  BY <1>1, <1>2 DEF LosesPages, TypeOK
<1>4. ASSUME PagesOK PROVE PagesOK'
  <2>1. Owned' = Owned /\ Owned \subseteq used
    BY <1>3, <1>4 DEF Owned, PagesOK
  <2>2. PICK U : U = used \ Owned
    OBVIOUS
  <2>3. used' \ Owned' = U \cup lost /\ U \cap lost = {}
    BY <1>1, <2>1, <2>2
  <2>4. IsFiniteSet(U) /\ IsFiniteSet(lost)
    <3>1. U \subseteq Pages /\ lost \subseteq Pages /\ IsFiniteSet(Pages)
      BY <1>1, <2>2, FreePlaces DEF TypeOK
    <3> QED  BY <3>1, FS_Subset
  <2>5. Cardinality(U \cup lost) = leaks + c
    <3>1. Cardinality(U \cap lost) = 0
      BY <2>3, FS_EmptySet
    <3>2. /\ Cardinality(U) = leaks
          /\ Cardinality(U \cup lost) = Cardinality(U) + Cardinality(lost) - Cardinality(U \cap lost)
      BY <1>4, <2>2, <2>4, FS_Union DEF PagesOK
    <3> QED  BY <1>2, <3>1, <3>2 DEF TypeOK
  <2> QED  BY <1>1, <1>2, <1>3, <1>4, <2>3, <2>5 DEF PagesOK
<1> QED  BY <1>3, <1>4

(* TableHeap::delete_tuple deletes the row or leaves it.                   *)
LEMMA RowDeletedType ==
    ASSUME TypeOK, NEW r \in Rids, DeleteRow(r)
    PROVE  rows' \in [Rids -> Names \cup {None}] /\ faults' \in Nat /\ kept' \in SUBSET Rids
BY DEF DeleteRow, DeletedRow, Fault, TypeOK

(* Every variable keeps its type, and a transaction touches nobody else's. *)
LEMMA TypeStep ==
    ASSUME CatInv, NEW t \in Txns, CatStep(t)
    PROVE  TypeOK' /\ Others(t)
<1> USE DEF Goto, lockVars, autoVars, pageVars
<1>0. TypeOK /\ LogsOK /\ Compatible /\ CallsOK
  BY DEF CatInv
<1>L. /\ state' \in [Txns -> Locks!TransactionState \cup {"NONE"}]
      /\ shared' \in [Txns -> SUBSET Rids] /\ exclusive' \in [Txns -> SUBSET Rids]
      /\ \A u \in Txns \ {t} : state'[u] = state[u] /\ shared'[u] = shared[u] /\ exclusive'[u] = exclusive[u]
  BY <1>0, LockSteps, LockEffects
<1> DEFINE Rest ==
        /\ tables' \in [Names -> Rids \cup {None}]
        /\ rows' \in [Rids -> Names \cup {None}]
        /\ first' \in [Names -> Pages \cup {None}]
        /\ used' \in SUBSET Pages /\ leaks' \in Nat /\ faults' \in Nat
        /\ latch' \in Txns \cup {None}
        /\ log' \in [Txns -> Seq(Undos)] /\ todo' \in [Txns -> Nat]
        /\ pc' \in [Txns -> Pcs]
        /\ want' \in [Txns -> SUBSET (Names \X Rids)] /\ seen' \in [Txns -> SUBSET (Names \X Rids)]
        /\ got' \in [Txns -> SUBSET (Names \X Rids)]
        /\ dropped' \in [Txns -> BOOLEAN] /\ broken' \in BOOLEAN /\ kept' \in SUBSET Rids
        /\ \A u \in Txns \ {t} :
              /\ pc'[u] = pc[u] /\ log'[u] = log[u] /\ todo'[u] = todo[u] /\ want'[u] = want[u]
              /\ seen'[u] = seen[u] /\ got'[u] = got[u] /\ dropped'[u] = dropped[u]
<1> SUFFICES Rest
  BY <1>L DEF TypeOK, Others
<1>1. CASE Begin(t) \/ Commit(t)
  BY <1>0, <1>1 DEF Begin, Commit, TypeOK, Pcs
<1>2. ASSUME NEW n \in Names, CreateTable(t, n) PROVE Rest
  <2>1. /\ FirstFree \in Rids
        /\ \E p \in Pages \ used : used' = used \cup {p} /\ first' = [first EXCEPT ![n] = p]
        /\ UNCHANGED <<leaks, faults>>
    BY <1>0, <1>2, FreePlaces DEF CreateTable, TypeOK, NewHeap
  <2>2. /\ used' \in SUBSET Pages /\ first' \in [Names -> Pages \cup {None}]
        /\ rows' \in [Rids -> Names \cup {None}]
        /\ want' \in [Txns -> SUBSET (Names \X Rids)]
        /\ \A u \in Txns \ {t} : want'[u] = want[u]
    BY <1>0, <1>2, <2>1 DEF CreateTable, TypeOK
  <2> QED  BY <1>0, <1>2, <2>1, <2>2 DEF CreateTable, Calling, TypeOK, Pcs
<1>3. Entries \in SUBSET (Names \X Rids)
  BY <1>0 DEF Entries, TypeOK
<1>4. ASSUME NEW n \in Names, DropTable(t, n) PROVE Rest
  <2>1. <<n, tables[n]>> \in Names \X Rids
    BY <1>0, <1>4 DEF DropTable, TypeOK
  <2> QED  BY <1>0, <1>4, <2>1 DEF DropTable, Calling, TypeOK, Pcs
<1>5. ASSUME NEW es \in SUBSET (Names \X Rids), LookUp(t, es) PROVE Rest
  BY <1>0, <1>5 DEF LookUp, Calling, TypeOK, Pcs
<1>6. CASE AllTables(t) \/ \E n \in Names : GetTable(t, n)
  <2>1. \A n \in Names : {e \in Entries : e[1] = n} \in SUBSET (Names \X Rids)
    BY <1>3
  <2> QED  BY <1>3, <1>5, <1>6, <2>1 DEF AllTables, GetTable
<1>7. CASE CreateLocked(t)
  <2>1. PICK e \in want[t] :
           /\ tables' = [tables EXCEPT ![e[1]] = e[2]]
           /\ log' = [log EXCEPT ![t] = @ \o <<RowUndo(e[2]), TableUndo(e[1])>>]
    BY <1>7 DEF CreateLocked
  <2>2. e[1] \in Names /\ e[2] \in Rids /\ log[t] \in Seq(Undos)
    BY <1>0, <2>1 DEF TypeOK
  <2>3. log[t] \o <<RowUndo(e[2]), TableUndo(e[1])>> \in Seq(Undos)
    BY <2>2, Appended
  <2>4. tables' \in [Names -> Rids \cup {None}] /\ log' \in [Txns -> Seq(Undos)]
        /\ \A u \in Txns \ {t} : log'[u] = log[u]
    BY <1>0, <2>1, <2>2, <2>3 DEF TypeOK
  <2> QED  BY <1>0, <1>7, <2>4 DEF CreateLocked, TypeOK, Pcs
<1>8. CASE CreateRefused(t)
  <2>1. PICK e \in want[t] : DeleteRow(e[2]) /\ GiveUpHeap(e[1])
    BY <1>8 DEF CreateRefused
  <2>2. e[1] \in Names /\ e[2] \in Rids
    BY <1>0, <2>1 DEF TypeOK
  <2>3. first' \in [Names -> Pages \cup {None}] /\ leaks' \in Nat /\ UNCHANGED used
    BY <1>0, <2>1, <2>2 DEF GiveUpHeap, TypeOK
  <2>4. rows' \in [Rids -> Names \cup {None}] /\ faults' \in Nat /\ kept' \in SUBSET Rids
    BY <1>0, <2>1, <2>2, RowDeletedType
  <2>5. /\ UNCHANGED <<tables, log, todo, seen, dropped, got, broken>> /\ latch' = None
        /\ pc' = [pc EXCEPT ![t] = "idle"] /\ want' = [want EXCEPT ![t] = {}]
    BY <1>8 DEF CreateRefused
  <2> QED  BY <1>0, <2>3, <2>5, <2>4 DEF TypeOK, Pcs
<1>9. CASE LockRow(t) \/ LockUpgrade(t) \/ LockRefused(t)
  <2>1. CASE LockRow(t)
    BY <1>0, <2>1 DEF LockRow, TypeOK
  <2>2. CASE LockUpgrade(t)
    BY <1>0, <2>2 DEF LockUpgrade, TypeOK
  <2>3. CASE LockRefused(t)
    BY <1>0, <2>3 DEF LockRefused, TypeOK, Pcs
  <2> QED  BY <1>9, <2>1, <2>2, <2>3
<1>10. CASE LookDone(t)
  BY <1>0, <1>10 DEF LookDone, TypeOK, Pcs
<1>11. ASSUME NEW n \in Names, DropPages(n) \/ PagesUnread
       PROVE  /\ first' \in [Names -> Pages \cup {None}]
              /\ used' \in SUBSET Pages /\ leaks' \in Nat /\ faults' \in Nat
  <2>1. leaks \in Nat /\ faults \in Nat /\ leaks + 1 \in Nat /\ faults + 1 \in Nat
    BY <1>0 DEF TypeOK
  <2>2. CASE DropPages(n)
    <3>1. first' \in [Names -> Pages \cup {None}]
      BY <1>0, <2>2 DEF DropPages, TypeOK
    <3>2. used' \in SUBSET Pages
      BY <1>0, <2>2 DEF DropPages, TypeOK
    <3> QED  BY <2>1, <2>2, <3>1, <3>2 DEF DropPages, Fault
  <2>3. CASE PagesUnread
    BY <1>0, <2>1, <2>3 DEF PagesUnread, Fault, TypeOK
  <2> QED  BY <1>11, <2>2, <2>3
<1>12. ASSUME NEW n \in Names, NEW b \in BOOLEAN, Dropping(n, b)
       PROVE  /\ first' \in [Names -> Pages \cup {None}]
              /\ used' \in SUBSET Pages /\ leaks' \in Nat /\ faults' \in Nat
              /\ tables' \in [Names -> Rids \cup {None}] /\ broken' \in BOOLEAN
  BY <1>0, <1>11, <1>12 DEF Dropping, Erased, TypeOK
<1>13. CASE DropDone(t)
  <2>1. PICK e \in seen[t] :
         \/ /\ rows' = [rows EXCEPT ![e[2]] = None]
            /\ Dropping(e[1], FALSE)
            /\ dropped' = [dropped EXCEPT ![t] = TRUE]
         \/ UNCHANGED <<rows, tables, dropped, pageVars, broken>>
         \/ PagesUnread /\ UNCHANGED <<rows, tables, dropped, broken>>
    BY <1>13 DEF DropDone, DeletedRow
  <2>2. e[1] \in Names /\ e[2] \in Rids
    BY <1>0, <2>1 DEF TypeOK
  <2>3. /\ first' \in [Names -> Pages \cup {None}]
        /\ used' \in SUBSET Pages /\ leaks' \in Nat /\ faults' \in Nat
        /\ tables' \in [Names -> Rids \cup {None}] /\ broken' \in BOOLEAN
        /\ rows' \in [Rids -> Names \cup {None}]
        /\ dropped' \in [Txns -> BOOLEAN] /\ \A u \in Txns \ {t} : dropped'[u] = dropped[u]
    BY <1>0, <1>11, <1>12, <2>1, <2>2 DEF TypeOK
  <2> QED  BY <1>0, <1>13, <2>3 DEF DropDone, TypeOK, Pcs
<1>14. CASE Abort(t)
  <2>1. Len(log[t]) \in Nat
    BY <1>0, LenProperties DEF TypeOK
  <2> QED  BY <1>0, <1>14, <2>1 DEF Abort, TypeOK, Pcs
<1>15. CASE UndoTable(t)
  <2>1. Record(t).arg \in Names /\ todo[t] - 1 \in Nat
    BY <1>0, <1>15, NextRecord DEF UndoTable, Rollback
  <2>2. tables' \in [Names -> Rids \cup {None}]
    BY <1>0, <1>15, <2>1 DEF UndoTable, Erased, TypeOK
  <2> QED  BY <1>0, <1>11, <1>15, <2>1, <2>2 DEF UndoTable, TypeOK, Pcs
<1>16. CASE UndoTableFails(t)
  <2>1. Record(t).arg \in Names
    BY <1>0, <1>16, NextRecord DEF UndoTableFails, Rollback
  <2> QED  BY <1>0, <1>11, <1>16, <2>1 DEF UndoTableFails, TypeOK, Pcs
<1>17. CASE UndoRow(t)
  <2>1. Record(t).arg \in Rids /\ todo[t] - 1 \in Nat
    BY <1>0, <1>17, NextRecord DEF UndoRow
  <2>2. rows' \in [Rids -> Names \cup {None}] /\ faults' \in Nat /\ kept' \in SUBSET Rids
    BY <1>0, <1>17, <2>1, RowDeletedType DEF UndoRow
  <2> QED  BY <1>0, <1>17, <2>1, <2>2 DEF UndoRow, TypeOK
<1>18. CASE Unlock(t) \/ End(t)
  BY <1>0, <1>18 DEF Unlock, End, TypeOK, Pcs, Ended
<1>19. CASE CreateFails(t)
  <2>1. used' \in SUBSET Pages /\ leaks' \in Nat /\ UNCHANGED <<first, faults>>
    BY <1>0, <1>19, PagesLost DEF CreateFails
  <2> QED  BY <1>0, <1>19, <2>1 DEF CreateFails, Calling, TypeOK
<1> QED
  BY <1>1, <1>2, <1>4, <1>6, <1>7, <1>8, <1>9, <1>10, <1>13, <1>14, <1>15, <1>16, <1>17, <1>18, <1>19
  DEF CatStep, CallStep

(* The two records of a creation are a pair, of a row that is locked.      *)
LEMMA LogsStep ==
    ASSUME CatInv, NEW t \in Txns, CatStep(t)
    PROVE  LogsOK'
<1> USE DEF Goto, lockVars, autoVars, pageVars
<1>0. TypeOK /\ LogsOK /\ Compatible /\ CallsOK /\ TypeOK' /\ Others(t) /\ LockStep(t)
  BY TypeStep, LockSteps DEF CatInv
<1>1. exclusive[t] \subseteq exclusive'[t] \/ pc'[t] \in Ended
  BY <1>0, LockEffects
<1> DEFINE Mine ==
        /\ Paired(log'[t])
        /\ pc'[t] = "undo" => todo'[t] <= Len(log'[t])
        /\ pc'[t] \notin Ended => \A i \in 1 .. Len(log'[t]) :
              log'[t][i].undo = "row" => log'[t][i].arg \in exclusive'[t]
<1> SUFFICES Mine
  <2> SUFFICES ASSUME Mine, NEW u \in Txns
               PROVE  /\ Paired(log'[u])
                      /\ pc'[u] = "undo" => todo'[u] <= Len(log'[u])
                      /\ pc'[u] \notin Ended => \A i \in 1 .. Len(log'[u]) :
                            log'[u][i].undo = "row" => log'[u][i].arg \in exclusive'[u]
    BY DEF LogsOK, Paired
  <2> QED  BY <1>0 DEF LogsOK, Others
<1>2. pc[t] \in Ended => pc'[t] \in Ended
  BY <1>0 DEF CatStep, CallStep, Begin, AllTables, GetTable, LookUp, CreateTable, CreateFails, DropTable, Calling,
     Commit, Abort, CreateLocked, CreateRefused, LockRow, LockUpgrade, LockRefused, LookDone, Locked, DropDone, UndoTable,
     Rollback, UndoTableFails, UndoRow, Unlock, End, Ended, TypeOK
<1>3. ASSUME UNCHANGED log, pc'[t] = "undo" => todo'[t] <= Len(log[t]) PROVE Mine
  BY <1>0, <1>1, <1>2, <1>3 DEF LogsOK
<1>4. CASE CreateLocked(t)
  <2>1. PICK e \in want[t] :
           /\ Grant(t, e[2])
           /\ log' = [log EXCEPT ![t] = @ \o <<RowUndo(e[2]), TableUndo(e[1])>>]
    BY <1>4 DEF CreateLocked
  <2>2. e[1] \in Names /\ e[2] \in Rids /\ log[t] \in Seq(Undos)
    BY <1>0, <2>1 DEF TypeOK
  <2>3. PICK L \in Seq(Undos) : L = log[t]
    BY <2>2
  <2>4. PICK k \in Nat : k = Len(L)
    BY LenProperties
  <2>5. PICK M : M = log'[t] /\ M = L \o <<RowUndo(e[2]), TableUndo(e[1])>>
    BY <1>0, <2>1, <2>3 DEF TypeOK
  <2>6. /\ Len(M) = k + 2 /\ \A i \in 1 .. k : M[i] = L[i]
        /\ M[k + 1] = RowUndo(e[2]) /\ M[k + 2] = TableUndo(e[1])
    BY <2>2, <2>4, <2>5, Appended
  <2>7. e[2] \in exclusive'[t]
    BY <1>0, <1>4, <2>1, <2>2 DEF CreateLocked, Grant, Exclusively, Locks!GrantExclusive, TypeOK
  <2>8. pc[t] = "create" /\ pc'[t] = "idle" /\ exclusive[t] \subseteq exclusive'[t]
    BY <1>0, <1>1, <1>4 DEF CreateLocked, TypeOK, Ended
  <2>9. \A i \in 1 .. k + 2 : i \in 1 .. k \/ i = k + 1 \/ i = k + 2
    OBVIOUS
  <2>10. /\ RowUndo(e[2]).undo = "row" /\ RowUndo(e[2]).arg = e[2] /\ TableUndo(e[1]).undo = "table"
    BY DEF RowUndo, TableUndo
  <2>11. /\ Paired(L)
         /\ \A i \in 1 .. k : L[i].undo = "row" => L[i].arg \in exclusive'[t]
    BY <1>0, <2>3, <2>4, <2>8 DEF LogsOK, Ended
  <2>12. Paired(M)
    <3> SUFFICES ASSUME NEW i \in 1 .. k + 2
                 PROVE  /\ M[i].undo = "row" => i + 1 \in 1 .. k + 2 /\ M[i + 1].undo = "table"
                        /\ M[i].undo = "table" => i - 1 \in 1 .. k + 2 /\ M[i - 1].undo = "row"
      BY <2>6 DEF Paired
    <3>1. CASE i \in 1 .. k
      <4>1. /\ L[i].undo = "row" => i + 1 \in 1 .. k /\ L[i + 1].undo = "table"
            /\ L[i].undo = "table" => i - 1 \in 1 .. k /\ L[i - 1].undo = "row"
        BY <2>4, <2>11, <3>1 DEF Paired
      <4>2. \A j \in 1 .. k : j \in 1 .. k + 2
        OBVIOUS
      <4> QED  BY <2>6, <3>1, <4>1, <4>2
    <3>2. CASE i = k + 1
      <4>1. i + 1 = k + 2 /\ k + 2 \in 1 .. k + 2
        BY <3>2
      <4> QED  BY <2>6, <2>10, <3>2, <4>1
    <3>3. CASE i = k + 2
      <4>1. i - 1 = k + 1 /\ k + 1 \in 1 .. k + 2
        BY <3>3
      <4> QED  BY <2>6, <2>10, <3>3, <4>1
    <3> QED  BY <2>9, <3>1, <3>2, <3>3
  <2>13. \A i \in 1 .. k + 2 : M[i].undo = "row" => M[i].arg \in exclusive'[t]
    BY <2>6, <2>7, <2>9, <2>10, <2>11
  <2> QED  BY <2>5, <2>6, <2>8, <2>12, <2>13
<1>5. CASE Abort(t)
  <2>1. Len(log[t]) \in Nat
    BY <1>0, LenProperties DEF TypeOK
  <2> QED  BY <1>0, <1>3, <1>5, <2>1 DEF Abort, TypeOK
<1>6. CASE UndoTable(t) \/ UndoRow(t)
  <2>1. pc[t] = "undo" /\ todo[t] > 0 /\ todo'[t] = todo[t] - 1 /\ log' = log
    BY <1>0, <1>6 DEF UndoTable, UndoRow, Rollback, TypeOK
  <2>2. todo[t] \in Nat /\ Len(log[t]) \in Nat /\ todo[t] <= Len(log[t])
    BY <1>0, <2>1, LenProperties DEF TypeOK, LogsOK
  <2> QED  BY <1>3, <2>1, <2>2
<1>7. CASE UNCHANGED <<log, todo>> /\ (pc'[t] = "undo" => pc[t] = "undo")
  BY <1>0, <1>3, <1>7 DEF LogsOK
<1>8. \/ CreateLocked(t) \/ Abort(t) \/ UndoTable(t) \/ UndoRow(t)
      \/ UNCHANGED <<log, todo>> /\ (pc'[t] = "undo" => pc[t] = "undo")
  BY <1>0 DEF CatStep, CallStep, Begin, AllTables, GetTable, LookUp, CreateTable, CreateFails, DropTable, Commit,
     CreateRefused, LockRow, LockUpgrade, LockRefused, LookDone, DropDone, UndoTableFails, Unlock, End, TypeOK
<1> QED  BY <1>4, <1>5, <1>6, <1>7, <1>8

(* A call finds latch_ and the rows it waits for as it has left them.      *)
LEMMA CallsStep ==
    ASSUME CatInv, NEW t \in Txns, CatStep(t)
    PROVE  CallsOK'
<1> USE DEF Goto, lockVars, autoVars, pageVars
<1>0. TypeOK /\ LogsOK /\ Compatible /\ CallsOK /\ TypeOK' /\ Others(t) /\ LockStep(t)
  BY TypeStep, LockSteps DEF CatInv
<1>N. None \notin Txns
  BY FreePlaces
<1> DEFINE Mine ==
        /\ pc'[t] = "create" => \E e \in Names \X Rids : want'[t] = {e}
        /\ pc'[t] = "drop" =>
              \E e \in Names \X Rids :
                 /\ seen'[t] = {e} /\ want'[t] \subseteq {e}
                 /\ want'[t] = {} => e[2] \in exclusive'[t]
                 /\ \A g \in got'[t] : g[1] # e[1]
        /\ pc'[t] = "look" => \A e \in seen'[t] \ want'[t] : e[2] \in shared'[t] \cup exclusive'[t]
<1> DEFINE Latched == \A u \in Txns : pc'[u] = "create" <=> latch' = u
<1> SUFFICES Mine /\ Latched
  <2> SUFFICES ASSUME Mine, Latched, NEW u \in Txns PROVE CallsOK!(u)'
    BY DEF CallsOK
  <2>1. CASE u = t
    BY <2>1
  <2>2. CASE u # t
    BY <1>0, <2>2 DEF CallsOK, Others
  <2> QED  BY <2>1, <2>2
<1>1. ASSUME latch' = latch, pc[t] = "create" <=> pc'[t] = "create" PROVE Latched
  BY <1>0, <1>1 DEF CallsOK, Others
<1>2. ASSUME latch = t, latch' = None, pc'[t] # "create" PROVE Latched
  BY <1>0, <1>N, <1>2 DEF CallsOK, Others
<1>3. ASSUME pc'[t] \in {"idle", "undo", "failed", "unlock"} \cup Ended PROVE Mine
  BY <1>3 DEF Ended
<1>4. ASSUME NEW n \in Names, CreateTable(t, n) PROVE Mine /\ Latched
  <2>1. /\ latch = None /\ latch' = t /\ pc' = [pc EXCEPT ![t] = "create"]
        /\ want' = [want EXCEPT ![t] = {<<n, FirstFree>>}] /\ FirstFree \in Rids
    BY <1>4, FreePlaces DEF CreateTable, Calling, LatchFree
  <2>2. Mine
    BY <1>0, <2>1 DEF TypeOK
  <2>3. Latched
    BY <1>0, <1>N, <2>1 DEF TypeOK, CallsOK
  <2> QED  BY <2>2, <2>3
<1>5. ASSUME NEW n \in Names, DropTable(t, n) PROVE Mine /\ Latched
  <2>1. /\ latch' = latch /\ pc[t] = "idle" /\ pc'[t] = "drop"
        /\ want'[t] = {<<n, tables[n]>>} /\ seen'[t] = {<<n, tables[n]>>}
        /\ got'[t] = {e \in got[t] : e[1] # n}
        /\ <<n, tables[n]>> \in Names \X Rids
    BY <1>0, <1>5 DEF DropTable, Calling, TypeOK
  <2> QED  BY <1>1, <2>1
<1>6. ASSUME NEW es, LookUp(t, es) PROVE Mine /\ Latched
  <2>1. latch' = latch /\ pc[t] = "idle" /\ pc'[t] = "look" /\ want'[t] = es /\ seen'[t] = es
    BY <1>0, <1>6 DEF LookUp, Calling, TypeOK
  <2> QED  BY <1>1, <2>1
<1>7. CASE AllTables(t) \/ \E n \in Names : GetTable(t, n)
  BY <1>6, <1>7 DEF AllTables, GetTable
<1>8. CASE CreateLocked(t) \/ CreateRefused(t)
  <2>1. pc[t] = "create" /\ pc'[t] = "idle" /\ latch' = None
    BY <1>0, <1>8 DEF CreateLocked, CreateRefused, TypeOK
  <2>2. latch = t
    BY <1>0, <2>1 DEF CallsOK
  <2> QED  BY <1>2, <1>3, <2>1, <2>2
<1>9. CASE LockRow(t)
  <2>1. PICK e \in want[t] : Grant(t, e[2]) /\ want' = [want EXCEPT ![t] = @ \ {e}]
    BY <1>9 DEF LockRow
  <2>2. /\ pc' = pc /\ seen' = seen /\ got' = got /\ latch' = latch /\ pc[t] \in {"drop", "look"}
        /\ want'[t] = want[t] \ {e} /\ e[2] \in Rids
    BY <1>0, <1>9, <2>1 DEF LockRow, TypeOK
  <2>3. CASE pc[t] = "drop"
    <3>1. e[2] \in exclusive'[t] /\ exclusive[t] \subseteq exclusive'[t]
      BY <1>0, <2>1, <2>2, <2>3 DEF Grant, Exclusively, Locks!GrantExclusive, TypeOK
    <3> QED  BY <1>0, <1>1, <2>1, <2>2, <2>3, <3>1 DEF CallsOK
  <2>4. CASE pc[t] = "look"
    <3>1. /\ e[2] \in shared'[t] \cup exclusive'[t]
          /\ shared[t] \cup exclusive[t] \subseteq shared'[t] \cup exclusive'[t]
      BY <1>0, <2>1, <2>2, <2>4 DEF Grant, Exclusively, Locks!GrantShared, TypeOK
    <3> QED  BY <1>0, <1>1, <2>1, <2>2, <2>4, <3>1 DEF CallsOK
  <2> QED  BY <2>2, <2>3, <2>4
<1>10. CASE LockUpgrade(t)
  <2>1. /\ pc' = pc /\ seen' = seen /\ got' = got /\ latch' = latch /\ pc[t] = "drop"
        /\ want' = want /\ exclusive' = exclusive
    BY <1>10 DEF LockUpgrade, Locks!DropForUpgrade
  <2> QED  BY <1>0, <1>1, <2>1 DEF CallsOK
<1>11. CASE Begin(t) \/ CreateFails(t)
  <2>1. UNCHANGED <<pc, seen, got, latch, want, shared, exclusive>>
    BY <1>11 DEF Begin, Locks!Begin, CreateFails
  <2> QED  BY <1>0, <1>1, <2>1 DEF CallsOK
<1>12. CASE LockRefused(t) \/ LookDone(t) \/ DropDone(t) \/ Commit(t) \/ Abort(t)
            \/ UndoTable(t) \/ UndoTableFails(t) \/ UndoRow(t) \/ Unlock(t) \/ End(t)
  <2>1. /\ latch' = latch /\ pc[t] # "create"
        /\ pc'[t] \in {"idle", "undo", "failed", "unlock"} \cup Ended
    BY <1>0, <1>12 DEF LockRefused, LookDone, DropDone, Locked, Commit, Abort, UndoTable, UndoTableFails, Rollback,
       UndoRow, Unlock, End, TypeOK, Ended
  <2> QED  BY <1>1, <1>3, <2>1 DEF Ended
<1> QED
  BY <1>4, <1>5, <1>7, <1>8, <1>9, <1>10, <1>11, <1>12 DEF CatStep, CallStep

(* TableHeap::create takes a page for a heap that has none.                *)
LEMMA HeapMade ==
    ASSUME TypeOK, PagesOK, NEW n \in Names, first[n] = None, NewHeap(n)
    PROVE  PagesOK' /\ first'[n] # None /\ \A m \in Names \ {n} : first'[m] = first[m]
<1>1. PICK p \in Pages \ used :
         used' = used \cup {p} /\ first' = [first EXCEPT ![n] = p] /\ UNCHANGED leaks
  BY FreePlaces DEF TypeOK
<1>2. p # None /\ first'[n] = p /\ \A m \in Names \ {n} : first'[m] = first[m]
  BY <1>1, FreePlaces DEF TypeOK
<1>3. /\ \A m \in Names : first'[m] # None => first'[m] \in used'
      /\ \A l, m \in Names : l # m /\ first'[l] # None => first'[l] # first'[m]
  BY <1>1, <1>2 DEF PagesOK
<1>4. Owned' = Owned \cup {p}
  BY <1>2 DEF Owned
<1>5. used' \ Owned' = used \ Owned
  BY <1>1, <1>4
<1> QED  BY <1>1, <1>2, <1>3, <1>5 DEF PagesOK

(* A page that its heap gives up without giving it back is a leak.         *)
LEMMA HeapGivenUp ==
    ASSUME TypeOK, PagesOK, NEW n \in Names, first[n] # None,
           first' = [first EXCEPT ![n] = None], leaks' = leaks + 1, UNCHANGED used
    PROVE  PagesOK' /\ first'[n] = None /\ \A m \in Names \ {n} : first'[m] = first[m]
<1>1. first'[n] = None /\ \A m \in Names \ {n} : first'[m] = first[m]
  BY DEF TypeOK
<1>2. /\ \A m \in Names : first'[m] # None => first'[m] \in used'
      /\ \A l, m \in Names : l # m /\ first'[l] # None => first'[l] # first'[m]
  BY <1>1 DEF PagesOK
<1>3. first[n] \in used /\ first[n] \in Owned /\ Owned' = Owned \ {first[n]}
  BY <1>1 DEF PagesOK, Owned
<1>4. PICK U : U = used \ Owned
  OBVIOUS
<1>5. used' \ Owned' = U \cup {first[n]} /\ first[n] \notin U
  BY <1>3, <1>4
<1>6. IsFiniteSet(U)
  BY <1>4, FreePlaces, FS_Subset DEF TypeOK
<1>7. Cardinality(U \cup {first[n]}) = Cardinality(U) + 1
  BY <1>5, <1>6, FS_AddElement
<1> QED  BY <1>1, <1>2, <1>4, <1>5, <1>7 DEF PagesOK

(* Table::drop_pages gives the page back, or leaks it.                     *)
LEMMA HeapDropped ==
    ASSUME TypeOK, PagesOK, NEW n \in Names, first[n] # None, DropPages(n)
    PROVE  PagesOK' /\ first'[n] = None /\ \A m \in Names \ {n} : first'[m] = first[m]
<1>1. first' = [first EXCEPT ![n] = None]
  BY DEF DropPages
<1>2. first'[n] = None /\ \A m \in Names \ {n} : first'[m] = first[m]
  BY <1>1 DEF TypeOK
<1>3. CASE used' = used \ {first[n]} /\ UNCHANGED leaks
  <2>1. \A m \in Names \ {n} : first[m] # None => first[m] \in used /\ first[m] # first[n]
    BY DEF PagesOK
  <2>2. \A m \in Names : first'[m] # None => first'[m] \in used'
    BY <1>2, <1>3, <2>1
  <2>3. \A l, m \in Names : l # m /\ first'[l] # None => first'[l] # first'[m]
    BY <1>2 DEF PagesOK
  <2>4. Owned' = Owned \ {first[n]}
    BY <1>2, <2>1 DEF Owned
  <2>5. first[n] \in Owned
    BY DEF Owned
  <2>6. used' \ Owned' = used \ Owned
    BY <1>3, <2>4, <2>5
  <2> QED  BY <1>2, <1>3, <2>2, <2>3, <2>6 DEF PagesOK
<1>4. CASE leaks' = leaks + 1 /\ UNCHANGED used
  BY <1>1, <1>4, HeapGivenUp
<1> QED  BY <1>3, <1>4 DEF DropPages

(* Who creates a table has latch_.                                         *)
LEMMA Creator ==
    ASSUME TypeOK, CallsOK
    PROVE  /\ latch = None => \A n : ~Creating(n)
           /\ \A t \in Txns : latch = t => \A n : Creating(n) <=> \E e \in want[t] : e[1] = n
<1>1. latch = None => \A n : ~Creating(n)
  BY FreePlaces DEF Creating, CallsOK
<1>2. ASSUME NEW t \in Txns, latch = t, NEW n PROVE Creating(n) <=> \E e \in want[t] : e[1] = n
  <2>1. \A u \in Txns : pc[u] = "create" <=> u = t
    BY <1>2 DEF CallsOK
  <2> QED  BY <2>1 DEF Creating
<1> QED  BY <1>1, <1>2

(* Nobody creates a table while latch_ is free.                            *)
LEMMA Nobody ==
    TypeOK /\ CallsOK => (latch = None => \A m : ~Creating(m))
BY Creator

(* The drop of a table that is in the map, with nobody in latch_.          *)
LEMMA TableDropped ==
    ASSUME TypeOK, CallsOK, CallsOK', TypeOK', HeapsOK, PagesOK, latch = None, latch' = None,
           NEW n \in Names, tables[n] # None,
           \/ DropPages(n) /\ tables' = Erased(n)
           \/ UNCHANGED <<tables, first, used, leaks>>
    PROVE  HeapsOK' /\ PagesOK'
<1>1. (\A m : ~Creating(m)) /\ (\A m : ~Creating(m))'
  <2>1. latch = None => \A m : ~Creating(m)
    BY Creator
  <2>2. (TypeOK /\ CallsOK)'
    OBVIOUS
  <2>3. (latch = None => \A m : ~Creating(m))'
    BY <2>2, Nobody, PTL
  <2> QED  BY <2>1, <2>3
<1>2. first[n] # None
  BY DEF HeapsOK
<1>3. CASE DropPages(n) /\ tables' = Erased(n)
  <2>1. PagesOK' /\ first'[n] = None /\ \A m \in Names \ {n} : first'[m] = first[m]
    BY <1>2, <1>3, HeapDropped
  <2>2. tables'[n] = None /\ \A m \in Names \ {n} : tables'[m] = tables[m]
    BY <1>3 DEF Erased, TypeOK
  <2> QED  BY <1>1, <2>1, <2>2 DEF HeapsOK
<1>4. CASE UNCHANGED <<tables, first, used, leaks>>
  <2>1. PagesOK'
    BY <1>4 DEF PagesOK, Owned
  <2> QED  BY <1>1, <1>4, <2>1 DEF HeapsOK
<1> QED  BY <1>3, <1>4

(* The heaps stay those of the map and of the creation, and the pages      *)
(* those of the heaps.                                                     *)
LEMMA HeapsStep ==
    ASSUME CatInv, NEW t \in Txns, CatStep(t)
    PROVE  HeapsOK' /\ PagesOK'
<1> USE DEF Goto, lockVars, autoVars, pageVars
<1>0. /\ TypeOK /\ CallsOK /\ HeapsOK /\ PagesOK /\ TypeOK' /\ CallsOK' /\ Others(t)
      /\ LogsOK
  BY TypeStep, CallsStep DEF CatInv
<1>N. None \notin Txns
  BY FreePlaces
<1>1. \A n : /\ latch = None => ~Creating(n)
             /\ latch = t => (Creating(n) <=> \E e \in want[t] : e[1] = n)
  BY <1>0, Creator
<1>2. TypeOK' /\ CallsOK' => /\ (latch = None => \A m : ~Creating(m))'
                             /\ (latch = t => \A m : Creating(m) <=> \E e \in want[t] : e[1] = m)'
  <2>1. (latch = None => \A m : ~Creating(m))'
    BY <1>0, Nobody, PTL
  <2>2. \A u \in Txns : latch' = t => (pc'[u] = "create" <=> u = t)
    BY <1>0 DEF CallsOK
  <2> QED  BY <2>1, <2>2 DEF Creating
<1>3. ASSUME UNCHANGED <<tables, first, used, leaks>>, \A n : Creating(n)' <=> Creating(n)
      PROVE  HeapsOK' /\ PagesOK'
  BY <1>0, <1>3 DEF HeapsOK, PagesOK, Owned
<1>4. ASSUME NEW n \in Names, CreateTable(t, n) PROVE HeapsOK' /\ PagesOK'
  <2>1. /\ latch = None /\ latch' = t /\ tables[n] = None /\ tables' = tables
        /\ NewHeap(n) /\ want'[t] = {<<n, FirstFree>>}
    BY <1>0, <1>4 DEF CreateTable, Calling, LatchFree, TypeOK
  <2>2. first[n] = None
    BY <1>0, <1>1, <2>1 DEF HeapsOK
  <2>3. PagesOK' /\ first'[n] # None /\ \A m \in Names \ {n} : first'[m] = first[m]
    BY <1>0, <2>1, <2>2, HeapMade
  <2>4. \A m : Creating(m)' <=> m = n
    BY <1>0, <1>2, <2>1
  <2> QED  BY <1>0, <1>1, <2>1, <2>3, <2>4 DEF HeapsOK
<1>5. CASE CreateLocked(t) \/ CreateRefused(t)
  <2>1. PICK e \in Names \X Rids : want[t] = {e}
    BY <1>0, <1>5 DEF CreateLocked, CreateRefused, CallsOK
  <2>2. latch = t /\ latch' = None
    BY <1>0, <1>5 DEF CreateLocked, CreateRefused, CallsOK
  <2>3. /\ \A m : Creating(m) <=> m = e[1]
        /\ \A m : ~Creating(m)'
    BY <1>0, <1>1, <1>2, <2>1, <2>2
  <2>4. e[1] \in Names /\ e[2] \in Rids /\ None \notin Rids
    BY FreePlaces
  <2>5. first[e[1]] # None /\ tables[e[1]] = None
    BY <1>0, <2>3, <2>4 DEF HeapsOK
  <2>6. CASE CreateLocked(t)
    <3>1. tables' = [tables EXCEPT ![e[1]] = e[2]] /\ UNCHANGED <<first, used, leaks>>
      BY <2>1, <2>6 DEF CreateLocked
    <3>2. tables'[e[1]] = e[2] /\ \A m \in Names \ {e[1]} : tables'[m] = tables[m]
      BY <1>0, <2>4, <3>1 DEF TypeOK
    <3>3. PagesOK'
      BY <1>0, <3>1 DEF PagesOK, Owned
    <3> QED  BY <1>0, <2>3, <2>4, <2>5, <3>1, <3>2, <3>3 DEF HeapsOK
  <2>7. CASE CreateRefused(t)
    <3>1. GiveUpHeap(e[1]) /\ tables' = tables
      BY <2>1, <2>7 DEF CreateRefused
    <3>2. PagesOK' /\ first'[e[1]] = None /\ \A m \in Names \ {e[1]} : first'[m] = first[m]
      BY <1>0, <2>4, <2>5, <3>1, HeapGivenUp DEF GiveUpHeap
    <3> QED  BY <1>0, <2>3, <2>5, <3>1, <3>2 DEF HeapsOK
  <2> QED  BY <1>5, <2>6, <2>7
<1>6. CASE DropDone(t)
  <2>1. latch = None /\ latch' = None /\ pc'[t] # "create" /\ pc[t] # "create"
    BY <1>0, <1>6 DEF DropDone, Locked, LatchFree, TypeOK
  <2>2. PICK e \in seen[t] :
           \/ Unchanged(t) /\ Dropping(e[1], FALSE)
           \/ UNCHANGED <<tables, first, used, leaks>>
    BY <1>6 DEF DropDone, PagesUnread
  <2>3. CASE Unchanged(t) /\ Dropping(e[1], FALSE)
    <3>1. e \in Entries
      BY <2>2, <2>3 DEF Unchanged
    <3>2. e[1] \in Names /\ tables[e[1]] # None
      BY <3>1 DEF Entries
    <3>3. \/ DropPages(e[1]) /\ tables' = Erased(e[1])
          \/ UNCHANGED <<tables, first, used, leaks>>
      BY <2>2, <2>3 DEF Dropping, PagesUnread
    <3> QED  BY <1>0, <2>1, <3>2, <3>3, TableDropped
  <2>4. CASE UNCHANGED <<tables, first, used, leaks>>
    BY <1>1, <1>2, <1>3, <1>0, <2>1, <2>4
  <2> QED  BY <2>2, <2>3, <2>4
<1>7. CASE UndoTable(t) \/ UndoTableFails(t)
  <2>1. /\ latch = None /\ latch' = None /\ tables[Record(t).arg] # None
        /\ \/ DropPages(Record(t).arg) /\ tables' = Erased(Record(t).arg)
           \/ UNCHANGED <<tables, first, used, leaks>>
    BY <1>7 DEF UndoTable, UndoTableFails, LatchFree, PagesUnread
  <2>2. Record(t).arg \in Names
    BY <1>0, <1>7, NextRecord DEF UndoTable, UndoTableFails, Rollback
  <2> QED  BY <1>0, <2>1, <2>2, TableDropped
<1>8. CASE /\ UNCHANGED <<tables, first, used, leaks>>
           /\ pc[t] # "create" /\ pc'[t] # "create"
  <2>1. \A n : Creating(n)' <=> Creating(n)
    BY <1>0, <1>8 DEF Creating, Others
  <2> QED  BY <1>3, <1>8, <2>1
<1>11. CASE CreateFails(t)
  <2>1. UNCHANGED <<tables, first, pc, want>> /\ LosesPages
    BY <1>0, <1>11, PagesLost DEF CreateFails
  <2>2. \A n : Creating(n)' <=> Creating(n)
    BY <2>1 DEF Creating
  <2> QED  BY <1>0, <2>1, <2>2, PagesLost DEF HeapsOK
<1>9. CASE Begin(t)
  <2>1. UNCHANGED <<tables, first, used, leaks, pc, want>>
    BY <1>9 DEF Begin
  <2>2. \A n : Creating(n)' <=> Creating(n)
    BY <2>1 DEF Creating
  <2> QED  BY <1>3, <2>1, <2>2
<1>10. \/ \E n \in Names : CreateTable(t, n)
       \/ CreateLocked(t) \/ CreateRefused(t) \/ DropDone(t) \/ UndoTable(t) \/ UndoTableFails(t) \/ Begin(t)
       \/ CreateFails(t)
       \/ UNCHANGED <<tables, first, used, leaks>> /\ pc[t] # "create" /\ pc'[t] # "create"
  <2>1. CASE AllTables(t) \/ \E n \in Names : GetTable(t, n) \/ DropTable(t, n)
    BY <1>0, <2>1 DEF AllTables, GetTable, LookUp, DropTable, Calling, TypeOK
  <2>2. CASE LockRow(t) \/ LockUpgrade(t) \/ LockRefused(t) \/ LookDone(t)
    BY <1>0, <2>2 DEF LockRow, LockUpgrade, LockRefused, LookDone, Locked, TypeOK
  <2>3. CASE UndoRow(t) \/ Unlock(t) \/ End(t) \/ Commit(t) \/ Abort(t)
    BY <1>0, <2>3 DEF UndoRow, Unlock, End, Commit, Abort, TypeOK
  <2> QED  BY <2>1, <2>2, <2>3 DEF CatStep, CallStep
<1> QED  BY <1>4, <1>5, <1>6, <1>7, <1>8, <1>9, <1>10, <1>11

(* The calls without a transaction run in one go under latch_.             *)
LEMMA AutoCatInv ==
    ASSUME CatInv, AutoStep
    PROVE  CatInv'
<1> USE DEF lockVars, autoVars, pageVars
<1>0. TypeOK /\ LogsOK /\ Compatible /\ CallsOK /\ HeapsOK /\ PagesOK
  BY DEF CatInv
<1>1. CreateFailsAuto \/ \E n \in Names : CreateTableAuto(n) \/ DropTableAuto(n)
  BY DEF AutoStep
<1>2. /\ latch = None
      /\ UNCHANGED <<lockVars, latch, log, todo, pc, want, seen, calls, dropped, got, kept>>
  BY <1>1 DEF CreateTableAuto, CreateFailsAuto, DropTableAuto, AutoCall, LatchFree
<1>3. \A m : ~Creating(m)
  BY <1>0, <1>2, Creator
<1>4. (\A m : ~Creating(m))'
  BY <1>2, <1>3 DEF Creating
<1>5. TypeOK'
  <2>0. CASE CreateFailsAuto
    BY <1>0, <1>2, <2>0, PagesLost DEF CreateFailsAuto, TypeOK
  <2>1. ASSUME NEW n \in Names, CreateTableAuto(n) PROVE TypeOK'
    <3>1. /\ FirstFree \in Rids /\ NewHeap(n) /\ broken' = broken
          /\ rows' = [rows EXCEPT ![FirstFree] = n] /\ tables' = [tables EXCEPT ![n] = FirstFree]
      BY <2>1, FreePlaces DEF CreateTableAuto
    <3>2. PICK p \in Pages : /\ used' = used \cup {p} /\ first' = [first EXCEPT ![n] = p]
                             /\ leaks' = leaks /\ faults' = faults
      BY <1>0, <3>1, FreePlaces DEF TypeOK
    <3> QED  BY <1>0, <1>2, <3>1, <3>2 DEF TypeOK
  <2>2. ASSUME NEW n \in Names, DropTableAuto(n) PROVE TypeOK'
    <3>1. /\ tables[n] \in Rids
          /\ rows' \in {rows, [rows EXCEPT ![tables[n]] = None]} /\ tables' \in {tables, [tables EXCEPT ![n] = None]}
      BY <1>0, <2>2 DEF DropTableAuto, DeletedRow, Dropping, Erased, TypeOK
    <3>2. /\ used' \in {used, used \ {first[n]}} /\ first' \in {first, [first EXCEPT ![n] = None]}
          /\ leaks' \in {leaks, leaks + 1} /\ faults' \in {faults, faults + 1}
      BY <2>2 DEF DropTableAuto, Dropping, DropPages, PagesUnread, Fault
    <3>3. broken' \in BOOLEAN
      BY <1>0, <2>2 DEF DropTableAuto, Dropping, TypeOK
    <3>4. leaks' \in Nat /\ faults' \in Nat /\ used' \in SUBSET Pages
      BY <1>0, <3>2 DEF TypeOK
    <3>5. tables' \in [Names -> Rids \cup {None}] /\ rows' \in [Rids -> Names \cup {None}]
      BY <1>0, <3>1 DEF TypeOK
    <3>6. first' \in [Names -> Pages \cup {None}]
      BY <1>0, <3>2 DEF TypeOK
    <3> QED  BY <1>0, <1>2, <3>3, <3>4, <3>5, <3>6 DEF TypeOK
  <2> QED  BY <1>1, <2>0, <2>1, <2>2
<1>6. LogsOK' /\ Compatible' /\ CallsOK'
  BY <1>0, <1>2 DEF LogsOK, Paired, Compatible, CallsOK
<1>7. CASE CreateFailsAuto
  <2>1. UNCHANGED <<tables, first>> /\ LosesPages
    BY <1>0, <1>7, PagesLost DEF CreateFailsAuto
  <2>2. HeapsOK' /\ PagesOK'
    BY <1>0, <1>3, <1>4, <2>1, PagesLost DEF HeapsOK
  <2> QED  BY <1>5, <1>6, <2>2 DEF CatInv
<1>8. ASSUME NEW n \in Names, CreateTableAuto(n) PROVE CatInv'
  <2>1. /\ tables[n] = None /\ NewHeap(n) /\ FirstFree \in Rids /\ None \notin Rids
        /\ tables' = [tables EXCEPT ![n] = FirstFree]
    BY <1>8, FreePlaces DEF CreateTableAuto
  <2>2. first[n] = None
    BY <1>0, <1>3, <2>1 DEF HeapsOK
  <2>3. PagesOK' /\ first'[n] # None /\ \A m \in Names \ {n} : first'[m] = first[m]
    BY <1>0, <2>1, <2>2, HeapMade
  <2>4. tables'[n] # None /\ \A m \in Names \ {n} : tables'[m] = tables[m]
    BY <1>0, <2>1 DEF TypeOK
  <2>5. HeapsOK'
    BY <1>0, <1>3, <1>4, <2>3, <2>4 DEF HeapsOK
  <2> QED  BY <1>5, <1>6, <2>3, <2>5 DEF CatInv
<1>9. ASSUME NEW n \in Names, DropTableAuto(n) PROVE CatInv'
  <2>1. /\ tables[n] # None
        /\ \/ DropPages(n) /\ tables' = Erased(n)
           \/ UNCHANGED <<tables, first, used, leaks>>
    BY <1>9 DEF DropTableAuto, Dropping, PagesUnread
  <2>2. HeapsOK' /\ PagesOK'
    BY <1>0, <1>2, <1>5, <1>6, <2>1, TableDropped
  <2> QED  BY <1>5, <1>6, <2>2 DEF CatInv
<1> QED  BY <1>1, <1>8, <1>9, <1>7

(* At the start there is nothing.                                          *)
LEMMA InitCatInv ==
    Init => CatInv
<1> SUFFICES ASSUME Init PROVE CatInv
  OBVIOUS
<1> USE DEF Init, Locks!Init
<1>1. TypeOK
  <2>1. <<>> \in Seq(Undos)
    OBVIOUS
  <2> QED  BY <2>1 DEF TypeOK, Locks!TransactionState, Pcs
<1>2. LogsOK /\ Compatible /\ CallsOK /\ HeapsOK
  <2>1. \A t \in Txns : log[t] = <<>>
    OBVIOUS
  <2>2. Paired(<<>>)
    BY DEF Paired
  <2>3. LogsOK
    BY <2>1, <2>2 DEF LogsOK
  <2> QED  BY <2>3, FreePlaces DEF Compatible, CallsOK, HeapsOK, Creating
<1>3. PagesOK
  <2>1. used \ Owned = {}
    OBVIOUS
  <2> QED  BY <2>1, FS_EmptySet DEF PagesOK
<1> QED  BY <1>1, <1>2, <1>3 DEF CatInv

(* Every step is a transaction's, or made without one.                     *)
LEMMA CatInvNext ==
    CatInv /\ [Next]_vars => CatInv'
<1>1. ASSUME CatInv, NEW t \in Txns, CatStep(t) PROVE CatInv'
  <2>1. TypeOK /\ Compatible
    BY <1>1 DEF CatInv
  <2>2. LockStep(t)
    BY <1>1, <2>1, LockSteps
  <2>3. Compatible'
    BY <1>1, <2>1, <2>2, LockEffects
  <2> QED  BY <1>1, <2>3, TypeStep, LogsStep, CallsStep, HeapsStep DEF CatInv
<1>2. ASSUME CatInv, UNCHANGED vars PROVE CatInv'
  <2> USE <1>2 DEF CatInv, vars, lockVars, autoVars, pageVars
  <2>1. TypeOK' /\ LogsOK' /\ Compatible'
    BY DEF TypeOK, LogsOK, Paired, Compatible
  <2>2. CallsOK'
    BY DEF CallsOK
  <2>3. HeapsOK' /\ PagesOK'
    BY DEF HeapsOK, Creating, PagesOK, Owned
  <2> QED  BY <2>1, <2>2, <2>3
<1>3. Next => AutoStep \/ \E t \in Txns : CatStep(t)
  BY DEF Next, AutoStep, CatStep
<1> QED  BY <1>1, <1>2, <1>3, AutoCatInv

(* The pages of every table in the map are its own and allocated, and what *)
(* is allocated beyond them are the leaks: of creations that failed after  *)
(* they had allocated a page (catalog.cpp:50-57), and of drops that met a  *)
(* pinned page (table.cpp:104-107), whatever drops and rollbacks meet and  *)
(* however many transactions there are.                                    *)
THEOREM PagesAreKept == Spec => []PagesKept
<1>1. CatInv => PagesKept
  BY DEF CatInv, HeapsOK, PagesOK, Owned, PagesKept
<1> QED  BY <1>1, InitCatInv, CatInvNext, PTL DEF Spec

-----------------------------------------------------------------------------
(* What is known of the rows a transaction may still have to undo, and of  *)
(* the row of a creation under way.                                        *)
LEMMA UndoFacts ==
    ASSUME CatInv, NEW t \in Txns
    PROVE  /\ Depth(t) \in 0 .. Len(log[t]) /\ Len(log[t]) \in Nat
           /\ \A i, r : RowAt(t, i, r) =>
                 /\ i \in Nat /\ i <= Depth(t) /\ r \in Rids /\ r \in exclusive[t]
                 /\ i + 1 \in 1 .. Len(log[t]) /\ log[t][i + 1].undo = "table"
           /\ \A i, n : TableAt(t, i, n) =>
                 /\ i \in Nat /\ i <= Depth(t) /\ i - 1 \in Nat
                 /\ n \in Names /\ RowAt(t, i - 1, log[t][i - 1].arg)
           /\ \A r : Loose(t, r) => pc[t] = "undo"
<1>0. TypeOK /\ LogsOK
  BY DEF CatInv
<1>1. log[t] \in Seq(Undos) /\ Len(log[t]) \in Nat /\ todo[t] \in Nat
  BY <1>0, LenProperties DEF TypeOK
<1>2. Depth(t) \in 0 .. Len(log[t])
  BY <1>0, <1>1 DEF Depth, LogsOK
<1>3. \A i \in 1 .. Len(log[t]) :
         /\ log[t][i].undo = "row" => log[t][i].arg \in Rids
         /\ log[t][i].undo = "table" => log[t][i].arg \in Names
  <2> SUFFICES ASSUME NEW i \in 1 .. Len(log[t]), log[t][i] \in Undos
               PROVE  /\ log[t][i].undo = "row" => log[t][i].arg \in Rids
                      /\ log[t][i].undo = "table" => log[t][i].arg \in Names
    BY <1>1, ElementOfSeq
  <2> QED  BY DEF Undos, RowUndo, TableUndo
<1>4. Depth(t) # 0 => pc[t] \notin Ended
  BY DEF Depth, Ended
<1>5. ASSUME NEW i, NEW r, RowAt(t, i, r)
      PROVE  /\ i \in Nat /\ i <= Depth(t) /\ r \in Rids /\ r \in exclusive[t]
             /\ i + 1 \in 1 .. Len(log[t]) /\ log[t][i + 1].undo = "table"
  <2>1. i \in 1 .. Len(log[t]) /\ i \in Nat /\ i <= Depth(t) /\ Depth(t) # 0
    BY <1>1, <1>2, <1>5 DEF RowAt
  <2>2. log[t][i].undo = "row" /\ log[t][i].arg = r
    BY <1>5 DEF RowAt
  <2> QED  BY <1>0, <1>3, <1>4, <2>1, <2>2 DEF LogsOK, Paired
<1>6. ASSUME NEW i, NEW n, TableAt(t, i, n)
      PROVE  /\ i \in Nat /\ i <= Depth(t) /\ i - 1 \in Nat
             /\ n \in Names /\ RowAt(t, i - 1, log[t][i - 1].arg)
  <2>1. i \in 1 .. Len(log[t]) /\ i \in Nat /\ i <= Depth(t) /\ i - 1 \in Nat
    BY <1>1, <1>2, <1>6 DEF TableAt
  <2>2. log[t][i].undo = "table" /\ log[t][i].arg = n
    BY <1>6 DEF TableAt
  <2>3. i - 1 \in 1 .. Len(log[t]) /\ log[t][i - 1].undo = "row"
    BY <1>0, <2>1, <2>2 DEF LogsOK, Paired
  <2>4. i - 1 \in 1 .. Depth(t)
    BY <1>1, <1>2, <2>1, <2>3
  <2> QED  BY <1>3, <2>1, <2>2, <2>3, <2>4 DEF RowAt
<1>7. ASSUME NEW r, Loose(t, r) PROVE pc[t] = "undo"
  <2>1. Depth(t) + 1 \in 1 .. Len(log[t]) /\ Depth(t) \in 1 .. Depth(t)
    BY <1>5, <1>7 DEF Loose, RowAt
  <2>2. Depth(t) # Len(log[t]) /\ Depth(t) # 0
    BY <1>1, <1>2, <2>1
  <2> QED  BY <2>2 DEF Depth
<1> QED  BY <1>1, <1>2, <1>5, <1>6, <1>7

(* Only who has latch_ has a row that is not in the map yet.               *)
LEMMA NewRowFacts ==
    ASSUME CatInv
    PROVE  \A t \in Txns : \A n, r : NewRow(t, n, r) =>
              /\ latch = t /\ latch # None /\ pc[t] = "create" /\ want[t] = {<<n, r>>}
              /\ n \in Names /\ r \in Rids /\ tables[n] = None
<1>0. TypeOK /\ CallsOK /\ HeapsOK
  BY DEF CatInv
<1> SUFFICES ASSUME NEW t \in Txns, NEW n, NEW r, NewRow(t, n, r)
             PROVE  /\ latch = t /\ latch # None /\ pc[t] = "create" /\ want[t] = {<<n, r>>}
                    /\ n \in Names /\ r \in Rids /\ tables[n] = None
  OBVIOUS
<1>1. pc[t] = "create" /\ <<n, r>> \in want[t]
  BY DEF NewRow
<1>2. PICK e \in Names \X Rids : want[t] = {e}
  BY <1>0, <1>1 DEF CallsOK
<1>3. e = <<n, r>> /\ n \in Names /\ r \in Rids
  BY <1>1, <1>2
<1>4. Creating(n)
  BY <1>1, <1>2, <1>3 DEF Creating
<1> QED  BY <1>0, <1>1, <1>2, <1>3, <1>4, FreePlaces DEF CallsOK, HeapsOK

(* What a transaction may still have to undo stays as it is.               *)
SameUndo(u) ==
    /\ Depth(u)' = Depth(u) /\ log'[u] = log[u]
    /\ \A i, x : (RowAt(u, i, x)' <=> RowAt(u, i, x)) /\ (TableAt(u, i, x)' <=> TableAt(u, i, x))
    /\ \A x : Loose(u, x)' <=> Loose(u, x)

(* It does unless its log or its place in it changes.                      *)
LEMMA UndoSame ==
    ASSUME NEW u, log'[u] = log[u], Depth(u)' = Depth(u)
    PROVE  SameUndo(u)
BY DEF SameUndo, RowAt, TableAt, Loose

(* The step of another transaction does not change it.                     *)
LEMMA OthersSame ==
    ASSUME NEW t, Others(t)
    PROVE  \A u \in Txns \ {t} :
              /\ SameUndo(u)
              /\ \A n, r : NewRow(u, n, r)' <=> NewRow(u, n, r)
<1> SUFFICES ASSUME NEW u \in Txns \ {t}
             PROVE  SameUndo(u) /\ \A n, r : NewRow(u, n, r)' <=> NewRow(u, n, r)
  OBVIOUS
<1>1. Depth(u)' = Depth(u) /\ log'[u] = log[u]
  BY DEF Others, Depth
<1> QED  BY <1>1, UndoSame DEF Others, NewRow

(* A transaction that will not roll back any more.                         *)
Forgotten(u) ==
    /\ \A x : ~Loose(u, x) /\ ~Loose(u, x)'
    /\ \A i, x : ~RowAt(u, i, x)' /\ ~TableAt(u, i, x)'

(* One whose place in the log becomes its beginning is such.               *)
LEMMA UndoForgotten ==
    ASSUME NEW u, Depth(u)' = 0, \A x : ~Loose(u, x)
    PROVE  Forgotten(u)
BY DEF Forgotten, RowAt, TableAt, Loose

(* A step that leaves the map and the rows alone.                          *)
LEMMA QuietStored ==
    ASSUME CatInv, Stored, UNCHANGED <<tables, rows, kept>>,
           \A u \in Txns : SameUndo(u) \/ Forgotten(u),
           \A u \in Txns : \A n, r : NewRow(u, n, r)' <=> NewRow(u, n, r)
    PROVE  Stored'
<1>1. Mapped'
  BY DEF Stored, Mapped
<1>2. Known'
  BY DEF Stored, Known, SameUndo, Forgotten
<1>3. Creations'
  BY DEF Stored, Creations, SameUndo, Forgotten
<1>4. Rollbacks'
  BY DEF Stored, Rollbacks, SameUndo, Forgotten
<1>5. Left'
  BY DEF Stored, Left, SameUndo, Forgotten
<1> QED  BY <1>1, <1>2, <1>3, <1>4, <1>5 DEF Stored

(* A row that is free is nobody's.                                         *)
LEMMA FreeRow ==
    ASSUME CatInv, Stored, NEW r \in Rids, rows[r] = None
    PROVE  /\ r \notin kept /\ \A m \in Names : tables[m] # r
           /\ \A u \in Txns : \A i : ~RowAt(u, i, r)
<1>1. \A m \in Names : tables[m] # r
  BY FreePlaces DEF Stored, Mapped
<1>2. \A u \in Txns : \A i : ~RowAt(u, i, r)
  BY UndoFacts DEF Stored, Rollbacks
<1>3. r \notin kept
  BY DEF Stored, Left
<1> QED  BY <1>1, <1>2, <1>3

(* A new entry goes to a row that is free.                                 *)
LEMMA EntryWritten ==
    ASSUME CatInv, Stored, latch = None, NEW n \in Names, NEW r \in Rids,
           rows[r] = None, tables[n] = None, rows' = [rows EXCEPT ![r] = n], UNCHANGED kept,
           \A u \in Txns : SameUndo(u),
           \/ /\ \A u \in Txns : \A m, x : NewRow(u, m, x)' => m = n /\ x = r
              /\ \E u \in Txns : NewRow(u, n, r)'
              /\ UNCHANGED tables
           \/ /\ \A u \in Txns : \A m, x : ~NewRow(u, m, x)'
              /\ tables' = [tables EXCEPT ![n] = r]
    PROVE  Stored'
<1>0. /\ Mapped /\ Known /\ Creations /\ Rollbacks /\ Left /\ TypeOK
      /\ None \notin Rids /\ None \notin Names
  BY FreePlaces DEF Stored, CatInv
<1>1. rows'[r] = n /\ \A x \in Rids \ {r} : rows'[x] = rows[x]
  BY <1>0 DEF TypeOK
<1>2. /\ r \notin kept /\ \A m \in Names : tables[m] # r
      /\ \A u \in Txns : \A i : ~RowAt(u, i, r)
  BY FreeRow
<1>3. \A u \in Txns : \A m, x : ~NewRow(u, m, x)
  BY NewRowFacts
<1>4. \A m \in Names : tables'[m] = tables[m] \/ (m = n /\ tables'[m] = r)
  BY <1>0 DEF TypeOK
<1>5. Mapped'
  BY <1>0, <1>1, <1>2, <1>4 DEF Mapped, TypeOK
<1>6. Known'
  <2> SUFFICES ASSUME NEW x \in Rids, rows'[x] # None
               PROVE  \/ tables'[rows'[x]] = x \/ x \in kept'
                      \/ \E t \in Txns : NewRow(t, rows[x], x)' \/ Loose(t, x)'
    BY DEF Known
  <2>1. CASE x = r
    <3>1. rows'[x] = n
      BY <1>1, <2>1
    <3>2. CASE tables' = [tables EXCEPT ![n] = r]
      <4>1. tables'[n] = r
        BY <1>0, <3>2 DEF TypeOK
      <4> QED  BY <2>1, <3>1, <4>1
    <3>3. CASE \E u \in Txns : NewRow(u, n, r)'
      BY <2>1, <3>1, <3>3
    <3> QED  BY <3>2, <3>3
  <2>2. CASE x # r
    <3>1. rows'[x] = rows[x] /\ rows[x] \in Names
      BY <1>0, <1>1, <2>2 DEF TypeOK
    <3>2. CASE tables[rows[x]] = x
      BY <1>0, <1>4, <3>1, <3>2
    <3>3. CASE \E t \in Txns : Loose(t, x)
      BY <3>1, <3>3 DEF SameUndo
    <3>4. CASE x \in kept
      BY <3>4
    <3> QED  BY <1>0, <1>3, <3>1, <3>2, <3>3, <3>4 DEF Known
  <2> QED  BY <2>1, <2>2
<1>7. Creations'
  <2> SUFFICES ASSUME NEW t \in Txns, NEW m \in Names, NEW x \in Rids, NewRow(t, m, x)'
               PROVE  /\ rows'[x] = m
                      /\ \A l \in Names : tables'[l] # x
                      /\ \A u \in Txns, i \in Nat : ~RowAt(u, i, x)'
    BY DEF Creations
  <2> QED  BY <1>1, <1>2 DEF SameUndo
<1>8. Rollbacks'
  <2> SUFFICES ASSUME NEW t \in Txns, NEW i \in Nat
               PROVE  /\ \A x \in Rids : RowAt(t, i, x)' =>
                            /\ rows'[x] # None
                            /\ \A j \in Nat : RowAt(t, j, x)' => j = i
                            /\ i = Depth(t)' => \A m \in Names : tables'[m] # x
                      /\ \A m \in Names : TableAt(t, i, m)' => tables'[m] = log'[t][i - 1].arg
    BY DEF Rollbacks
  <2>1. ASSUME NEW x \in Rids, RowAt(t, i, x)'
        PROVE  /\ rows'[x] # None
               /\ \A j \in Nat : RowAt(t, j, x)' => j = i
               /\ i = Depth(t)' => \A m \in Names : tables'[m] # x
    <3>1. RowAt(t, i, x) /\ x # r
      BY <1>2, <2>1 DEF SameUndo
    <3> QED  BY <1>0, <1>1, <1>4, <3>1 DEF SameUndo, Rollbacks
  <2>2. ASSUME NEW m \in Names, TableAt(t, i, m)'
        PROVE  tables'[m] = log'[t][i - 1].arg
    <3>1. TableAt(t, i, m) /\ log'[t] = log[t]
      BY <2>2 DEF SameUndo
    <3>2. tables[m] = log[t][i - 1].arg /\ log[t][i - 1].arg \in Rids
      BY <1>0, <3>1, UndoFacts DEF Rollbacks
    <3>3. m # n
      BY <1>0, <3>2
    <3> QED  BY <1>4, <3>1, <3>2, <3>3
  <2> QED  BY <2>1, <2>2
<1>9. Left'
  <2> SUFFICES ASSUME NEW x \in kept
               PROVE  /\ rows'[x] # None /\ \A m \in Names : tables'[m] # x
                      /\ \A u \in Txns : \A y : ~RowAt(u, y, x)' /\ ~NewRow(u, y, x)'
    BY DEF Left
  <2>1. x \in Rids /\ x # r /\ rows'[x] # None
    BY <1>0, <1>1, <1>2 DEF TypeOK, Left
  <2>2. \A m \in Names : tables'[m] # x
    BY <1>0, <1>4, <2>1 DEF Left
  <2>3. \A u \in Txns : \A y : ~RowAt(u, y, x)' /\ ~NewRow(u, y, x)'
    BY <1>0, <2>1 DEF Left, SameUndo
  <2> QED  BY <2>1, <2>2, <2>3
<1> QED  BY <1>5, <1>6, <1>7, <1>8, <1>9 DEF Stored

(* A table leaves the map with its row, which nobody has to undo.          *)
LEMMA EntryDropped ==
    ASSUME CatInv, Stored, latch = None, NEW n \in Names, tables[n] # None,
           rows' = [rows EXCEPT ![tables[n]] = None], tables' = Erased(n), UNCHANGED kept,
           \A u \in Txns : Forgotten(u) \/ (SameUndo(u) /\ \A i : ~RowAt(u, i, tables[n])),
           \A u \in Txns : \A m, x : ~NewRow(u, m, x)'
    PROVE  Stored'
<1>0. Mapped /\ Known /\ Creations /\ Rollbacks /\ Left /\ TypeOK /\ None \notin Rids
  BY FreePlaces DEF Stored, CatInv
<1>1. PICK r \in Rids : r = tables[n]
  BY <1>0 DEF TypeOK
<1>2. rows'[r] = None /\ \A x \in Rids \ {r} : rows'[x] = rows[x]
  BY <1>0, <1>1 DEF TypeOK
<1>3. tables'[n] = None /\ \A m \in Names \ {n} : tables'[m] = tables[m]
  BY <1>0 DEF Erased, TypeOK
<1>4. rows[r] = n /\ \A m \in Names \ {n} : tables[m] # r
  BY <1>0, <1>1 DEF Mapped
<1>5. \A u \in Txns : \A m, x : ~NewRow(u, m, x)
  BY NewRowFacts
<1>6. Mapped'
  <2> SUFFICES ASSUME NEW m \in Names, tables'[m] # None PROVE rows'[tables'[m]] = m
    BY DEF Mapped
  <2>1. m # n /\ tables'[m] = tables[m]
    BY <1>3
  <2>2. tables[m] \in Rids /\ tables[m] # r
    BY <1>0, <1>4, <2>1 DEF TypeOK
  <2> QED  BY <1>0, <1>2, <2>1, <2>2 DEF Mapped
<1>7. Known'
  <2> SUFFICES ASSUME NEW x \in Rids, rows'[x] # None
               PROVE  tables'[rows'[x]] = x \/ x \in kept' \/ \E t \in Txns : Loose(t, x)'
    BY DEF Known
  <2>1. x # r /\ rows'[x] = rows[x] /\ rows[x] \in Names
    BY <1>0, <1>2 DEF TypeOK
  <2>2. CASE tables[rows[x]] = x
    BY <1>1, <1>3, <2>1, <2>2
  <2>3. CASE \E t \in Txns : Loose(t, x)
    BY <2>3 DEF SameUndo, Forgotten
  <2> QED  BY <1>0, <1>5, <2>1, <2>2, <2>3 DEF Known
<1>8. Creations'
  BY DEF Creations
<1>9. Rollbacks'
  <2> SUFFICES ASSUME NEW t \in Txns, NEW i \in Nat
               PROVE  /\ \A x \in Rids : RowAt(t, i, x)' =>
                            /\ rows'[x] # None
                            /\ \A j \in Nat : RowAt(t, j, x)' => j = i
                            /\ i = Depth(t)' => \A m \in Names : tables'[m] # x
                      /\ \A m \in Names : TableAt(t, i, m)' => tables'[m] = log'[t][i - 1].arg
    BY DEF Rollbacks
  <2>1. CASE Forgotten(t)
    BY <2>1 DEF Forgotten
  <2>2. CASE SameUndo(t) /\ \A j : ~RowAt(t, j, r)
    <3>1. ASSUME NEW x \in Rids, RowAt(t, i, x)'
          PROVE  /\ rows'[x] # None
                 /\ \A j \in Nat : RowAt(t, j, x)' => j = i
                 /\ i = Depth(t)' => \A m \in Names : tables'[m] # x
      <4>1. RowAt(t, i, x) /\ x # r /\ x # None
        BY <1>0, <2>2, <3>1 DEF SameUndo
      <4> QED  BY <1>0, <1>2, <1>3, <2>2, <4>1 DEF SameUndo, Rollbacks
    <3>2. ASSUME NEW m \in Names, TableAt(t, i, m)'
          PROVE  tables'[m] = log'[t][i - 1].arg
      <4>1. TableAt(t, i, m) /\ log'[t] = log[t]
        BY <2>2, <3>2 DEF SameUndo
      <4>2. tables[m] = log[t][i - 1].arg /\ RowAt(t, i - 1, log[t][i - 1].arg)
        BY <1>0, <4>1, UndoFacts DEF Rollbacks
      <4>3. m # n
        BY <1>1, <2>2, <4>2
      <4> QED  BY <1>3, <4>1, <4>2, <4>3
    <3> QED  BY <3>1, <3>2
  <2> QED  BY <1>1, <2>1, <2>2
<1>10. Left'
  <2> SUFFICES ASSUME NEW x \in kept
               PROVE  /\ rows'[x] # None /\ \A m \in Names : tables'[m] # x
                      /\ \A u \in Txns : \A y : ~RowAt(u, y, x)'
    BY DEF Left
  <2>1. x \in Rids /\ x # r /\ x # None /\ rows'[x] # None
    BY <1>0, <1>1, <1>2 DEF TypeOK, Left
  <2>2. \A m \in Names : tables'[m] # x
    BY <1>0, <1>3, <2>1 DEF Left
  <2>3. \A u \in Txns : \A y : ~RowAt(u, y, x)'
    BY <1>0 DEF Left, SameUndo, Forgotten
  <2> QED  BY <2>1, <2>2, <2>3
<1> QED  BY <1>6, <1>7, <1>8, <1>9, <1>10 DEF Stored

(* A row that no table in the map has is deleted, or left behind.          *)
LEMMA RowDeleted ==
    ASSUME CatInv, Stored, NEW t \in Txns, NEW r \in Rids, rows[r] # None, r \notin kept,
           DeleteRow(r), UNCHANGED tables,
           \A m \in Names : tables[m] # r,
           \A u \in Txns : \A x : x # r /\ Loose(u, x) => Loose(u, x)',
           \A u \in Txns : \A i, x : RowAt(u, i, x)' =>
              RowAt(u, i, x) /\ x # r /\ (i = Depth(u)' => i = Depth(u)),
           \A u \in Txns : \A i, m : TableAt(u, i, m)' => TableAt(u, i, m),
           UNCHANGED log,
           \/ \A u \in Txns : \A m, x : ~NewRow(u, m, x)' /\ (NewRow(u, m, x) => x = r)
           \/ /\ \A u \in Txns : \A m, x : NewRow(u, m, x)' <=> NewRow(u, m, x)
              /\ \E i \in Nat : RowAt(t, i, r)
    PROVE  Stored'
<1>0. Mapped /\ Known /\ Creations /\ Rollbacks /\ Left /\ TypeOK /\ None \notin Rids
  BY FreePlaces DEF Stored, CatInv
<1>1. /\ \A x \in Rids \ {r} : rows'[x] = rows[x]
      /\ \/ rows'[r] = None /\ kept' = kept
         \/ rows'[r] = rows[r] /\ kept' = kept \cup {r}
  BY <1>0 DEF DeleteRow, DeletedRow, TypeOK
<1>2. \A u \in Txns, m \in Names, x \in Rids : NewRow(u, m, x)' => NewRow(u, m, x) /\ x # r
  BY <1>0 DEF Creations
<1>3. Mapped'
  BY <1>0, <1>1 DEF Mapped, TypeOK
<1>4. Known'
  <2> SUFFICES ASSUME NEW x \in Rids, rows'[x] # None
               PROVE  \/ tables'[rows'[x]] = x \/ x \in kept'
                      \/ \E u \in Txns : NewRow(u, rows[x], x)' \/ Loose(u, x)'
    BY <1>1 DEF Known
  <2>1. x = r \/ (x # r /\ rows'[x] = rows[x] /\ rows[x] \in Names)
    BY <1>0, <1>1 DEF TypeOK
  <2>2. CASE x = r
    BY <1>1, <2>2
  <2> QED  BY <1>0, <1>1, <2>1, <2>2 DEF Known
<1>5. Creations'
  <2> SUFFICES ASSUME NEW u \in Txns, NEW m \in Names, NEW x \in Rids, NewRow(u, m, x)'
               PROVE  /\ rows'[x] = m
                      /\ \A l \in Names : tables'[l] # x
                      /\ \A v \in Txns, i \in Nat : ~RowAt(v, i, x)'
    BY DEF Creations
  <2> QED  BY <1>0, <1>1, <1>2 DEF Creations
<1>6. Rollbacks'
  BY <1>0, <1>1 DEF Rollbacks
<1>7. Left'
  <2> SUFFICES ASSUME NEW x \in kept'
               PROVE  /\ rows'[x] # None /\ \A m \in Names : tables[m] # x
                      /\ \A u \in Txns : \A y : ~RowAt(u, y, x)' /\ ~NewRow(u, y, x)'
    BY DEF Left
  <2>1. CASE x \in kept
    <3>1. x \in Rids /\ x # r
      BY <1>0, <2>1 DEF TypeOK
    <3> QED  BY <1>0, <1>1, <2>1, <3>1 DEF Left
  <2>2. CASE x = r /\ rows'[r] = rows[r]
    <3>1. \A u \in Txns : \A y : ~NewRow(u, y, r)'
      BY <1>2, NewRowFacts
    <3> QED  BY <2>2, <3>1
  <2> QED  BY <1>1, <2>1, <2>2
<1> QED  BY <1>3, <1>4, <1>5, <1>6, <1>7 DEF Stored

(* What CreateLocked adds to what its transaction has to undo: nothing, or *)
(* the two records at the end.                                             *)
LEMMA CreationLogged ==
    ASSUME CatInv, NEW t \in Txns, NEW n \in Names, NEW r \in Rids, pc[t] = "create", pc'[t] = "idle",
           dropped'[t] = dropped[t], log'[t] = log[t] \o <<RowUndo(r), TableUndo(n)>>
    PROVE  /\ \A x : ~Loose(t, x) /\ ~Loose(t, x)'
           /\ \A i, x : RowAt(t, i, x)' => \/ RowAt(t, i, x) /\ i + 1 <= Depth(t)
                                           \/ x = r /\ i = Depth(t) + 1 /\ ~dropped[t]
           /\ \A i, m : TableAt(t, i, m)' =>
                 \/ TableAt(t, i, m) /\ log'[t][i - 1] = log[t][i - 1]
                 \/ m = n /\ i = Depth(t) + 2 /\ log'[t][i - 1].arg = r
           /\ Depth(t) \in Nat
<1>0. TypeOK
  BY DEF CatInv
<1>1. PICK L \in Seq(Undos) : L = log[t]
  BY <1>0 DEF TypeOK
<1>2. PICK k \in Nat : k = Len(L)
  BY LenProperties
<1>3. PICK M : M = log'[t] /\ M = L \o <<RowUndo(r), TableUndo(n)>>
  BY <1>1
<1>4. /\ Len(M) = k + 2 /\ \A i \in 1 .. k : M[i] = L[i]
      /\ M[k + 1] = RowUndo(r) /\ M[k + 2] = TableUndo(n)
  BY <1>2, <1>3, Appended
<1>5. /\ RowUndo(r).undo = "row" /\ RowUndo(r).arg = r
      /\ TableUndo(n).undo = "table" /\ TableUndo(n).arg = n
  BY DEF RowUndo, TableUndo
<1>6. \A x : ~Loose(t, x)
  BY UndoFacts
<1>7. CASE dropped[t]
  <2>1. Depth(t) = 0 /\ Depth(t)' = 0
    BY <1>7 DEF Depth
  <2> QED  BY <1>6, <2>1 DEF RowAt, TableAt, Loose
<1>8. CASE ~dropped[t]
  <2>1. Depth(t) = k /\ Depth(t)' = k + 2
    BY <1>1, <1>2, <1>3, <1>4, <1>8 DEF Depth
  <2>2. \A i \in 1 .. k + 2 : i \in 1 .. k \/ i = k + 1 \/ i = k + 2
    OBVIOUS
  <2>3. ASSUME NEW x PROVE ~Loose(t, x)'
    BY <1>3, <1>4, <1>5, <2>1 DEF Loose, RowAt
  <2>4. ASSUME NEW i, NEW x, RowAt(t, i, x)'
        PROVE  \/ RowAt(t, i, x) /\ i + 1 <= Depth(t)
               \/ x = r /\ i = k + 1
    <3>1. i \in 1 .. k + 2 /\ M[i].undo = "row" /\ M[i].arg = x
      BY <1>3, <2>1, <2>4 DEF RowAt
    <3>2. CASE i \in 1 .. k
      <4>1. RowAt(t, i, x)
        BY <1>1, <1>4, <2>1, <3>1, <3>2 DEF RowAt
      <4>2. i + 1 \in 1 .. k
        BY <1>1, <1>2, <4>1, UndoFacts
      <4> QED  BY <2>1, <4>1, <4>2
    <3> QED  BY <1>4, <1>5, <2>2, <3>1, <3>2
  <2>5. ASSUME NEW i, NEW m, TableAt(t, i, m)'
        PROVE  \/ TableAt(t, i, m) /\ log'[t][i - 1] = log[t][i - 1]
               \/ m = n /\ i = k + 2 /\ log'[t][i - 1].arg = r
    <3>1. i \in 1 .. k + 2 /\ M[i].undo = "table" /\ M[i].arg = m
      BY <1>3, <2>1, <2>5 DEF TableAt
    <3>2. CASE i \in 1 .. k
      <4>1. TableAt(t, i, m)
        BY <1>1, <1>4, <2>1, <3>1, <3>2 DEF TableAt
      <4>2. RowAt(t, i - 1, log[t][i - 1].arg)
        BY <4>1, UndoFacts
      <4>3. i - 1 \in 1 .. k
        BY <2>1, <4>2 DEF RowAt
      <4> QED  BY <1>1, <1>3, <1>4, <4>1, <4>3
    <3>3. CASE i = k + 2
      <4>1. i - 1 = k + 1
        BY <3>3
      <4> QED  BY <1>3, <1>4, <1>5, <3>1, <3>3, <4>1
    <3> QED  BY <1>4, <1>5, <2>2, <3>1, <3>2, <3>3
  <2>6. \A i, x : RowAt(t, i, x)' => \/ RowAt(t, i, x) /\ i + 1 <= Depth(t)
                                     \/ x = r /\ i = Depth(t) + 1 /\ ~dropped[t]
    BY ONLY <1>8, <2>1, <2>4
  <2>7. \A i, m : TableAt(t, i, m)' =>
           \/ TableAt(t, i, m) /\ log'[t][i - 1] = log[t][i - 1]
           \/ m = n /\ i = Depth(t) + 2 /\ log'[t][i - 1].arg = r
    BY ONLY <2>1, <2>5
  <2> QED  BY <1>6, <2>1, <2>3, <2>6, <2>7
<1> QED  BY <1>7, <1>8

(* The new table enters the map.                                           *)
LEMMA CreatedStored ==
    ASSUME CatInv, Stored, TypeOK', NEW t \in Txns, CreateLocked(t), Others(t)
    PROVE  Stored'
<1>0. Mapped /\ Known /\ Creations /\ Rollbacks /\ Left /\ TypeOK /\ CallsOK /\ None \notin Rids
  BY FreePlaces DEF Stored, CatInv
<1>1. PICK e \in want[t] :
         /\ tables' = [tables EXCEPT ![e[1]] = e[2]]
         /\ log' = [log EXCEPT ![t] = @ \o <<RowUndo(e[2]), TableUndo(e[1])>>]
  BY DEF CreateLocked
<1>2. PICK n \in Names, r \in Rids : n = e[1] /\ r = e[2] /\ <<n, r>> = e
  BY <1>0, <1>1 DEF TypeOK
<1>3. NewRow(t, n, r) /\ pc[t] = "create" /\ pc'[t] = "idle" /\ rows' = rows /\ dropped' = dropped
      /\ kept' = kept
  BY <1>0, <1>1, <1>2 DEF CreateLocked, NewRow, Goto, autoVars, TypeOK
<1>4. /\ latch = t /\ want[t] = {<<n, r>>} /\ tables[n] = None
      /\ \A u \in Txns : \A m, x : NewRow(u, m, x) => u = t /\ m = n /\ x = r
  BY <1>3, NewRowFacts
<1>5. /\ rows[r] = n /\ \A m \in Names : tables[m] # r
      /\ \A u \in Txns : \A i : ~RowAt(u, i, r)
  BY <1>0, <1>3, UndoFacts DEF Creations
<1>6. tables'[n] = r /\ \A m \in Names \ {n} : tables'[m] = tables[m]
  BY <1>0, <1>1, <1>2 DEF TypeOK
<1>7. log'[t] = log[t] \o <<RowUndo(r), TableUndo(n)>>
  BY <1>0, <1>1, <1>2 DEF TypeOK
<1>8. \A u \in Txns : \A m, x : ~NewRow(u, m, x)'
  BY <1>3, <1>4, OthersSame DEF NewRow
<1>9. \A u \in Txns \ {t} : SameUndo(u)
  BY OthersSame
<1>10. /\ \A x : ~Loose(t, x) /\ ~Loose(t, x)'
       /\ \A i, x : RowAt(t, i, x)' => \/ RowAt(t, i, x) /\ i + 1 <= Depth(t)
                                       \/ x = r /\ i = Depth(t) + 1 /\ ~dropped[t]
       /\ \A i, m : TableAt(t, i, m)' =>
             \/ TableAt(t, i, m) /\ log'[t][i - 1] = log[t][i - 1]
             \/ m = n /\ i = Depth(t) + 2 /\ log'[t][i - 1].arg = r
       /\ Depth(t) \in Nat
  BY <1>3, <1>7, CreationLogged
<1>11. Mapped'
  BY <1>0, <1>3, <1>5, <1>6 DEF Mapped
<1>12. Known'
  <2> SUFFICES ASSUME NEW x \in Rids, rows[x] # None
               PROVE  tables'[rows[x]] = x \/ x \in kept \/ \E u \in Txns : Loose(u, x)'
    BY <1>3 DEF Known
  <2>1. rows[x] \in Names
    BY <1>0 DEF TypeOK
  <2>2. CASE tables[rows[x]] = x
    BY <1>0, <1>4, <1>6, <2>1, <2>2
  <2>3. CASE \E u \in Txns : NewRow(u, rows[x], x)
    BY <1>4, <1>6, <2>3
  <2>4. CASE \E u \in Txns : Loose(u, x)
    BY <1>9, <1>10, <2>4 DEF SameUndo
  <2> QED  BY <1>0, <2>2, <2>3, <2>4 DEF Known
<1>13. Creations'
  BY <1>8 DEF Creations
<1>14. Rollbacks'
  <2> SUFFICES ASSUME NEW u \in Txns, NEW i \in Nat
               PROVE  /\ \A x \in Rids : RowAt(u, i, x)' =>
                            /\ rows'[x] # None
                            /\ \A j \in Nat : RowAt(u, j, x)' => j = i
                            /\ i = Depth(u)' => \A m \in Names : tables'[m] # x
                      /\ \A m \in Names : TableAt(u, i, m)' => tables'[m] = log'[u][i - 1].arg
    BY DEF Rollbacks
  <2>1. ASSUME NEW x \in Rids, RowAt(u, i, x)'
        PROVE  /\ rows'[x] # None
               /\ \A j \in Nat : RowAt(u, j, x)' => j = i
               /\ i = Depth(u)' => \A m \in Names : tables'[m] # x
    <3>1. CASE u = t
      <4>1. ~Loose(t, x)'
        BY <1>10
      <4>2. i # Depth(t)'
        BY <2>1, <3>1, <4>1 DEF Loose
      <4>3. CASE x = r
        <5>1. \A j \in Nat : RowAt(t, j, r)' => j = Depth(t) + 1
          BY <1>5, <1>10
        <5> QED  BY <1>3, <1>5, <2>1, <3>1, <4>2, <4>3, <5>1, FreePlaces
      <4>4. CASE x # r
        BY <1>0, <1>3, <1>10, <2>1, <3>1, <4>2, <4>4 DEF Rollbacks
      <4> QED  BY <4>3, <4>4
    <3>2. CASE u # t
      <4>1. SameUndo(u)
        BY <1>9, <3>2
      <4>2. RowAt(u, i, x) /\ x # r
        BY <1>5, <2>1, <4>1 DEF SameUndo
      <4>3. \A m \in Names : tables[m] # x => tables'[m] # x
        BY <1>6, <4>2
      <4> QED  BY <1>0, <1>3, <4>1, <4>2, <4>3 DEF SameUndo, Rollbacks
    <3> QED  BY <3>1, <3>2
  <2>2. ASSUME NEW m \in Names, TableAt(u, i, m)'
        PROVE  tables'[m] = log'[u][i - 1].arg
    <3>1. ASSUME TableAt(u, i, m), log'[u][i - 1] = log[u][i - 1]
          PROVE  tables'[m] = log'[u][i - 1].arg
      <4>1. tables[m] = log[u][i - 1].arg /\ log[u][i - 1].arg \in Rids
        BY <1>0, <3>1, UndoFacts DEF Rollbacks
      <4>2. m # n
        BY <1>0, <1>4, <4>1
      <4> QED  BY <1>6, <3>1, <4>1, <4>2
    <3>2. CASE u = t
      BY <1>6, <1>10, <2>2, <3>1, <3>2
    <3>3. CASE u # t
      BY <1>9, <2>2, <3>1, <3>3 DEF SameUndo
    <3> QED  BY <3>2, <3>3
  <2> QED  BY <2>1, <2>2
<1>15. Left'
  <2> SUFFICES ASSUME NEW x \in kept
               PROVE  /\ rows[x] # None /\ \A m \in Names : tables'[m] # x
                      /\ \A u \in Txns : \A y : ~RowAt(u, y, x)'
    BY <1>3, <1>8 DEF Left
  <2>1. x # r /\ rows[x] # None /\ \A m \in Names : tables[m] # x
    BY <1>0, <1>3 DEF Left
  <2>2. \A u \in Txns : \A y : ~RowAt(u, y, x)
    BY <1>0 DEF Left
  <2>3. \A m \in Names : tables'[m] # x
    BY <1>6, <2>1
  <2>4. \A u \in Txns : \A y : ~RowAt(u, y, x)'
    BY <1>9, <1>10, <2>1, <2>2 DEF SameUndo
  <2> QED  BY <2>1, <2>3, <2>4
<1> QED  BY <1>11, <1>12, <1>13, <1>14, <1>15 DEF Stored

(* A rollback goes one record back: what it has still to undo is what it   *)
(* had, without the last record.                                           *)
LEMMA OneUndone ==
    ASSUME CatInv, TypeOK', NEW t \in Txns, pc[t] = "undo", todo[t] > 0,
           pc'[t] = "undo", todo'[t] = todo[t] - 1, log'[t] = log[t]
    PROVE  /\ Depth(t) = todo[t] /\ Depth(t) \in Nat /\ Depth(t)' = Depth(t) - 1
           /\ Record(t) = log[t][Depth(t)] /\ Depth(t) \in 1 .. Depth(t)
           /\ \A i, x : RowAt(t, i, x)' <=> RowAt(t, i, x) /\ i # Depth(t)
           /\ \A i, m : TableAt(t, i, m)' <=> TableAt(t, i, m) /\ i # Depth(t)
<1>1. TypeOK /\ todo[t] \in Nat
  BY DEF CatInv, TypeOK
<1>2. Depth(t) = todo[t] /\ Depth(t)' = Depth(t) - 1
  BY DEF Depth
<1>3. PICK d \in Nat \ {0} : d = todo[t] /\ d - 1 \in Nat
  BY <1>1
<1>4. \A i : i \in 1 .. d - 1 <=> i \in 1 .. d /\ i # d
  BY <1>3
<1>5. \A i, x : RowAt(t, i, x)' <=> RowAt(t, i, x) /\ i # d
  BY <1>2, <1>3, <1>4 DEF RowAt
<1>6. \A i, m : TableAt(t, i, m)' <=> TableAt(t, i, m) /\ i # d
  BY <1>2, <1>3, <1>4 DEF TableAt
<1> QED  BY <1>2, <1>3, <1>5, <1>6 DEF Record

(* rollback_create_table takes the table out of the map, and its row is    *)
(* the next that goes.                                                     *)
LEMMA TableRolledBack ==
    ASSUME CatInv, Stored, TypeOK', NEW t \in Txns, UndoTable(t), Others(t)
    PROVE  Stored'
<1>0. /\ Mapped /\ Known /\ Creations /\ Rollbacks /\ Left /\ TypeOK /\ LogsOK /\ Compatible
      /\ None \notin Rids
  BY FreePlaces DEF Stored, CatInv
<1>1. /\ latch = None /\ pc[t] = "undo" /\ todo[t] > 0 /\ Record(t).undo = "table"
      /\ todo'[t] = todo[t] - 1 /\ UNCHANGED <<rows, log, pc, want, kept>>
      /\ tables' = [tables EXCEPT ![Record(t).arg] = None]
  BY <1>0 DEF UndoTable, Rollback, LatchFree, Erased, autoVars, TypeOK
<1>2. PICK d \in Nat, n \in Names : d = Depth(t) /\ n = Record(t).arg
  BY <1>0, <1>1, OneUndone, NextRecord
<1>3. /\ d \in 1 .. d /\ Depth(t)' = d - 1 /\ Record(t) = log[t][d]
      /\ \A i, x : RowAt(t, i, x)' <=> RowAt(t, i, x) /\ i # d
      /\ \A i, m : TableAt(t, i, m)' <=> TableAt(t, i, m) /\ i # d
  BY <1>1, <1>2, OneUndone
<1>4. TableAt(t, d, n) /\ \A x : ~Loose(t, x)
  BY <1>1, <1>2, <1>3 DEF TableAt, Loose, RowAt
<1>5. d - 1 \in Nat /\ RowAt(t, d - 1, log[t][d - 1].arg) /\ tables[n] = log[t][d - 1].arg
  BY <1>0, <1>4, UndoFacts DEF Rollbacks
<1>6. PICK r \in Rids : r = tables[n] /\ RowAt(t, d - 1, r) /\ r \in exclusive[t]
  BY <1>5, UndoFacts
<1>7. Loose(t, r)' /\ d - 1 # d
  BY <1>2, <1>3, <1>6 DEF Loose
<1>8. tables'[n] = None /\ \A m \in Names \ {n} : tables'[m] = tables[m]
  BY <1>0, <1>1, <1>2 DEF TypeOK
<1>9. rows[r] = n /\ \A m \in Names : tables'[m] # r
  BY <1>0, <1>6, <1>8 DEF Mapped
<1>10. \A u \in Txns : \A m, x : ~NewRow(u, m, x) /\ ~NewRow(u, m, x)'
  <2>1. \A u \in Txns : \A m, x : ~NewRow(u, m, x)
    BY <1>1, NewRowFacts
  <2> QED  BY <1>1, <2>1 DEF NewRow
<1>11. \A u \in Txns \ {t} : SameUndo(u)
  BY OthersSame
<1>12. \A u \in Txns \ {t} : \A i, x : RowAt(u, i, x) => x # r
  BY <1>0, <1>6, UndoFacts DEF Compatible
<1>13. Mapped'
  BY <1>0, <1>1, <1>8 DEF Mapped
<1>14. Known'
  <2> SUFFICES ASSUME NEW x \in Rids, rows[x] # None
               PROVE  tables'[rows[x]] = x \/ x \in kept \/ \E u \in Txns : Loose(u, x)'
    BY <1>1 DEF Known
  <2>1. rows[x] \in Names
    BY <1>0 DEF TypeOK
  <2>2. CASE tables[rows[x]] = x
    BY <1>6, <1>7, <1>8, <2>1, <2>2
  <2>3. CASE \E u \in Txns : Loose(u, x)
    BY <1>4, <1>11, <2>3 DEF SameUndo
  <2> QED  BY <1>0, <1>10, <2>2, <2>3 DEF Known
<1>15. Creations'
  BY <1>10 DEF Creations
<1>16. Rollbacks'
  <2> SUFFICES ASSUME NEW u \in Txns, NEW i \in Nat
               PROVE  /\ \A x \in Rids : RowAt(u, i, x)' =>
                            /\ rows'[x] # None
                            /\ \A j \in Nat : RowAt(u, j, x)' => j = i
                            /\ i = Depth(u)' => \A m \in Names : tables'[m] # x
                      /\ \A m \in Names : TableAt(u, i, m)' => tables'[m] = log'[u][i - 1].arg
    BY DEF Rollbacks
  <2>1. \A v \in Txns : /\ \A j, x : RowAt(v, j, x)' => RowAt(v, j, x)
                        /\ \A j, m : TableAt(v, j, m)' => TableAt(v, j, m)
    BY <1>3, <1>11 DEF SameUndo
  <2>2. ASSUME NEW x \in Rids, RowAt(u, i, x)'
        PROVE  /\ rows'[x] # None
               /\ \A j \in Nat : RowAt(u, j, x)' => j = i
               /\ i = Depth(u)' => \A m \in Names : tables'[m] # x
    <3>1. /\ rows'[x] # None
          /\ \A j \in Nat : RowAt(u, j, x)' => j = i
      BY <1>0, <1>1, <2>1, <2>2 DEF Rollbacks
    <3>2. ASSUME i = Depth(u)', u = t PROVE \A m \in Names : tables'[m] # x
      <4>1. RowAt(t, d - 1, x)
        BY <1>3, <2>2, <3>2
      <4>2. x = r
        BY <1>6, <4>1 DEF RowAt
      <4> QED  BY <1>9, <4>2
    <3>3. ASSUME i = Depth(u)', u # t PROVE \A m \in Names : tables'[m] # x
      <4>1. RowAt(u, i, x) /\ i = Depth(u) /\ x # None
        BY <1>0, <1>11, <2>2, <3>3 DEF SameUndo
      <4>2. \A m \in Names : tables[m] # x
        BY <1>0, <4>1 DEF Rollbacks
      <4> QED  BY <1>8, <4>1, <4>2
    <3> QED  BY <3>1, <3>2, <3>3
  <2>3. ASSUME NEW m \in Names, TableAt(u, i, m)'
        PROVE  tables'[m] = log'[u][i - 1].arg
    <3>1. TableAt(u, i, m)
      BY <2>1, <2>3
    <3>2. tables[m] = log[u][i - 1].arg /\ RowAt(u, i - 1, log[u][i - 1].arg) /\ i - 1 \in Nat
      BY <1>0, <3>1, UndoFacts DEF Rollbacks
    <3>3. CASE m = n
      <4>1. RowAt(u, i - 1, r)
        BY <1>6, <3>2, <3>3
      <4>2. u = t
        BY <1>12, <4>1
      <4>3. i - 1 = d - 1
        BY <1>0, <1>5, <1>6, <3>2, <4>1, <4>2 DEF Rollbacks
      <4>4. i # d
        BY <1>3, <2>3, <4>2
      <4> QED  BY <4>3, <4>4
    <3>4. CASE m # n
      BY <1>1, <1>8, <3>2, <3>4
    <3> QED  BY <3>3, <3>4
  <2> QED  BY <2>2, <2>3
<1>17. Left'
  <2> SUFFICES ASSUME NEW x \in kept
               PROVE  /\ rows[x] # None /\ \A m \in Names : tables'[m] # x
                      /\ \A u \in Txns : \A y : ~RowAt(u, y, x)'
    BY <1>1, <1>10 DEF Left
  <2>1. /\ x \in Rids /\ x # None /\ rows[x] # None /\ \A m \in Names : tables[m] # x
        /\ \A u \in Txns : \A y : ~RowAt(u, y, x)
    BY <1>0 DEF Left, TypeOK
  <2>2. \A m \in Names : tables'[m] # x
    BY <1>8, <2>1
  <2>3. \A u \in Txns : \A y : ~RowAt(u, y, x)'
    BY <1>3, <1>11, <2>1 DEF SameUndo
  <2> QED  BY <2>1, <2>2, <2>3
<1> QED  BY <1>13, <1>14, <1>15, <1>16, <1>17 DEF Stored

(* DeleteUndoRecord deletes the row of the table that has just gone, or    *)
(* leaves it.                                                              *)
LEMMA RowRolledBack ==
    ASSUME CatInv, Stored, TypeOK', NEW t \in Txns, UndoRow(t), Others(t)
    PROVE  Stored'
<1>0. Rollbacks /\ Left /\ TypeOK /\ LogsOK /\ Compatible
  BY DEF Stored, CatInv
<1>1. /\ pc[t] = "undo" /\ todo[t] > 0 /\ Record(t).undo = "row"
      /\ todo'[t] = todo[t] - 1 /\ UNCHANGED <<tables, log, pc, want>>
      /\ DeleteRow(Record(t).arg)
  BY <1>0 DEF UndoRow, TypeOK
<1>2. PICK d \in Nat, r \in Rids : d = Depth(t) /\ r = Record(t).arg
  BY <1>0, <1>1, OneUndone, NextRecord
<1>3. /\ d \in 1 .. d /\ Depth(t)' = d - 1 /\ Record(t) = log[t][d]
      /\ \A i, x : RowAt(t, i, x)' <=> RowAt(t, i, x) /\ i # d
      /\ \A i, m : TableAt(t, i, m)' <=> TableAt(t, i, m) /\ i # d
  BY <1>1, <1>2, OneUndone
<1>4. RowAt(t, d, r) /\ \A x : Loose(t, x) => x = r
  BY <1>1, <1>2, <1>3 DEF RowAt, Loose
<1>5. /\ \A i \in Nat : RowAt(t, i, r) => i = d
      /\ \A m \in Names : tables[m] # r
      /\ rows[r] # None
  BY <1>0, <1>2, <1>4 DEF Rollbacks
<1>6. \A u \in Txns \ {t} : SameUndo(u) /\ \A i, x : RowAt(u, i, x) => x # r
  BY <1>0, <1>4, OthersSame, UndoFacts DEF Compatible
<1>7. \A u \in Txns : \A i, x : RowAt(u, i, x)' =>
         RowAt(u, i, x) /\ x # r /\ (i = Depth(u)' => i = Depth(u))
  <2> SUFFICES ASSUME NEW u \in Txns, NEW i, NEW x, RowAt(u, i, x)'
               PROVE  RowAt(u, i, x) /\ x # r /\ (i = Depth(u)' => i = Depth(u))
    OBVIOUS
  <2>1. CASE u = t
    <3>1. RowAt(t, i, x) /\ i # d /\ i \in Nat
      BY <1>3, <2>1, UndoFacts
    <3>2. x # r
      BY <1>5, <3>1
    <3>3. i # d - 1
      <4>1. i + 1 \in 1 .. Len(log[t]) /\ log[t][i + 1].undo = "table"
        BY <3>1, UndoFacts
      <4>2. log[t][d].undo = "row"
        BY <1>1, <1>3
      <4> QED  BY <3>1, <4>1, <4>2
    <3> QED  BY <1>3, <2>1, <3>1, <3>2, <3>3
  <2>2. CASE u # t
    BY <1>6, <2>2 DEF SameUndo
  <2> QED  BY <2>1, <2>2
<1>8. \A u \in Txns : \A i, m : TableAt(u, i, m)' => TableAt(u, i, m)
  BY <1>3, <1>6 DEF SameUndo
<1>9. \A u \in Txns : \A x : x # r /\ Loose(u, x) => Loose(u, x)'
  BY <1>4, <1>6 DEF SameUndo
<1>10. \A u \in Txns : \A m, x : NewRow(u, m, x)' <=> NewRow(u, m, x)
  BY <1>1 DEF NewRow
<1>11. DeleteRow(r) /\ r \notin kept /\ \E i \in Nat : RowAt(t, i, r)
  BY <1>0, <1>1, <1>2, <1>4 DEF Left
<1> QED  BY <1>1, <1>5, <1>7, <1>8, <1>9, <1>10, <1>11, RowDeleted

(* The creation that is refused takes its row back, or leaves it.          *)
LEMMA RefusedStored ==
    ASSUME CatInv, Stored, NEW t \in Txns, CreateRefused(t), Others(t)
    PROVE  Stored'
<1>0. Creations /\ Left /\ TypeOK /\ None \notin Names
  BY FreePlaces DEF Stored, CatInv
<1>1. PICK e \in want[t] : DeleteRow(e[2])
  BY DEF CreateRefused
<1>2. PICK n \in Names, r \in Rids : n = e[1] /\ r = e[2] /\ <<n, r>> = e
  BY <1>0, <1>1 DEF TypeOK
<1>3. /\ NewRow(t, n, r) /\ pc[t] = "create" /\ pc'[t] = "idle"
      /\ UNCHANGED <<tables, log, todo, dropped>>
  BY <1>0, <1>1, <1>2 DEF CreateRefused, NewRow, Goto, TypeOK
<1>4. \A u \in Txns : \A m, x : NewRow(u, m, x) => u = t /\ m = n /\ x = r
  BY <1>3, NewRowFacts
<1>5. /\ rows[r] # None /\ r \notin kept
      /\ \A m \in Names : tables[m] # r
      /\ \A u \in Txns : \A i : ~RowAt(u, i, r)
  BY <1>0, <1>3, UndoFacts DEF Creations, Left
<1>6. Depth(t)' = Depth(t)
  BY <1>3 DEF Depth
<1>7. \A u \in Txns : SameUndo(u)
  BY <1>3, <1>6, OthersSame, UndoSame
<1>8. \A u \in Txns : \A m, x : ~NewRow(u, m, x)'
  BY <1>3, <1>4, OthersSame DEF NewRow
<1>9. /\ \A u \in Txns : \A x : x # r /\ Loose(u, x) => Loose(u, x)'
      /\ \A u \in Txns : \A i, x : RowAt(u, i, x)' =>
              RowAt(u, i, x) /\ x # r /\ (i = Depth(u)' => i = Depth(u))
      /\ \A u \in Txns : \A i, m : TableAt(u, i, m)' => TableAt(u, i, m)
  BY <1>5, <1>7 DEF SameUndo
<1> QED  BY <1>1, <1>2, <1>3, <1>4, <1>5, <1>8, <1>9, RowDeleted

(* Who drops a table has its row, so nobody has it to undo.                *)
LEMMA DroppedStored ==
    ASSUME CatInv, Stored, TypeOK', NEW t \in Txns, DropDone(t), Others(t), ~broken'
    PROVE  Stored'
<1>0. TypeOK /\ Compatible /\ CallsOK
  BY DEF CatInv
<1>1. /\ pc[t] = "drop" /\ want[t] = {} /\ latch = None
      /\ pc'[t] = "idle" /\ UNCHANGED <<log, todo, want, kept>>
  BY <1>0 DEF DropDone, Locked, LatchFree, Goto, TypeOK
<1>2. PICK e \in Names \X Rids : seen[t] = {e} /\ e[2] \in exclusive[t]
  BY <1>0, <1>1 DEF CallsOK
<1>3. \A u \in Txns : \A m, x : ~NewRow(u, m, x)
  BY <1>1, NewRowFacts
<1>4. \A u \in Txns : \A m, x : ~NewRow(u, m, x)'
  BY <1>1, <1>3, OthersSame DEF NewRow
<1>5. \A x : ~Loose(t, x)
  BY <1>1, UndoFacts
<1>6. \A u \in Txns \ {t} : SameUndo(u)
  BY OthersSame
<1>7. CASE /\ Unchanged(t)
           /\ rows' = [rows EXCEPT ![e[2]] = None] /\ Dropping(e[1], FALSE)
           /\ dropped' = [dropped EXCEPT ![t] = TRUE]
  <2>1. /\ rows' = [rows EXCEPT ![e[2]] = None] /\ Dropping(e[1], FALSE)
        /\ dropped' = [dropped EXCEPT ![t] = TRUE]
    BY <1>7
  <2>2. e \in Entries
    BY <1>2, <1>7 DEF Unchanged
  <2>3. e[1] \in Names /\ tables[e[1]] = e[2] /\ tables[e[1]] # None
    BY <2>2 DEF Entries
  <2>4. tables' = Erased(e[1])
    BY <2>1 DEF Dropping
  <2>5. Depth(t)' = 0
    BY <1>0, <1>1, <2>1 DEF Depth, TypeOK
  <2>6. Forgotten(t)
    BY <1>5, <2>5, UndoForgotten
  <2>7. \A u \in Txns \ {t} : \A i : ~RowAt(u, i, e[2])
    BY <1>0, <1>2, UndoFacts DEF Compatible
  <2>8. rows' = [rows EXCEPT ![tables[e[1]]] = None]
    BY <2>1, <2>3
  <2>9. \A u \in Txns : Forgotten(u) \/ (SameUndo(u) /\ \A i : ~RowAt(u, i, tables[e[1]]))
    BY <1>6, <2>3, <2>6, <2>7
  <2> QED  BY <1>1, <1>4, <2>3, <2>4, <2>8, <2>9, EntryDropped
<1>8. CASE UNCHANGED <<rows, tables, dropped>>
  <2>1. UNCHANGED <<rows, tables, dropped>>
    BY <1>8
  <2>2. Depth(t)' = Depth(t)
    BY <1>1, <2>1 DEF Depth
  <2>3. \A u \in Txns : SameUndo(u)
    BY <1>1, <1>6, <2>2, UndoSame
  <2> QED  BY <1>1, <1>3, <1>4, <2>1, <2>3, QuietStored
<1> QED  BY <1>2, <1>7, <1>8 DEF DropDone, DeletedRow

(* The map, its rows and what has to be undone go together, whatever a     *)
(* transaction does next.                                                  *)
LEMMA StoredStep ==
    ASSUME CatInv, Stored, NEW t \in Txns, CatStep(t), ~broken'
    PROVE  Stored'
<1> USE DEF Goto, autoVars
<1>0. TypeOK /\ LogsOK /\ TypeOK' /\ Others(t)
  BY TypeStep DEF CatInv
<1>1. \A u \in Txns \ {t} : /\ SameUndo(u)
                            /\ \A n, r : NewRow(u, n, r)' <=> NewRow(u, n, r)
  BY <1>0, OthersSame
<1>2. ASSUME UNCHANGED <<tables, rows, log, kept>>, Depth(t)' = Depth(t) \/ (Depth(t)' = 0 /\ pc[t] # "undo"),
             \A n, r : NewRow(t, n, r)' <=> NewRow(t, n, r)
      PROVE  Stored'
  <2>1. SameUndo(t) \/ Forgotten(t)
    BY <1>2, UndoSame, UndoForgotten, UndoFacts
  <2> QED  BY <1>1, <1>2, <2>1, QuietStored
<1>3. ASSUME NEW n \in Names, CreateTable(t, n) PROVE Stored'
  <2>1. /\ latch = None /\ tables[n] = None /\ FirstFree \in Rids /\ rows[FirstFree] = None
        /\ rows' = [rows EXCEPT ![FirstFree] = n] /\ UNCHANGED <<tables, log, todo, dropped, kept>>
        /\ pc[t] = "idle" /\ pc'[t] = "create" /\ want'[t] = {<<n, FirstFree>>}
    BY <1>0, <1>3, FreePlaces DEF CreateTable, Calling, LatchFree, TypeOK
  <2>2. Depth(t)' = Depth(t)
    BY <2>1 DEF Depth
  <2>3. \A u \in Txns : SameUndo(u)
    BY <1>1, <2>1, <2>2, UndoSame
  <2>4. \A u \in Txns : \A m, x : ~NewRow(u, m, x)
    BY <2>1, NewRowFacts
  <2>5. \A m, x : NewRow(t, m, x)' <=> m = n /\ x = FirstFree
    BY <2>1 DEF NewRow
  <2>6. PICK r \in Rids : r = FirstFree
    BY <2>1
  <2>7. /\ \A u \in Txns : \A m, x : NewRow(u, m, x)' => m = n /\ x = r
        /\ \E u \in Txns : NewRow(u, n, r)'
    BY <1>1, <2>4, <2>5, <2>6
  <2>8. /\ latch = None /\ tables[n] = None /\ rows[r] = None /\ UNCHANGED <<tables, kept>>
        /\ rows' = [rows EXCEPT ![r] = n]
    BY <2>1, <2>6
  <2> QED  BY ONLY CatInv, Stored, r \in Rids, n \in Names, <2>3, <2>7, <2>8, EntryWritten
<1>4. CASE \/ AllTables(t) \/ \E n \in Names : GetTable(t, n) \/ DropTable(t, n)
           \/ LockRow(t) \/ LockRefused(t) \/ LookDone(t)
  <2>1. UNCHANGED <<tables, rows, log, todo, dropped, kept>>
    BY <1>4 DEF AllTables, GetTable, LookUp, DropTable, LockRow, LockRefused, LookDone
  <2>2. pc[t] \in {"idle", "drop", "look"} /\ pc'[t] \in {"idle", "drop", "look"}
    BY <1>0, <1>4 DEF AllTables, GetTable, LookUp, DropTable, Calling, LockRow, LockRefused, LookDone, Locked, TypeOK
  <2>3. Depth(t)' = Depth(t)
    BY <2>1, <2>2 DEF Depth
  <2>4. \A n, r : ~NewRow(t, n, r) /\ ~NewRow(t, n, r)'
    BY <2>2 DEF NewRow
  <2> QED  BY <1>2, <2>1, <2>3, <2>4
<1>5. CASE Begin(t) \/ LockUpgrade(t) \/ CreateFails(t)
  <2>1. UNCHANGED <<tables, rows, log, todo, dropped, kept, pc, want>>
    BY <1>5 DEF Begin, LockUpgrade, CreateFails
  <2>2. Depth(t)' = Depth(t)
    BY <2>1 DEF Depth
  <2>3. \A n, r : NewRow(t, n, r)' <=> NewRow(t, n, r)
    BY <2>1 DEF NewRow
  <2>4. UNCHANGED <<tables, rows, log, kept>>
    BY <2>1
  <2> QED  BY ONLY <1>2, <2>2, <2>3, <2>4
<1>6. CASE Commit(t)
  <2>1. UNCHANGED <<tables, rows, log, todo, dropped, kept>> /\ pc[t] = "idle" /\ pc'[t] = "unlock"
    BY <1>0, <1>6 DEF Commit, TypeOK
  <2>2. Depth(t)' = 0
    BY <2>1 DEF Depth
  <2>3. \A n, r : ~NewRow(t, n, r) /\ ~NewRow(t, n, r)'
    BY <2>1 DEF NewRow
  <2> QED  BY <1>2, <2>1, <2>2, <2>3
<1>7. CASE Abort(t)
  <2>1. /\ UNCHANGED <<tables, rows, log, dropped, kept>> /\ pc[t] = "idle" /\ pc'[t] = "undo"
        /\ ~dropped[t] /\ todo'[t] = Len(log[t])
    BY <1>0, <1>7 DEF Abort, TypeOK
  <2>2. Depth(t)' = Depth(t)
    BY <2>1 DEF Depth
  <2> QED  BY <1>2, <2>1, <2>2 DEF NewRow
<1>8. CASE Unlock(t) \/ End(t)
  <2>1. /\ UNCHANGED <<tables, rows, log, todo, dropped, kept>>
        /\ pc[t] \in {"unlock"} \cup Ended \/ (pc[t] = "undo" /\ todo[t] = 0)
        /\ pc'[t] \in Ended
    BY <1>0, <1>8 DEF Unlock, End, TypeOK, Ended
  <2>2. Depth(t) = 0 /\ Depth(t)' = 0
    BY <2>1 DEF Depth, Ended
  <2>3. \A n, r : ~NewRow(t, n, r) /\ ~NewRow(t, n, r)'
    BY <2>1 DEF NewRow, Ended
  <2>4. UNCHANGED <<tables, rows, log, kept>>
    BY <2>1
  <2> QED  BY ONLY <1>2, <2>2, <2>3, <2>4
<1>9. CASE UndoTableFails(t)
  BY <1>9 DEF UndoTableFails
<1>10. CASE CreateLocked(t)
  BY <1>0, <1>10, CreatedStored
<1>11. CASE CreateRefused(t)
  BY <1>0, <1>11, RefusedStored
<1>12. CASE DropDone(t)
  BY <1>0, <1>12, DroppedStored
<1>13. CASE UndoTable(t)
  BY <1>0, <1>13, TableRolledBack
<1>14. CASE UndoRow(t)
  BY <1>0, <1>14, RowRolledBack
<1> QED
  BY <1>3, <1>4, <1>5, <1>6, <1>7, <1>8, <1>9, <1>10, <1>11, <1>12, <1>13, <1>14 DEF CatStep, CallStep

(* The same for the calls without a transaction.                           *)
LEMMA StoredAuto ==
    ASSUME CatInv, Stored, AutoStep, ~broken'
    PROVE  Stored'
<1>0. TypeOK
  BY DEF CatInv
<1>1. CreateFailsAuto \/ \E n \in Names : CreateTableAuto(n) \/ DropTableAuto(n)
  BY DEF AutoStep
<1>2. latch = None /\ UNCHANGED <<log, todo, pc, want, dropped, kept>>
  BY <1>1 DEF CreateTableAuto, CreateFailsAuto, DropTableAuto, AutoCall, LatchFree
<1>3. \A u \in Txns : SameUndo(u)
  <2>1. \A u \in Txns : Depth(u)' = Depth(u)
    BY <1>2 DEF Depth
  <2> QED  BY <1>2, <2>1, UndoSame
<1>4. \A u \in Txns : \A m, x : ~NewRow(u, m, x)'
  BY <1>2, NewRowFacts DEF NewRow
<1>5. ASSUME NEW n \in Names, CreateTableAuto(n) PROVE Stored'
  <2>1. PICK r \in Rids : r = FirstFree /\ rows[r] = None
    BY <1>5, FreePlaces DEF CreateTableAuto
  <2>2. tables[n] = None /\ rows' = [rows EXCEPT ![r] = n] /\ tables' = [tables EXCEPT ![n] = r]
    BY <1>5, <2>1 DEF CreateTableAuto
  <2> QED  BY <1>2, <1>3, <1>4, <2>1, <2>2, EntryWritten
<1>6. ASSUME UNCHANGED <<tables, rows>> PROVE Stored'
  <2>1. \A u \in Txns : \A m, x : NewRow(u, m, x)' <=> NewRow(u, m, x)
    BY <1>2 DEF NewRow
  <2> QED  BY <1>2, <1>3, <1>6, <2>1, QuietStored
<1>7. ASSUME NEW n \in Names, DropTableAuto(n), ~UNCHANGED <<tables, rows>> PROVE Stored'
  <2>1. /\ tables[n] # None /\ rows' = [rows EXCEPT ![tables[n]] = None]
        /\ tables' = Erased(n)
        /\ \A u \in Txns : tables[n] \notin shared[u] \cup exclusive[u]
    BY <1>7 DEF DropTableAuto, DeletedRow, Dropping
  <2>2. \A u \in Txns : \A i : ~RowAt(u, i, tables[n])
    BY <2>1, UndoFacts
  <2> QED  BY <1>2, <1>3, <1>4, <2>1, <2>2, EntryDropped
<1> QED  BY <1>1, <1>5, <1>7, <1>6 DEF CreateFailsAuto

-----------------------------------------------------------------------------
(* What a lock that is granted, or not, means for the transaction.         *)
LEMMA LockOutcome ==
    ASSUME TypeOK, NEW t \in Txns, NEW r \in Rids
    PROVE  /\ Grant(t, r) =>
                 /\ UNCHANGED state
                 /\ shared[t] \cup exclusive[t] \subseteq shared'[t] \cup exclusive'[t]
                 /\ Exclusively(t) => shared'[t] \subseteq shared[t]
           /\ Refused(t, r) => state'[t] = "ABORTED"
<1>1. ASSUME Grant(t, r)
      PROVE  /\ UNCHANGED state
             /\ shared[t] \cup exclusive[t] \subseteq shared'[t] \cup exclusive'[t]
             /\ Exclusively(t) => shared'[t] \subseteq shared[t]
  <2>1. CASE UNCHANGED lockVars
    BY <2>1 DEF lockVars
  <2>2. CASE Locks!GrantExclusive(t, r)
    BY <2>2 DEF Locks!GrantExclusive, TypeOK
  <2>3. CASE Locks!GrantShared(t, r) /\ ~Exclusively(t)
    BY <2>3 DEF Locks!GrantShared, TypeOK
  <2> QED  BY <1>1, <2>1, <2>2, <2>3 DEF Grant
<1>2. ASSUME Refused(t, r) PROVE state'[t] = "ABORTED"
  BY <1>2 DEF Refused, Locks!Refuse, lockVars, TypeOK
<1> QED  BY <1>1, <1>2

(* An entry stays while the map keeps its name.                            *)
LEMMA EntryStays ==
    ASSUME NEW g \in Entries
    PROVE  /\ g[1] \in Names /\ g[2] = tables[g[1]] /\ tables[g[1]] # None
           /\ tables'[g[1]] = tables[g[1]] => g \in Entries'
BY DEF Entries

(* A table that a transaction has locked stays in the map, unless it drops *)
(* the table itself.                                                       *)
LEMMA LockedStays ==
    ASSUME CatInv, Returned, NEW n \in Names, tables' = Erased(n) \/ UNCHANGED tables,
           NEW u \in Txns, state[u] = "GROWING", tables[n] \notin shared[u] \cup exclusive[u]
    PROVE  got[u] \subseteq Entries'
<1> SUFFICES ASSUME NEW g \in got[u] PROVE g \in Entries'
  OBVIOUS
<1>1. g \in Entries /\ g[2] \in shared[u] \cup exclusive[u]
  BY DEF Returned
<1>2. g[1] \in Names /\ g[1] # n
  BY <1>1, EntryStays
<1>3. tables'[g[1]] = tables[g[1]]
  BY <1>2 DEF Erased, CatInv, TypeOK
<1> QED  BY <1>1, <1>3, EntryStays

(* A table enters the map under a name that was free.                      *)
LEMMA EnteredStays ==
    ASSUME CatInv, Returned, NEW n \in Names, NEW r \in Rids, tables[n] = None,
           tables' = [tables EXCEPT ![n] = r], NEW u \in Txns, state[u] = "GROWING"
    PROVE  got[u] \subseteq Entries'
<1> SUFFICES ASSUME NEW g \in got[u] PROVE g \in Entries'
  OBVIOUS
<1>1. g \in Entries
  BY DEF Returned
<1>2. g[1] \in Names /\ g[1] # n
  BY <1>1, EntryStays
<1>3. tables'[g[1]] = tables[g[1]]
  BY <1>2 DEF CatInv, TypeOK
<1> QED  BY <1>1, <1>3, EntryStays

(* The step of a transaction leaves the tables of the others in the map.   *)
LEMMA OthersReturned ==
    ASSUME CatInv, Stored, Returned, NEW t \in Txns, CatStep(t),
           NEW u \in Txns \ {t}, state[u] = "GROWING"
    PROVE  got[u] \subseteq Entries'
<1>0. TypeOK /\ LogsOK /\ Compatible /\ CallsOK
  BY DEF CatInv
<1>1. CASE UNCHANGED tables
  BY <1>1 DEF Entries, Returned
<1>2. ASSUME NEW n \in Names, tables[n] \in exclusive[t], tables' = Erased(n) \/ UNCHANGED tables
      PROVE  got[u] \subseteq Entries'
  BY <1>0, <1>2, LockedStays DEF Compatible
<1>3. CASE CreateLocked(t)
  <2>1. PICK e \in want[t] : tables' = [tables EXCEPT ![e[1]] = e[2]]
    BY <1>3 DEF CreateLocked
  <2>2. PICK n \in Names, r \in Rids : n = e[1] /\ r = e[2] /\ <<n, r>> = e
    BY <1>0, <2>1 DEF TypeOK
  <2>3. NewRow(t, n, r)
    BY <1>3, <2>1, <2>2 DEF CreateLocked, NewRow
  <2>4. tables[n] = None
    BY <2>3, NewRowFacts
  <2> QED  BY <2>1, <2>2, <2>4, EnteredStays
<1>4. CASE DropDone(t)
  <2>1. pc[t] = "drop" /\ want[t] = {}
    BY <1>4 DEF DropDone, Locked
  <2>2. PICK e \in Names \X Rids : seen[t] = {e} /\ e[2] \in exclusive[t]
    BY <1>0, <2>1 DEF CallsOK
  <2>3. CASE Unchanged(t) /\ Dropping(e[1], FALSE)
    <3>1. e \in Entries /\ Dropping(e[1], FALSE)
      BY <2>2, <2>3 DEF Unchanged
    <3>2. e[1] \in Names /\ tables[e[1]] \in exclusive[t]
      BY <2>2, <3>1, EntryStays
    <3> QED  BY <1>2, <3>1, <3>2 DEF Dropping
  <2> QED  BY <1>1, <1>4, <2>2, <2>3 DEF DropDone
<1>5. CASE UndoTable(t)
  <2>1. pc[t] = "undo" /\ todo[t] > 0 /\ Record(t).undo = "table" /\ tables' = Erased(Record(t).arg)
    BY <1>5 DEF UndoTable, Rollback
  <2>2. Record(t).arg \in Names /\ todo[t] \in 1 .. todo[t]
    BY <1>0, <2>1, NextRecord
  <2>3. TableAt(t, todo[t], Record(t).arg)
    BY <2>1, <2>2 DEF TableAt, Depth, Record
  <2>4. /\ RowAt(t, todo[t] - 1, log[t][todo[t] - 1].arg) /\ todo[t] \in Nat
        /\ tables[Record(t).arg] = log[t][todo[t] - 1].arg
    BY <2>2, <2>3, UndoFacts DEF Stored, Rollbacks
  <2> QED  BY <1>2, <2>1, <2>2, <2>4, UndoFacts
<1>6. CreateLocked(t) \/ DropDone(t) \/ UndoTable(t) \/ UNCHANGED tables
  BY DEF CatStep, CallStep, Begin, AllTables, GetTable, LookUp, CreateTable, CreateFails, DropTable, Commit, Abort,
     CreateRefused, LockRow, LockUpgrade, LockRefused, LookDone, UndoTableFails, UndoRow, Unlock, End
<1> QED  BY <1>1, <1>3, <1>4, <1>5, <1>6

(* What a transaction has been given it keeps, and gives up before it      *)
(* drops it.                                                               *)
LEMMA ReturnedStep ==
    ASSUME CatInv, Stored, Returned, NEW t \in Txns, CatStep(t)
    PROVE  Returned'
<1> USE DEF Goto
<1>0. TypeOK /\ LogsOK /\ Compatible /\ CallsOK /\ TypeOK' /\ Others(t)
  BY TypeStep DEF CatInv
<1> DEFINE Mine ==
        /\ state'[t] = "NONE" => pc'[t] = "idle" /\ got'[t] = {}
        /\ state'[t] = "GROWING" =>
              /\ pc'[t] \in {"idle", "create", "drop", "look"}
              /\ got'[t] \subseteq Entries'
              /\ \A e \in got'[t] : e[2] \in shared'[t] \cup exclusive'[t]
              /\ pc'[t] = "drop" => \A e \in want'[t], g \in got'[t] : e[2] \in shared'[t] => g[2] # e[2]
<1> SUFFICES Mine
  <2> SUFFICES ASSUME Mine, NEW u \in Txns PROVE Returned!(u)'
    BY DEF Returned
  <2>1. CASE u = t
    BY <2>1
  <2>2. CASE u # t
    <3>1. state[u] = "GROWING" => got[u] \subseteq Entries'
      BY <2>2, OthersReturned
    <3> QED  BY <1>0, <2>2, <3>1 DEF Returned, Others
  <2> QED  BY <2>1, <2>2
<1> DEFINE Old ==
        /\ pc[t] \in {"idle", "create", "drop", "look"}
        /\ got[t] \subseteq Entries
        /\ \A e \in got[t] : e[2] \in shared[t] \cup exclusive[t]
        /\ pc[t] = "drop" => \A e \in want[t], g \in got[t] : e[2] \in shared[t] => g[2] # e[2]
<1>1. state[t] = "GROWING" => Old
  BY DEF Returned
<1>2. UNCHANGED tables => Entries' = Entries
  BY DEF Entries
<1>3. ASSUME state'[t] \notin {"NONE", "GROWING"} PROVE Mine
  BY <1>3
<1>4. CASE Begin(t)
  <2>1. state[t] = "NONE" /\ state'[t] = "GROWING" /\ UNCHANGED <<pc, got>>
    BY <1>0, <1>4 DEF Begin, Locks!Begin, TypeOK
  <2> QED  BY <2>1 DEF Returned
<1>5. ASSUME NEW n \in Names, CreateTable(t, n) PROVE Mine
  <2>1. /\ UNCHANGED <<tables, got, state, shared, exclusive>> /\ pc[t] = "idle" /\ pc'[t] = "create"
        /\ state[t] # "NONE"
    BY <1>0, <1>5 DEF CreateTable, Calling, lockVars, TypeOK
  <2> QED  BY <1>1, <1>2, <2>1
<1>6. ASSUME NEW es, LookUp(t, es) PROVE Mine
  <2>1. /\ UNCHANGED <<tables, got, state, shared, exclusive>> /\ pc[t] = "idle" /\ pc'[t] = "look"
        /\ state[t] # "NONE"
    BY <1>0, <1>6 DEF LookUp, Calling, lockVars, TypeOK
  <2> QED  BY <1>1, <1>2, <2>1
<1>7. CASE AllTables(t) \/ \E n \in Names : GetTable(t, n)
  BY <1>6, <1>7 DEF AllTables, GetTable
<1>8. ASSUME NEW n \in Names, DropTable(t, n) PROVE Mine
  <2>1. /\ UNCHANGED <<tables, state, shared, exclusive>> /\ pc[t] = "idle" /\ pc'[t] = "drop"
        /\ state[t] # "NONE" /\ tables[n] # None
        /\ want'[t] = {<<n, tables[n]>>} /\ got'[t] = {e \in got[t] : e[1] # n}
    BY <1>0, <1>8 DEF DropTable, Calling, lockVars, TypeOK
  <2>2. ASSUME state[t] = "GROWING", NEW g \in got'[t] PROVE g[2] # tables[n]
    <3>1. g \in Entries /\ g[1] # n
      BY <1>1, <2>1, <2>2
    <3>2. g[1] \in Names /\ g[2] = tables[g[1]] /\ tables[g[1]] # None
      BY <3>1, EntryStays
    <3>3. Mapped
      BY DEF Stored
    <3> QED  BY <2>1, <3>1, <3>2, <3>3 DEF Mapped
  <2> QED  BY <1>1, <1>2, <2>1, <2>2
<1>9. CASE CreateLocked(t)
  <2>1. PICK e \in want[t] : Grant(t, e[2]) /\ tables' = [tables EXCEPT ![e[1]] = e[2]]
    BY <1>9 DEF CreateLocked
  <2>2. PICK n \in Names, r \in Rids : n = e[1] /\ r = e[2] /\ <<n, r>> = e
    BY <1>0, <2>1 DEF TypeOK
  <2>3. NewRow(t, n, r) /\ pc'[t] = "idle" /\ got' = got
    BY <1>0, <1>9, <2>1, <2>2 DEF CreateLocked, NewRow, TypeOK
  <2>4. tables[n] = None /\ state[t] = "GROWING"
    BY <2>1, <2>3, NewRowFacts DEF Grant
  <2>5. got[t] \subseteq Entries'
    BY <2>1, <2>2, <2>4, EnteredStays
  <2>6. UNCHANGED state /\ shared[t] \cup exclusive[t] \subseteq shared'[t] \cup exclusive'[t]
    BY <1>0, <2>1, <2>2, LockOutcome
  <2> QED  BY <1>1, <2>3, <2>4, <2>5, <2>6
<1>10. CASE LockRow(t)
  <2>1. PICK e \in want[t] : Grant(t, e[2]) /\ want' = [want EXCEPT ![t] = @ \ {e}]
    BY <1>10 DEF LockRow
  <2>2. /\ e[2] \in Rids /\ UNCHANGED <<tables, pc, got>> /\ pc[t] \in {"drop", "look"}
        /\ want'[t] \subseteq want[t] /\ state[t] = "GROWING"
    BY <1>0, <1>10, <2>1 DEF LockRow, Grant, TypeOK
  <2>3. /\ UNCHANGED state
        /\ shared[t] \cup exclusive[t] \subseteq shared'[t] \cup exclusive'[t]
        /\ pc[t] = "drop" => shared'[t] \subseteq shared[t]
    BY <1>0, <2>1, <2>2, LockOutcome DEF Exclusively
  <2> QED  BY <1>1, <1>2, <2>2, <2>3
<1>11. CASE LockUpgrade(t)
  <2>1. PICK e \in want[t] : Locks!DropForUpgrade(t, e[2])
    BY <1>11 DEF LockUpgrade
  <2>2. /\ UNCHANGED <<tables, pc, got, want, state, exclusive>> /\ pc[t] = "drop" /\ state[t] = "GROWING"
        /\ e[2] \in shared[t] /\ shared'[t] = shared[t] \ {e[2]}
    BY <1>0, <1>11, <2>1 DEF LockUpgrade, Locks!DropForUpgrade, TypeOK
  <2>3. \A g \in got[t] : g[2] # e[2]
    BY <1>1, <2>1, <2>2
  <2> QED  BY <1>1, <1>2, <2>2, <2>3
<1>12. CASE CreateRefused(t) \/ LockRefused(t)
  <2>1. PICK e \in want[t] : Refused(t, e[2])
    BY <1>12 DEF CreateRefused, LockRefused
  <2>2. state'[t] = "ABORTED"
    BY <1>0, <2>1, LockOutcome DEF TypeOK
  <2> QED  BY <1>3, <2>2
<1>13. CASE LookDone(t)
  <2>1. /\ UNCHANGED <<tables, state, shared, exclusive>> /\ pc[t] = "look" /\ want[t] = {} /\ pc'[t] = "idle"
        /\ got'[t] = got[t] \cup (IF Unchanged(t) THEN seen[t] ELSE {})
    BY <1>0, <1>13 DEF LookDone, Locked, lockVars, TypeOK
  <2>2. state[t] # "NONE"
    BY <2>1 DEF Returned
  <2>3. \A e \in seen[t] : e[2] \in shared[t] \cup exclusive[t]
    BY <1>0, <2>1 DEF CallsOK
  <2>4. Unchanged(t) => seen[t] \subseteq Entries
    BY DEF Unchanged
  <2> QED  BY <1>1, <1>2, <2>1, <2>2, <2>3, <2>4
<1>14. CASE DropDone(t)
  <2>1. UNCHANGED <<got, state, shared, exclusive>> /\ pc[t] = "drop" /\ want[t] = {} /\ pc'[t] = "idle"
    BY <1>0, <1>14 DEF DropDone, Locked, lockVars, TypeOK
  <2>2. state[t] # "NONE"
    BY <2>1 DEF Returned
  <2>3. PICK e \in Names \X Rids : seen[t] = {e} /\ \A g \in got[t] : g[1] # e[1]
    BY <1>0, <2>1 DEF CallsOK
  <2>4. tables' = Erased(e[1]) \/ UNCHANGED tables
    BY <1>14, <2>3 DEF DropDone, Dropping
  <2>5. ASSUME state[t] = "GROWING", NEW g \in got[t] PROVE g \in Entries'
    <3>1. g \in Entries /\ g[1] # e[1]
      BY <1>1, <2>3, <2>5
    <3>2. tables'[g[1]] = tables[g[1]]
      BY <1>0, <2>4, <3>1, EntryStays DEF Erased, TypeOK
    <3> QED  BY <3>1, <3>2, EntryStays
  <2> QED  BY <1>1, <2>1, <2>2, <2>5
<1>15. CASE UndoTable(t) \/ UndoTableFails(t) \/ UndoRow(t)
  <2>1. UNCHANGED state /\ pc[t] = "undo"
    BY <1>15 DEF UndoTable, UndoTableFails, Rollback, UndoRow, lockVars
  <2>2. state[t] \notin {"NONE", "GROWING"}
    BY <2>1 DEF Returned
  <2> QED  BY <1>3, <2>1, <2>2
<1>16. CASE CreateFails(t)
  <2>1. /\ UNCHANGED <<tables, got, state, shared, exclusive, pc, want>> /\ state[t] # "NONE"
    BY <1>0, <1>16 DEF CreateFails, Calling, lockVars, TypeOK
  <2> QED  BY <1>1, <1>2, <2>1
<1>17. CASE Commit(t) \/ Abort(t) \/ Unlock(t) \/ End(t)
  <2>1. state'[t] \in {"SHRINKING", "COMMITTED", "ABORTED"}
    BY <1>0, <1>17 DEF Commit, Abort, Unlock, End, Locks!Shrink, Locks!ReleaseAll, Locks!End, TypeOK
  <2> QED  BY <1>3, <2>1
<1> QED
  BY <1>4, <1>5, <1>7, <1>8, <1>9, <1>10, <1>11, <1>12, <1>13, <1>14, <1>15, <1>17, <1>16 DEF CatStep, CallStep

(* A drop without a transaction takes no table from anybody, unless it     *)
(* ignores a lock.                                                         *)
LEMMA ReturnedAuto ==
    ASSUME CatInv, Stored, Returned, AutoStep, ~broken'
    PROVE  Returned'
<1>1. CreateFailsAuto \/ \E n \in Names : CreateTableAuto(n) \/ DropTableAuto(n)
  BY DEF AutoStep
<1>2. UNCHANGED <<state, shared, exclusive, pc, want, got>>
  BY <1>1 DEF CreateTableAuto, CreateFailsAuto, DropTableAuto, lockVars
<1>3. \A u \in Txns : state[u] = "GROWING" => got[u] \subseteq Entries'
  <2> DEFINE Stay == \A u \in Txns : state[u] = "GROWING" => got[u] \subseteq Entries'
  <2>1. ASSUME NEW n \in Names, CreateTableAuto(n) PROVE Stay
    <3>1. PICK r \in Rids : r = FirstFree
      BY <2>1, FreePlaces DEF CreateTableAuto
    <3>2. tables[n] = None /\ tables' = [tables EXCEPT ![n] = r]
      BY <2>1, <3>1 DEF CreateTableAuto
    <3> QED  BY <3>2, EnteredStays
  <2>2. ASSUME UNCHANGED tables PROVE Stay
    BY <2>2 DEF Entries, Returned
  <2>3. ASSUME NEW n \in Names, DropTableAuto(n), ~UNCHANGED tables PROVE Stay
    <3>1. tables' = Erased(n) /\ \A u \in Txns : tables[n] \notin shared[u] \cup exclusive[u]
      BY <2>3 DEF DropTableAuto, Dropping
    <3> QED  BY <3>1, LockedStays
  <2> QED  BY <1>1, <2>1, <2>3, <2>2 DEF CreateFailsAuto
<1> QED  BY <1>2, <1>3 DEF Returned

-----------------------------------------------------------------------------
(* A drop that has ignored a lock, or left a table half dropped, is not    *)
(* forgotten.                                                              *)
LEMMA BrokenStays ==
    ASSUME NEW t \in Txns, CatStep(t)
    PROVE  broken => broken'
<1>1. \A n, b : Dropping(n, b) => (broken => broken')
  BY DEF Dropping
<1>2. CASE DropDone(t)
  BY <1>1, <1>2 DEF DropDone
<1>3. CASE UndoTableFails(t)
  BY <1>3 DEF UndoTableFails
<1>4. DropDone(t) \/ UndoTableFails(t) \/ UNCHANGED broken
  BY DEF CatStep, CallStep, Begin, AllTables, GetTable, LookUp, CreateTable, CreateFails, DropTable, Commit, Abort,
     CreateLocked, CreateRefused, LockRow, LockUpgrade, LockRefused, LookDone, UndoTable, UndoRow, Unlock, End, autoVars
<1> QED  BY <1>2, <1>3, <1>4

(* The invariant holds at the start and through every step.                *)
LEMMA CatalogInvariant ==
    Spec => []Inv
<1>1. Init => Inv
  <2> SUFFICES ASSUME Init PROVE Inv
    OBVIOUS
  <2> USE DEF Init, Locks!Init
  <2>1. CatInv
    BY InitCatInv
  <2>2. \A t \in Txns : Depth(t) = 0
    <3>1. \A t \in Txns : log[t] = <<>> /\ pc[t] = "idle"
      OBVIOUS
    <3> QED  BY <3>1 DEF Depth
  <2>3. Stored
    <3>1. \A t \in Txns : \A i, x : ~RowAt(t, i, x) /\ ~TableAt(t, i, x) /\ ~NewRow(t, i, x)
      BY <2>2 DEF RowAt, TableAt, NewRow
    <3>2. \A t \in Txns : \A x : ~Loose(t, x)
      BY <2>2 DEF Loose, RowAt
    <3> QED  BY <3>1, <3>2 DEF Stored, Mapped, Known, Creations, Rollbacks, Left
  <2>4. Returned
    BY DEF Returned
  <2> QED  BY <2>1, <2>3, <2>4 DEF Inv, UnlessBroken
<1>2. ASSUME Inv, NEW t \in Txns, CatStep(t) PROVE Inv'
  <2>1. CatInv
    BY <1>2 DEF Inv
  <2>2. CatInv'
    <3>1. Next
      BY <1>2 DEF Next, CatStep
    <3> QED  BY <2>1, <3>1, CatInvNext
  <2>3. ASSUME ~broken' PROVE Stored' /\ Returned'
    <3>1. Stored /\ Returned
      BY <1>2, <2>1, <2>3, BrokenStays DEF Inv, UnlessBroken
    <3> QED  BY <1>2, <2>1, <2>3, <3>1, StoredStep, ReturnedStep
  <2> QED  BY <2>2, <2>3 DEF Inv, UnlessBroken
<1>3. ASSUME Inv, AutoStep PROVE Inv'
  <2>1. CatInv /\ CatInv'
    BY <1>3, AutoCatInv DEF Inv
  <2>2. ASSUME ~broken' PROVE Stored' /\ Returned'
    <3>1. ~broken
      BY <1>3, <2>2 DEF AutoStep, CreateTableAuto, CreateFailsAuto, DropTableAuto, Dropping
    <3>2. Stored /\ Returned
      BY <1>3, <3>1 DEF Inv, UnlessBroken
    <3> QED  BY <1>3, <2>1, <2>2, <3>2, StoredAuto, ReturnedAuto
  <2> QED  BY <2>1, <2>2 DEF Inv, UnlessBroken
<1>4. ASSUME Inv, UNCHANGED vars PROVE Inv'
  <2> USE <1>4 DEF vars, lockVars, autoVars, pageVars
  <2>1. CatInv'
    BY CatInvNext DEF Inv
  <2>2. \A t \in Txns : Depth(t)' = Depth(t)
    BY DEF Depth
  <2>3. \A t \in Txns : SameUndo(t)
    BY <2>2, UndoSame
  <2>4. \A u \in Txns : \A n, r : NewRow(u, n, r)' <=> NewRow(u, n, r)
    BY DEF NewRow
  <2>5. ASSUME ~broken PROVE Stored' /\ Returned'
    <3>1. CatInv /\ Stored /\ Returned /\ UNCHANGED <<tables, rows, kept>>
      BY <2>5 DEF Inv, UnlessBroken
    <3>2. Stored'
      BY <2>3, <2>4, <3>1, QuietStored
    <3>3. Returned'
      BY <3>1 DEF Returned, Entries
    <3> QED  BY <3>2, <3>3
  <2> QED  BY <2>1, <2>5 DEF Inv, UnlessBroken
<1>5. Next => AutoStep \/ \E t \in Txns : CatStep(t)
  BY DEF Next, AutoStep, CatStep
<1>6. Inv /\ [Next]_vars => Inv'
  BY <1>2, <1>3, <1>4, <1>5
<1> QED  BY <1>1, <1>6, PTL DEF Spec

(* Unless Database::drop_table has ignored a lock or a drop was left half  *)
(* done, every table in the map has its entry in its row: deletes,         *)
(* rollbacks and reused rows (catalog.cpp, table_heap.cpp) take no entry   *)
(* from a table that is in the map.                                        *)
THEOREM TablesHaveRows == Spec => []MapBacked
<1>1. Inv => MapBacked
  BY DEF Inv, UnlessBroken, Stored, Mapped, MapBacked
<1> QED  BY <1>1, CatalogInvariant, PTL

(* rollback_create_table (catalog.cpp:120) finds the table it rolls back:  *)
(* its assertion holds whatever other transactions drop and create.        *)
THEOREM RollbackHasTable == Spec => []RollbackFindsTable
<1>1. Inv => RollbackFindsTable
  <2> SUFFICES ASSUME CatInv, Stored, NEW t \in Txns, Rollback(t)
               PROVE  tables[Record(t).arg] # None
    BY DEF Inv, UnlessBroken, RollbackFindsTable
  <2>1. pc[t] = "undo" /\ todo[t] > 0 /\ Record(t).undo = "table"
    BY DEF Rollback
  <2>2. todo[t] \in 1 .. todo[t] /\ todo[t] \in Nat /\ Record(t).arg \in Names
    BY <2>1, NextRecord DEF CatInv, TypeOK
  <2>3. TableAt(t, todo[t], Record(t).arg)
    BY <2>1, <2>2 DEF TableAt, Depth, Record
  <2>4. tables[Record(t).arg] = log[t][todo[t] - 1].arg
    BY <2>2, <2>3 DEF Stored, Rollbacks
  <2>5. log[t][todo[t] - 1].arg \in Rids
    BY <2>3, UndoFacts
  <2> QED  BY <2>4, <2>5, FreePlaces
<1> QED  BY <1>1, CatalogInvariant, PTL

(* A table that get_table or all_tables has returned to a transaction is   *)
(* not dropped under it (README.md:15), by whichever other transactions.   *)
THEOREM ReturnedTableStays == Spec => []UsedTableStays
<1>1. Inv => UsedTableStays
  BY DEF Inv, UnlessBroken, Returned, UsedTableStays
<1> QED  BY <1>1, CatalogInvariant, PTL

(* With no transaction under way, load_existing_tables would find one row  *)
(* for every table in the map, and beyond those only the rows that a       *)
(* failed deletion (table.cpp:28, undo.cpp:12) has left; with none of      *)
(* these it would build the map that is in memory.                         *)
THEOREM RestartFindsMap == Spec => []RestartSame
<1>1. Inv => RestartSame
  <2> SUFFICES ASSUME CatInv, Stored, \A t \in Txns : (pc[t] = "idle" /\ log[t] = <<>>) \/ pc[t] = "done"
               PROVE  /\ \A n \in Names : RowsOf(n) \ kept = {tables[n]} \ {None}
                      /\ kept = {} => Loaded = tables
    BY DEF Inv, UnlessBroken, RestartSame
  <2>0. Mapped /\ Known /\ Left /\ TypeOK /\ None \notin Names /\ None \notin Rids
    BY FreePlaces DEF Stored, CatInv
  <2>1. \A t \in Txns : Depth(t) = 0
    BY DEF Depth
  <2>2. \A t \in Txns : \A n, r : ~NewRow(t, n, r) /\ ~Loose(t, r)
    BY <2>1 DEF NewRow, Loose, RowAt
  <2>3. ASSUME NEW n \in Names
        PROVE  RowsOf(n) \ kept = {tables[n]} \ {None}
    <3>1. \A r \in RowsOf(n) \ kept : tables[n] = r
      BY <2>0, <2>2 DEF RowsOf, Known
    <3>2. tables[n] # None => tables[n] \in RowsOf(n)
      BY <2>0 DEF RowsOf, Mapped, TypeOK
    <3>3. None \notin RowsOf(n) /\ tables[n] \notin kept
      BY <2>0 DEF RowsOf, Left
    <3> QED  BY <3>1, <3>2, <3>3
  <2>4. ASSUME kept = {}, NEW n \in Names PROVE Loaded[n] = tables[n]
    <3>1. RowsOf(n) = {tables[n]} \ {None} /\ Loaded[n] = Last(RowsOf(n))
      BY <2>3, <2>4 DEF Loaded
    <3>2. CASE tables[n] = None
      BY <3>1, <3>2 DEF Last
    <3>3. CASE tables[n] # None
      <4>1. RowsOf(n) = {tables[n]} /\ tables[n] \in Nat
        BY <2>0, <3>1, <3>3 DEF TypeOK, Rids
      <4>2. (CHOOSE r \in RowsOf(n) : \A s \in RowsOf(n) : s <= r) = tables[n]
        BY <4>1
      <4> QED  BY <3>1, <4>1, <4>2 DEF Last
    <3> QED  BY <3>2, <3>3
  <2>5. kept = {} => Loaded = [n \in Names |-> tables[n]]
    BY <2>4 DEF Loaded
  <2> QED  BY <2>0, <2>3, <2>5 DEF TypeOK
<1> QED  BY <1>1, CatalogInvariant, PTL

=============================================================================
