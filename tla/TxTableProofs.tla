---------------------------- MODULE TxTableProofs ----------------------------
(***************************************************************************)
(* Rollback, for any number of transactions, pages and calls.  The undo    *)
(* log of a transaction, with the records that its call under way has yet  *)
(* to add and without those that abort has run already, is one that turns  *)
(* the heap back step by step: record by record, in any order among the    *)
(* transactions, every row gets the value it had, on a page that has room. *)
(***************************************************************************)
EXTENDS TxTable, FiniteSetTheorems, SequenceTheorems, TLAPS

Tuples == Txns \cup {Empty, Old}

UndoRecord == [undo : {"delete", "restore"}, rid : Rids, tuple : Tuples]

Ended == {"commit", "committed", "aborted", "done"}

Pcs == {"idle", "lock", "read", "change", "move", "lockdest", "undo"} \cup Ended

TypeOK ==
    /\ room \in Rooms
    /\ state \in [Txns -> Locks!TransactionState \cup {"NONE"}]
    /\ shared \in [Txns -> SUBSET Rids] /\ exclusive \in [Txns -> SUBSET Rids]
    /\ heap \in [Rids -> Tuples] /\ base \in [Rids -> Tuples]
    /\ log \in [Txns -> Seq(UndoRecord)]
    /\ pc \in [Txns -> Pcs]
    /\ kind \in [Txns -> {"none", "get", "scan", "insert", "delete", "update"}]
    /\ rid \in [Txns -> Rids \cup {NoRid}] /\ dest \in [Txns -> Rids \cup {NoRid}]
    /\ old \in [Txns -> Tuples]
    /\ todo \in [Txns -> Nat]
    /\ clash \in BOOLEAN

(* What a transaction knows at every place of a call.                      *)
CallsOK ==
    \A t \in Txns :
        /\ pc[t] \in {"lock", "read", "change", "move"} =>
              rid[t] \in Rids /\ kind[t] \in {"get", "scan", "delete", "update"}
        /\ pc[t] \in {"read", "change"} /\ kind[t] \in {"delete", "update"} => rid[t] \in exclusive[t]
        /\ pc[t] \in {"change", "move"} => kind[t] \in {"delete", "update"} /\ old[t] # Empty
        /\ pc[t] = "move" => kind[t] = "update" /\ rid[t] \in exclusive[t]
        /\ pc[t] = "lockdest" =>
              /\ dest[t] \in Rids /\ kind[t] \in {"insert", "update"}
              /\ kind[t] = "update" =>
                    rid[t] \in exclusive[t] /\ dest[t] # rid[t] /\ old[t] # Empty
        /\ pc[t] \in {"read", "change", "move"} => state[t] = "GROWING"
        /\ pc[t] = "lockdest" /\ kind[t] = "update" => state[t] = "GROWING"
        /\ pc[t] = "undo" => todo[t] <= Len(log[t])

(* Two transactions never have one row if one of them writes it.           *)
Compatible ==
    \A t, u \in Txns : t # u => exclusive[t] \cap (shared[u] \cup exclusive[u]) = {}

TxInv == TypeOK /\ CallsOK /\ Compatible /\ UndoLocked

-----------------------------------------------------------------------------
(* The records of the call under way.                                      *)
Pending(t) ==
    CASE pc[t] = "move" -> <<RestoreUndo(rid[t], old[t])>>
      [] pc[t] = "lockdest" -> DestRecords(t)
      [] OTHER -> <<>>

(* The records that would take the heap back to where t began.             *)
UndoLog(t) ==
    CASE pc[t] = "undo" -> SubSeq(log[t], 1, todo[t])
      [] pc[t] \in Ended -> <<>>
      [] OTHER -> log[t] \o Pending(t)

UndoLogs == [t \in Txns |-> UndoLog(t)]

(* The rows t has exclusively or has put a tuple in.                       *)
Rows(t) == exclusive[t] \cup (IF pc[t] = "lockdest" THEN {dest[t]} ELSE {})

Writes == [t \in Txns |-> Rows(t)]

(* Row r is turned back by the records of L behind the k-th ...            *)
Touched(L, k, r) == \E j \in k + 1 .. Len(L) : L[j].rid = r

(* ... to what the first of them says.                                     *)
Value(h, L, k, r, v) ==
    IF Touched(L, k, r)
    THEN \E j \in k + 1 .. Len(L) :
            /\ L[j].rid = r /\ L[j].tuple = v
            /\ \A i \in k + 1 .. j - 1 : L[i].rid # r
    ELSE h[r] = v

(* The positions that rollbacks of the transactions can be at.             *)
Positions(E) == {k \in [Txns -> Nat] : \A t \in Txns : k[t] <= Len(E[t])}

(* Row r has a tuple when all the rollbacks are at position k.             *)
Present(h, E, k, r) ==
    \/ h[r] # Empty /\ \A t \in Txns : ~Touched(E[t], k[t], r)
    \/ \E t \in Txns : Touched(E[t], k[t], r) /\ ~Value(h, E[t], k[t], r, Empty)

Tenants(h, E, k, r) == {s \in Rids : PageOf(s) = PageOf(r) /\ Present(h, E, k, s)}

(* A log that undoes: it is about the rows of its transaction, it restores *)
(* into empty slots, and it leads back to the base.                        *)
Undoes(h, L, W, b) ==
    /\ \A i \in 1 .. Len(L) :
          /\ L[i].rid \in W
          /\ L[i].undo = "delete" => L[i].tuple = Empty
          /\ L[i].undo = "restore" => L[i].tuple # Empty /\ Value(h, L, i, L[i].rid, Empty)
    /\ \A r \in W : Value(h, L, 0, r, b[r])

Reversible(h, E, W, b) ==
    /\ \A t, u \in Txns : t # u => W[t] \cap W[u] = {}
    /\ \A t \in Txns : Undoes(h, E[t], W[t], b)
    /\ \A r \in Rids : (\A t \in Txns : r \notin W[t]) => h[r] = b[r]

(* Whatever the rollbacks do, no page gets more tuples than fit.           *)
Fits(h, E) ==
    \A k \in Positions(E), r \in Rids : Cardinality(Tenants(h, E, k, r)) <= room

(* Nobody has a lock on a row with a new tuple, and the tuple about to be  *)
(* changed is the one that has been read.                                  *)
CallsUndisturbed ==
    \A t \in Txns :
        /\ pc[t] = "lockdest" => Locks!Alone(t, dest[t]) /\ heap[dest[t]] # Empty
        /\ pc[t] = "change" => heap[rid[t]] = old[t]

RollbackOK == Reversible(heap, UndoLogs, Writes, base) /\ Fits(heap, UndoLogs)

RollbackInv == ~clash => RollbackOK /\ CallsUndisturbed

Inv == TxInv /\ RollbackInv

-----------------------------------------------------------------------------
(* The numbers of the model are natural ones and the rows finitely many.   *)
LEMMA RidFacts ==
    /\ Rids \in SUBSET Nat /\ IsFiniteSet(Rids) /\ NoRid \notin Rids
    /\ \A r \in Rooms : r \in Nat
<1>1. PICK n : n = PageCount * SlotsPerPage
  OBVIOUS
<1>2. n \in Nat
  BY <1>1, TableAssumption
<1>3. Rids = 1 .. n
  BY <1>1 DEF Rids
<1>4. IsFiniteSet(Rids)
  BY <1>2, <1>3, FS_Interval
<1> QED  BY <1>2, <1>3, <1>4, TableAssumption DEF NoRid

(* The steps of a transaction and those of the lock table in them.         *)
LockStep(t) ==
    \/ UNCHANGED lockVars
    \/ Locks!Begin(t) \/ Locks!Refuse(t) \/ Locks!Shrink(t) \/ Locks!ReleaseAll(t) \/ Locks!End(t)
    \/ \E r \in Rids : Locks!GrantShared(t, r) \/ Locks!GrantExclusive(t, r) \/ Locks!DropForUpgrade(t, r)

(* The step is one of the lock table's, by t.                              *)
LEMMA LockSteps ==
    ASSUME TxInv, NEW t \in Txns, TxNext(t)
    PROVE  LockStep(t)
<1>0. CallsOK
  BY DEF TxInv
<1>1. CASE LockRow(t)
  <2>1. Target(t) \in Rids
    BY <1>0, <1>1 DEF LockRow, CallsOK, Target
  <2> QED  BY <1>1, <2>1 DEF LockRow, Granted, LockStep
<1>2. CASE LockDest(t)
  <2>1. Target(t) \in Rids
    BY <1>0, <1>2 DEF LockDest, CallsOK, Target
  <2> QED  BY <1>2, <2>1 DEF LockDest, Granted, LockStep
<1>3. CASE LockRowUpgrade(t) \/ LockDestUpgrade(t)
  BY <1>0, <1>3 DEF LockRowUpgrade, LockDestUpgrade, CallsOK, LockStep
<1>4. CASE LockRowRefused(t) \/ LockDestRefused(t)
  BY <1>4 DEF LockRowRefused, LockDestRefused, Refused, LockStep
<1>5. CASE Begin(t) \/ Commit(t) \/ Abort(t) \/ Unlock(t) \/ End(t)
  BY <1>5 DEF Begin, Commit, Abort, Unlock, End, LockStep
<1>6. CASE UNCHANGED lockVars
  BY <1>6 DEF LockStep
<1>7. \/ LockRow(t) \/ LockDest(t) \/ LockRowUpgrade(t) \/ LockDestUpgrade(t)
      \/ LockRowRefused(t) \/ LockDestRefused(t) \/ Begin(t) \/ Commit(t) \/ Abort(t)
      \/ Unlock(t) \/ End(t) \/ UNCHANGED lockVars
  BY DEF TxNext, CallStep, ScanNext, Call, InsertTuple, GetRow, ScanRow, ReadOld, DeleteRow,
     UpdateInPlace, UpdateOut, UpdateNothing, UpdateMove, UndoDelete, UndoRestore
<1> QED  BY <1>1, <1>2, <1>3, <1>4, <1>5, <1>6, <1>7

(* A step leaves the other transactions' locks alone, keeps its own type   *)
(* and the compatibility of the locks, and takes an exclusive lock away    *)
(* only at the end.                                                        *)
LEMMA LockEffects ==
    ASSUME TxInv, NEW t \in Txns, LockStep(t)
    PROVE  /\ state' \in [Txns -> Locks!TransactionState \cup {"NONE"}]
           /\ shared' \in [Txns -> SUBSET Rids] /\ exclusive' \in [Txns -> SUBSET Rids]
           /\ \A u \in Txns \ {t} : state'[u] = state[u] /\ shared'[u] = shared[u] /\ exclusive'[u] = exclusive[u]
           /\ Compatible'
           /\ exclusive[t] \subseteq exclusive'[t] \/ Locks!ReleaseAll(t)
<1>0. TypeOK /\ Compatible
  BY DEF TxInv
<1>1. CASE UNCHANGED lockVars
  BY <1>0, <1>1 DEF lockVars, TypeOK, Compatible
<1>2. CASE Locks!Begin(t) \/ Locks!Refuse(t) \/ Locks!Shrink(t) \/ Locks!End(t)
  BY <1>0, <1>2 DEF Locks!Begin, Locks!Refuse, Locks!Shrink, Locks!End, Locks!TransactionState, TypeOK, Compatible
<1>3. CASE Locks!ReleaseAll(t)
  BY <1>0, <1>3 DEF Locks!ReleaseAll, TypeOK, Compatible
<1>4. ASSUME NEW r \in Rids, Locks!GrantShared(t, r)
      PROVE  /\ shared' \in [Txns -> SUBSET Rids] /\ UNCHANGED <<state, exclusive>> /\ Compatible'
             /\ \A u \in Txns \ {t} : shared'[u] = shared[u]
  BY <1>0, <1>4 DEF Locks!GrantShared, Locks!Unwritten, TypeOK, Compatible
<1>5. ASSUME NEW r \in Rids, Locks!GrantExclusive(t, r)
      PROVE  /\ shared' \in [Txns -> SUBSET Rids] /\ exclusive' \in [Txns -> SUBSET Rids]
             /\ UNCHANGED state /\ Compatible' /\ exclusive[t] \subseteq exclusive'[t]
             /\ \A u \in Txns \ {t} : shared'[u] = shared[u] /\ exclusive'[u] = exclusive[u]
  BY <1>0, <1>5 DEF Locks!GrantExclusive, Locks!Alone, TypeOK, Compatible
<1>6. ASSUME NEW r \in Rids, Locks!DropForUpgrade(t, r)
      PROVE  /\ shared' \in [Txns -> SUBSET Rids] /\ UNCHANGED <<state, exclusive>> /\ Compatible'
             /\ \A u \in Txns \ {t} : shared'[u] = shared[u]
  BY <1>0, <1>6 DEF Locks!DropForUpgrade, TypeOK, Compatible
<1> QED  BY <1>0, <1>1, <1>2, <1>3, <1>4, <1>5, <1>6 DEF LockStep, TypeOK

(* Every variable keeps its type, and a transaction's own variables are    *)
(* changed by its steps only.                                              *)
LEMMA TypeStep ==
    ASSUME TxInv, NEW t \in Txns, TxNext(t), UNCHANGED room
    PROVE  /\ TypeOK'
           /\ \A u \in Txns \ {t} :
                 /\ pc'[u] = pc[u] /\ log'[u] = log[u] /\ kind'[u] = kind[u] /\ rid'[u] = rid[u]
                 /\ dest'[u] = dest[u] /\ old'[u] = old[u] /\ todo'[u] = todo[u]
<1> USE DEF Goto, lockVars, callVars
<1>0. TypeOK /\ CallsOK /\ UndoLocked
  BY DEF TxInv
<1>L. /\ state' \in [Txns -> Locks!TransactionState \cup {"NONE"}]
      /\ shared' \in [Txns -> SUBSET Rids] /\ exclusive' \in [Txns -> SUBSET Rids]
  BY LockSteps, LockEffects
<1>E. Empty \in Tuples /\ t \in Tuples
  BY DEF Tuples
<1>R. \A r \in Rids : \A v \in Tuples : DeleteUndo(r) \in UndoRecord /\ RestoreUndo(r, v) \in UndoRecord
  BY DEF DeleteUndo, RestoreUndo, UndoRecord, Tuples
<1> DEFINE Same == \A u \in Txns \ {t} :
                 /\ pc'[u] = pc[u] /\ log'[u] = log[u] /\ kind'[u] = kind[u] /\ rid'[u] = rid[u]
                 /\ dest'[u] = dest[u] /\ old'[u] = old[u] /\ todo'[u] = todo[u]
<1> DEFINE Rest == /\ heap' \in [Rids -> Tuples] /\ base' \in [Rids -> Tuples]
                   /\ log' \in [Txns -> Seq(UndoRecord)]
                   /\ pc' \in [Txns -> Pcs]
                   /\ kind' \in [Txns -> {"none", "get", "scan", "insert", "delete", "update"}]
                   /\ rid' \in [Txns -> Rids \cup {NoRid}] /\ dest' \in [Txns -> Rids \cup {NoRid}]
                   /\ old' \in [Txns -> Tuples]
                   /\ todo' \in [Txns -> Nat]
                   /\ clash' \in BOOLEAN
<1> SUFFICES Rest /\ Same
  BY <1>0, <1>L DEF TypeOK
<1>1. CASE Begin(t) \/ LockRowUpgrade(t) \/ LockDestUpgrade(t)
  BY <1>0, <1>1 DEF Begin, LockRowUpgrade, LockDestUpgrade, TypeOK
<1>2. CASE LockRowRefused(t) \/ GetRow(t) \/ ScanRow(t) \/ UpdateNothing(t) \/ Unlock(t) \/ End(t)
  BY <1>0, <1>2 DEF LockRowRefused, GetRow, ScanRow, UpdateNothing, Unlock, End, TypeOK, Pcs, Ended
<1>3. ASSUME NEW k \in {"get", "scan", "delete", "update"}, NEW r \in Rids, Call(t, k, r) PROVE Rest /\ Same
  BY <1>0, <1>3 DEF Call, TypeOK, Pcs
<1>4. CASE LockRow(t)
  <2>1. clash' \in BOOLEAN
    BY <1>4 DEF LockRow, Locking
  <2> QED  BY <1>0, <1>4, <2>1 DEF LockRow, TypeOK, Pcs
<1>5. CASE ReadOld(t)
  <2>1. rid[t] \in Rids
    BY <1>0, <1>5 DEF ReadOld, CallsOK
  <2> QED  BY <1>0, <1>5, <2>1 DEF ReadOld, TypeOK, Pcs
<1>6. CASE InsertTuple(t)
  <2>1. PICK r \in FreeSlots : heap' = [heap EXCEPT ![r] = t] /\ dest' = [dest EXCEPT ![t] = r] /\ Taking(t, r)
    BY <1>6 DEF InsertTuple
  <2>2. r \in Rids /\ clash' \in BOOLEAN
    BY <2>1 DEF FreeSlots, Taking
  <2>3. heap' \in [Rids -> Tuples]
    BY <1>0, <1>E, <2>1, <2>2 DEF TypeOK
  <2> QED  BY <1>0, <1>6, <2>1, <2>2, <2>3 DEF InsertTuple, TypeOK, Pcs
<1>7. CASE DeleteRow(t)
  <2>1. rid[t] \in Rids /\ old[t] \in Tuples /\ log[t] \in Seq(UndoRecord)
    BY <1>0, <1>7 DEF DeleteRow, CallsOK, TypeOK
  <2>2. Append(log[t], RestoreUndo(rid[t], old[t])) \in Seq(UndoRecord)
    BY <1>R, <2>1, AppendProperties
  <2> QED  BY <1>0, <1>E, <1>7, <2>1, <2>2 DEF DeleteRow, TypeOK, Pcs
<1>8. ASSUME pc[t] \in {"change", "move", "lockdest"}, kind[t] = "update", NEW r \in Rids
      PROVE  log[t] \o UpdateRecords(t, r) \in Seq(UndoRecord)
  <2>1. rid[t] \in Rids /\ old[t] \in Tuples /\ log[t] \in Seq(UndoRecord)
    BY <1>0, <1>8 DEF CallsOK, TypeOK
  <2>2. UpdateRecords(t, r) \in Seq(UndoRecord)
    BY <1>R, <2>1 DEF UpdateRecords
  <2> QED  BY <2>1, <2>2, ConcatProperties
<1>9. CASE UpdateInPlace(t)
  <2>1. rid[t] \in Rids
    BY <1>0, <1>9 DEF UpdateInPlace, CallsOK
  <2>2. log[t] \o UpdateRecords(t, rid[t]) \in Seq(UndoRecord)
    BY <1>8, <1>9, <2>1 DEF UpdateInPlace
  <2> QED  BY <1>0, <1>E, <1>9, <2>1, <2>2 DEF UpdateInPlace, TypeOK, Pcs
<1>10. CASE UpdateOut(t)
  BY <1>0, <1>E, <1>10 DEF UpdateOut, CallsOK, TypeOK, Pcs
<1>11. CASE UpdateMove(t)
  <2>1. PICK r \in FreeSlots :
           /\ heap' = [heap EXCEPT ![r] = t] /\ dest' = [dest EXCEPT ![t] = r] /\ Taking(t, r)
           /\ IF r = rid[t]
              THEN Goto(t, "idle") /\ log' = [log EXCEPT ![t] = @ \o UpdateRecords(t, r)]
              ELSE Goto(t, "lockdest") /\ UNCHANGED log
    BY <1>11 DEF UpdateMove
  <2>2. r \in Rids /\ clash' \in BOOLEAN /\ kind[t] = "update"
    BY <1>0, <1>11, <2>1 DEF FreeSlots, Taking, UpdateMove, CallsOK
  <2>3. heap' \in [Rids -> Tuples] /\ dest' \in [Txns -> Rids \cup {NoRid}]
    BY <1>0, <1>E, <2>1, <2>2 DEF TypeOK
  <2>4. log[t] \o UpdateRecords(t, r) \in Seq(UndoRecord)
    BY <1>8, <1>11, <2>2 DEF UpdateMove
  <2>5. log' \in [Txns -> Seq(UndoRecord)] /\ pc' \in [Txns -> Pcs]
    BY <1>0, <2>1, <2>4 DEF TypeOK, Pcs
  <2> QED  BY <1>0, <1>11, <2>1, <2>2, <2>3, <2>5 DEF UpdateMove, TypeOK
<1>12. CASE LockDest(t)
  <2>1. dest[t] \in Rids /\ kind[t] \in {"insert", "update"}
    BY <1>0, <1>12 DEF LockDest, CallsOK
  <2>2. kind[t] = "update" => log[t] \o DestRecords(t) \in Seq(UndoRecord)
    BY <1>8, <1>12, <2>1 DEF LockDest, DestRecords
  <2>3. kind[t] = "insert" => log[t] \o DestRecords(t) \in Seq(UndoRecord)
    <3>1. log[t] \in Seq(UndoRecord) /\ <<DeleteUndo(dest[t])>> \in Seq(UndoRecord)
      BY <1>0, <1>R, <1>E, <2>1 DEF TypeOK
    <3> QED  BY <3>1, ConcatProperties DEF DestRecords
  <2> QED  BY <1>0, <1>12, <2>1, <2>2, <2>3 DEF LockDest, TypeOK, Pcs
<1>13. CASE LockDestRefused(t)
  <2>1. heap' \in [Rids -> Tuples]
    BY <1>0, <1>E, <1>13 DEF LockDestRefused, AfterRefusal, CallsOK, TypeOK
  <2> QED  BY <1>0, <1>13, <2>1 DEF LockDestRefused, TypeOK, Pcs
<1>14. CASE Commit(t)
  BY <1>0, <1>14 DEF Commit, TypeOK, Pcs, Ended
<1>15. CASE Abort(t)
  <2>1. Len(log[t]) \in Nat
    BY <1>0, LenProperties DEF TypeOK
  <2> QED  BY <1>0, <1>15, <2>1 DEF Abort, TypeOK, Pcs
<1>16. CASE UndoDelete(t) \/ UndoRestore(t)
  <2>1. /\ pc[t] = "undo" /\ todo[t] > 0 /\ todo[t] \in Nat /\ todo[t] <= Len(log[t])
        /\ log[t] \in Seq(UndoRecord)
    BY <1>0, <1>16 DEF UndoDelete, UndoRestore, Restoring, CallsOK, TypeOK
  <2>2. Record(t) \in UndoRecord
    BY <2>1, ElementOfSeq, LenProperties DEF Record
  <2>3. Record(t).rid \in Rids /\ Record(t).tuple \in Tuples
    BY <2>2 DEF UndoRecord
  <2>4. PICK v \in Tuples : heap' = [heap EXCEPT ![Record(t).rid] = v]
    BY <1>E, <1>16, <2>3 DEF UndoDelete, UndoRestore
  <2>5. heap' \in [Rids -> Tuples] /\ todo' = [todo EXCEPT ![t] = @ - 1]
    BY <1>0, <1>16, <2>3, <2>4 DEF UndoDelete, UndoRestore, TypeOK
  <2>6. UNCHANGED <<log, pc, kind, rid, dest, old, clash, base>>
    BY <1>16 DEF UndoDelete, UndoRestore
  <2> QED  BY <1>0, <2>1, <2>5, <2>6 DEF TypeOK
<1> QED
  BY <1>1, <1>2, <1>3, <1>4, <1>5, <1>6, <1>7, <1>9, <1>10, <1>11, <1>12, <1>13, <1>14, <1>15, <1>16
  DEF TxNext, CallStep, ScanNext

(* What a call knows stays true while the others run, and every step of    *)
(* the call adds what the next one relies on.                              *)
LEMMA CallsStep ==
    ASSUME TxInv, NEW t \in Txns, TxNext(t), UNCHANGED room
    PROVE  CallsOK'
<1> USE DEF Goto, lockVars, callVars
<1>0. TypeOK /\ CallsOK
  BY DEF TxInv
<1>T. TypeOK'
  BY TypeStep
<1>U. \A u \in Txns \ {t} :
         /\ pc'[u] = pc[u] /\ log'[u] = log[u] /\ kind'[u] = kind[u] /\ rid'[u] = rid[u]
         /\ dest'[u] = dest[u] /\ old'[u] = old[u] /\ todo'[u] = todo[u]
         /\ state'[u] = state[u] /\ exclusive'[u] = exclusive[u]
  BY TypeStep, LockSteps, LockEffects
<1> DEFINE Mine ==
        /\ pc'[t] \in {"lock", "read", "change", "move"} =>
              rid'[t] \in Rids /\ kind'[t] \in {"get", "scan", "delete", "update"}
        /\ pc'[t] \in {"read", "change"} /\ kind'[t] \in {"delete", "update"} => rid'[t] \in exclusive'[t]
        /\ pc'[t] \in {"change", "move"} => kind'[t] \in {"delete", "update"} /\ old'[t] # Empty
        /\ pc'[t] = "move" => kind'[t] = "update" /\ rid'[t] \in exclusive'[t]
        /\ pc'[t] = "lockdest" =>
              /\ dest'[t] \in Rids /\ kind'[t] \in {"insert", "update"}
              /\ kind'[t] = "update" =>
                    rid'[t] \in exclusive'[t] /\ dest'[t] # rid'[t] /\ old'[t] # Empty
        /\ pc'[t] \in {"read", "change", "move"} => state'[t] = "GROWING"
        /\ pc'[t] = "lockdest" /\ kind'[t] = "update" => state'[t] = "GROWING"
        /\ pc'[t] = "undo" => todo'[t] <= Len(log'[t])
<1> SUFFICES Mine
  <2> SUFFICES ASSUME Mine, NEW u \in Txns PROVE CallsOK!(u)'
    BY DEF CallsOK
  <2> QED  BY <1>0, <1>U DEF CallsOK
<1>1. ASSUME pc'[t] \in {"idle"} \cup Ended PROVE Mine
  BY <1>1 DEF Ended
<1>2. CASE Begin(t) \/ LockRowUpgrade(t) \/ LockDestUpgrade(t)
  <2>1. UNCHANGED <<pc, kind, rid, dest, old, todo, log, exclusive>>
    BY <1>2 DEF Begin, LockRowUpgrade, LockDestUpgrade, Locks!Begin, Locks!DropForUpgrade
  <2>2. state'[t] = state[t] \/ state'[t] = "GROWING"
    BY <1>0, <1>2 DEF Begin, LockRowUpgrade, LockDestUpgrade, Locks!Begin, Locks!DropForUpgrade, TypeOK
  <2> QED  BY <1>0, <2>1, <2>2 DEF CallsOK
<1>3. CASE LockRowRefused(t) \/ GetRow(t) \/ ScanRow(t) \/ UpdateNothing(t) \/ Unlock(t) \/ End(t)
           \/ DeleteRow(t) \/ UpdateInPlace(t) \/ LockDest(t) \/ LockDestRefused(t) \/ Commit(t)
  <2>1. pc'[t] \in {"idle"} \cup Ended
    BY <1>0, <1>3 DEF LockRowRefused, GetRow, ScanRow, UpdateNothing, Unlock, End, DeleteRow,
       UpdateInPlace, LockDest, LockDestRefused, Commit, TypeOK, Ended
  <2> QED  BY <1>1, <2>1
<1>4. ASSUME NEW k \in {"get", "scan", "delete", "update"}, NEW r \in Rids, Call(t, k, r) PROVE Mine
  BY <1>0, <1>4 DEF Call, TypeOK
<1>5. CASE LockRow(t)
  <2>1. /\ pc[t] = "lock" /\ pc'[t] = "read" /\ UNCHANGED <<kind, rid, dest, old, todo, log>>
        /\ rid[t] \in Rids /\ kind[t] \in {"get", "scan", "delete", "update"}
    BY <1>0, <1>5 DEF LockRow, TypeOK, CallsOK
  <2>2. kind[t] \in {"delete", "update"} => rid[t] \in exclusive'[t]
    BY <1>0, <1>5, <2>1 DEF LockRow, Granted, Exclusively, Target, Locks!GrantExclusive, TypeOK
  <2>3. state'[t] = "GROWING"
    BY <1>5 DEF LockRow, Granted, Locks!GrantExclusive, Locks!GrantShared
  <2> QED  BY <2>1, <2>2, <2>3
<1>6. CASE ReadOld(t)
  BY <1>0, <1>6 DEF ReadOld, TypeOK, CallsOK
<1>7. CASE InsertTuple(t)
  <2>1. /\ pc'[t] = "lockdest" /\ kind'[t] = "insert" /\ dest'[t] \in Rids
    BY <1>0, <1>7 DEF InsertTuple, TypeOK, FreeSlots
  <2> QED  BY <2>1
<1>8. CASE UpdateOut(t)
  BY <1>0, <1>8 DEF UpdateOut, TypeOK, CallsOK
<1>9. CASE UpdateMove(t)
  <2>1. PICK r \in FreeSlots :
           /\ dest' = [dest EXCEPT ![t] = r]
           /\ IF r = rid[t] THEN Goto(t, "idle") ELSE Goto(t, "lockdest")
    BY <1>9 DEF UpdateMove
  <2>2. /\ UNCHANGED <<state, exclusive, kind, rid, old>> /\ dest'[t] = r /\ r \in Rids
        /\ pc'[t] = (IF r = rid[t] THEN "idle" ELSE "lockdest")
        /\ pc[t] = "move"
    BY <1>0, <1>9, <2>1 DEF UpdateMove, TypeOK, FreeSlots
  <2> QED  BY <1>0, <2>2 DEF CallsOK
<1>10. CASE Abort(t)
  <2>1. pc'[t] = "undo" /\ todo'[t] = Len(log[t]) /\ log' = log /\ Len(log[t]) \in Nat
    BY <1>0, <1>10, LenProperties DEF Abort, TypeOK
  <2> QED  BY <2>1
<1>11. CASE UndoDelete(t) \/ UndoRestore(t)
  <2>1. pc'[t] = "undo" /\ pc[t] = "undo" /\ todo'[t] = todo[t] - 1 /\ log' = log
    BY <1>0, <1>11 DEF UndoDelete, UndoRestore, Restoring, TypeOK
  <2>2. todo[t] \in Nat /\ Len(log[t]) \in Nat
    BY <1>0, LenProperties DEF TypeOK
  <2> QED  BY <1>0, <2>1, <2>2 DEF CallsOK
<1> QED
  BY <1>2, <1>3, <1>4, <1>5, <1>6, <1>7, <1>8, <1>9, <1>10, <1>11 DEF TxNext, CallStep, ScanNext

(* A transaction logs a row only once it has it exclusively, and it keeps  *)
(* its locks as long as it has its log.                                    *)
LEMMA UndoLockedStep ==
    ASSUME TxInv, NEW t \in Txns, TxNext(t), UNCHANGED room
    PROVE  UndoLocked'
<1> USE DEF Goto, lockVars, callVars
<1>0. TypeOK /\ CallsOK /\ UndoLocked
  BY DEF TxInv
<1>U. \A u \in Txns \ {t} :
         pc'[u] = pc[u] /\ log'[u] = log[u] /\ exclusive'[u] = exclusive[u]
  BY TypeStep, LockSteps, LockEffects
<1> SUFFICES ASSUME pc'[t] \notin {"committed", "aborted", "done"}
             PROVE  \A i \in DOMAIN log'[t] : log'[t][i].rid \in exclusive'[t]
  BY <1>0, <1>U DEF UndoLocked
<1>1. /\ exclusive[t] \subseteq exclusive'[t] /\ pc[t] \notin {"committed", "aborted", "done"}
  <2>1. ~Locks!ReleaseAll(t) => exclusive[t] \subseteq exclusive'[t]
    BY LockSteps, LockEffects
  <2>2. CASE Unlock(t) \/ End(t)
    BY <1>0, <2>2 DEF Unlock, End, TypeOK
  <2>3. CASE ~(Unlock(t) \/ End(t))
    <3>1. /\ pc[t] \notin {"committed", "aborted", "done"}
      BY <1>0, <2>3 DEF TxNext, CallStep, ScanNext, Begin, InsertTuple, Call, MayCall, LockRow,
         LockRowUpgrade, LockRowRefused, GetRow, ScanRow, ReadOld, DeleteRow, UpdateInPlace,
         UpdateOut, UpdateNothing, UpdateMove, LockDest, LockDestUpgrade, LockDestRefused,
         Commit, Abort, UndoDelete, UndoRestore, Restoring
    <3>2. exclusive[t] \subseteq exclusive'[t]
      <4>1. CASE ~Locks!ReleaseAll(t)
        BY <2>1, <4>1
      <4>2. CASE Locks!ReleaseAll(t)
        BY <1>0, <2>3, <4>2 DEF TxNext, CallStep, ScanNext, Begin, InsertTuple, Call, MayCall, LockRow,
         LockRowUpgrade, LockRowRefused, GetRow, ScanRow, ReadOld, DeleteRow, UpdateInPlace,
         UpdateOut, UpdateNothing, UpdateMove, LockDest, LockDestUpgrade, LockDestRefused, Granted, Refused,
         Commit, Abort, UndoDelete, UndoRestore, Restoring, Locks!ReleaseAll, Locks!Shrink, Locks!Begin,
         Locks!GrantShared, Locks!GrantExclusive, Locks!DropForUpgrade, Locks!Refuse, TypeOK
      <4> QED  BY <4>1, <4>2
    <3> QED  BY <3>1, <3>2
  <2> QED  BY <2>2, <2>3
<1>2. \A i \in DOMAIN log[t] : log[t][i].rid \in exclusive'[t]
  BY <1>0, <1>1 DEF UndoLocked
<1>3. ASSUME NEW L \in Seq(UndoRecord), \A i \in DOMAIN L : L[i].rid \in exclusive'[t],
             log'[t] = log[t] \o L
      PROVE  \A i \in DOMAIN log'[t] : log'[t][i].rid \in exclusive'[t]
  <2>1. log[t] \in Seq(UndoRecord)
    BY <1>0 DEF TypeOK
  <2>2. /\ DOMAIN log'[t] = 1 .. Len(log[t]) + Len(L) /\ DOMAIN log[t] = 1 .. Len(log[t])
        /\ DOMAIN L = 1 .. Len(L) /\ Len(log[t]) \in Nat /\ Len(L) \in Nat
    BY <1>3, <2>1, LenProperties, ConcatProperties
  <2>3. \A i \in 1 .. Len(log[t]) + Len(L) :
           log'[t][i] = IF i <= Len(log[t]) THEN log[t][i] ELSE L[i - Len(log[t])]
    BY <1>3, <2>1, ConcatProperties
  <2>4. \A i \in 1 .. Len(log[t]) + Len(L) :
           i \in 1 .. Len(log[t]) \/ (~(i <= Len(log[t])) /\ i - Len(log[t]) \in 1 .. Len(L))
    BY <2>2
  <2> QED  BY <1>2, <1>3, <2>2, <2>3, <2>4
<1>4. ASSUME NEW r \in Rids, NEW v \in Tuples
      PROVE  /\ DeleteUndo(r) \in UndoRecord /\ RestoreUndo(r, v) \in UndoRecord
             /\ DeleteUndo(r).rid = r /\ RestoreUndo(r, v).rid = r
  BY DEF DeleteUndo, RestoreUndo, UndoRecord, Tuples
<1>5. CASE DeleteRow(t)
  <2>1. rid[t] \in exclusive[t] /\ rid[t] \in Rids /\ old[t] \in Tuples
    BY <1>0, <1>5 DEF DeleteRow, CallsOK, TypeOK
  <2>2. PICK R \in UndoRecord : R = RestoreUndo(rid[t], old[t]) /\ R.rid = rid[t]
    BY <1>4, <2>1
  <2>3. log'[t] = log[t] \/ log'[t] = Append(log[t], R)
    BY <1>0, <1>5, <2>2 DEF DeleteRow, TypeOK
  <2>4. Append(log[t], R) = log[t] \o <<R>>
    BY <1>0, <2>2, AppendIsConcat DEF TypeOK
  <2>5. <<R>> \in Seq(UndoRecord) /\ \A i \in DOMAIN <<R>> : <<R>>[i].rid \in exclusive'[t]
    BY <1>1, <2>1, <2>2
  <2> QED  BY <1>2, <1>3, <2>3, <2>4, <2>5
<1>6. ASSUME rid[t] \in exclusive'[t], NEW r \in exclusive'[t], rid[t] \in Rids, r \in Rids
      PROVE  /\ UpdateRecords(t, r) \in Seq(UndoRecord)
             /\ \A i \in DOMAIN UpdateRecords(t, r) : UpdateRecords(t, r)[i].rid \in exclusive'[t]
  <2>1. old[t] \in Tuples
    BY <1>0 DEF TypeOK
  <2>2. PICK R \in UndoRecord, D \in UndoRecord :
           R = RestoreUndo(rid[t], old[t]) /\ D = DeleteUndo(r) /\ R.rid = rid[t] /\ D.rid = r
    BY <1>4, <1>6, <2>1
  <2> QED  BY <1>6, <2>2 DEF UpdateRecords
<1>7. CASE UpdateInPlace(t)
  <2>1. rid[t] \in exclusive'[t] /\ rid[t] \in Rids /\ log'[t] = log[t] \o UpdateRecords(t, rid[t])
    BY <1>0, <1>1, <1>7 DEF UpdateInPlace, CallsOK, TypeOK
  <2> QED  BY <1>3, <1>6, <2>1
<1>8. CASE UpdateMove(t)
  <2>1. rid[t] \in exclusive'[t] /\ rid[t] \in Rids
    BY <1>0, <1>1, <1>8 DEF UpdateMove, CallsOK
  <2>2. PICK r \in FreeSlots :
           IF r = rid[t] THEN log' = [log EXCEPT ![t] = @ \o UpdateRecords(t, r)] ELSE UNCHANGED log
    BY <1>8 DEF UpdateMove
  <2>3. log'[t] = log[t] \o UpdateRecords(t, rid[t]) \/ log'[t] = log[t]
    BY <1>0, <2>2 DEF TypeOK
  <2> QED  BY <1>2, <1>3, <1>6, <2>1, <2>3
<1>9. CASE LockDest(t)
  <2>1. /\ dest[t] \in Rids /\ kind[t] \in {"insert", "update"}
        /\ kind[t] = "update" => rid[t] \in exclusive'[t] /\ rid[t] \in Rids
        /\ log'[t] = log[t] \o DestRecords(t)
    BY <1>0, <1>1, <1>9 DEF LockDest, CallsOK, TypeOK
  <2>2. dest[t] \in exclusive'[t]
    BY <1>0, <1>9 DEF LockDest, Granted, Exclusively, Target, Locks!GrantExclusive, TypeOK
  <2>3. CASE kind[t] = "update"
    BY <1>3, <1>6, <2>1, <2>2, <2>3 DEF DestRecords
  <2>4. CASE kind[t] = "insert"
    <3>1. Empty \in Tuples
      BY DEF Tuples
    <3>2. PICK D \in UndoRecord : D = DeleteUndo(dest[t]) /\ D.rid = dest[t]
      BY <1>4, <2>1, <3>1
    <3>3. <<D>> \in Seq(UndoRecord) /\ \A i \in DOMAIN <<D>> : <<D>>[i].rid \in exclusive'[t]
      BY <2>2, <3>2
    <3> QED  BY <1>3, <2>1, <2>4, <3>2, <3>3 DEF DestRecords
  <2> QED  BY <2>1, <2>3, <2>4
<1>10. CASE UNCHANGED log
  BY <1>2, <1>10
<1>11. DeleteRow(t) \/ UpdateInPlace(t) \/ UpdateMove(t) \/ LockDest(t) \/ UNCHANGED log
  BY DEF TxNext, CallStep, ScanNext, Begin, InsertTuple, Call, LockRow,
     LockRowUpgrade, LockRowRefused, GetRow, ScanRow, ReadOld, UpdateOut, UpdateNothing,
     LockDestUpgrade, LockDestRefused, Commit, Abort, UndoDelete, UndoRestore, Unlock, End
<1> QED  BY <1>5, <1>7, <1>8, <1>9, <1>10, <1>11

(* The table and the lock table before the first transaction.              *)
LEMMA InitTx == Init => TxInv
<1> SUFFICES ASSUME Init PROVE TxInv
  OBVIOUS
<1>1. TypeOK
  <2>1. <<>> \in Seq(UndoRecord)
    BY EmptySeq
  <2> QED  BY <2>1 DEF Init, Locks!Init, TypeOK, Tuples, Pcs
<1>2. CallsOK
  BY DEF Init, CallsOK
<1>3. Compatible
  BY DEF Init, Locks!Init, Compatible
<1>4. UndoLocked
  <2>1. DOMAIN <<>> = {}
    OBVIOUS
  <2> QED  BY <2>1 DEF Init, UndoLocked
<1> QED  BY <1>1, <1>2, <1>3, <1>4 DEF TxInv

(* Every step of the transactions keeps the locking discipline.            *)
LEMMA NextTx ==
    ASSUME TxInv, [Next]_vars
    PROVE  TxInv'
<1>1. ASSUME NEW t \in Txns, TxNext(t), UNCHANGED room PROVE TxInv'
  BY <1>1, TypeStep, CallsStep, UndoLockedStep, LockSteps, LockEffects DEF TxInv
<1>2. CASE UNCHANGED vars
  BY <1>2 DEF vars, lockVars, callVars, TxInv, TypeOK, CallsOK, Compatible, UndoLocked
<1> QED  BY <1>1, <1>2 DEF Next

(* table.cpp, transaction_manager.cpp: every row that a transaction may    *)
(* have to undo is locked by it exclusively until its log is done with.    *)
THEOREM UndoRowsLocked == Spec => []UndoLocked
<1>1. Init => TxInv
  BY InitTx
<1>2. TxInv /\ [Next]_vars => TxInv'
  BY NextTx
<1>3. TxInv => UndoLocked
  BY DEF TxInv
<1> QED  BY <1>1, <1>2, <1>3, PTL DEF Spec

-----------------------------------------------------------------------------
(* A change is undone by a record of the value it has replaced: h is the   *)
(* heap before, g the heap after.                                          *)
Undoable(h, g, R) ==
    /\ R.tuple = h[R.rid]
    /\ \A r \in Rids \ {R.rid} : g[r] = h[r]

(* A record behind the others does not change what a rollback leads to.    *)
LEMMA RecordAdded ==
    ASSUME NEW h, NEW g, NEW L \in Seq(UndoRecord), NEW R \in UndoRecord, Undoable(h, g, R)
    PROVE  /\ \A k \in 0 .. Len(L), r \in Rids :
                 /\ Touched(Append(L, R), k, r) <=> Touched(L, k, r) \/ r = R.rid
                 /\ \A w : Value(g, Append(L, R), k, r, w) <=> Value(h, L, k, r, w)
           /\ \A r \in Rids : ~Touched(Append(L, R), Len(L) + 1, r) /\ ~Touched(L, Len(L), r)
<1>1. PICK n \in Nat : n = Len(L)
  BY LenProperties
<1>2. PICK M \in Seq(UndoRecord) : M = Append(L, R)
  BY AppendProperties
<1>3. Len(M) = n + 1 /\ (\A i \in 1 .. n : M[i] = L[i]) /\ M[n + 1] = R
  BY <1>1, <1>2, AppendProperties
<1>4. ASSUME NEW k \in 0 .. n, NEW r \in Rids PROVE Touched(M, k, r) <=> Touched(L, k, r) \/ r = R.rid
  BY <1>1, <1>3 DEF Touched
<1>5. ASSUME NEW k \in 0 .. n, NEW r \in Rids, NEW w PROVE Value(g, M, k, r, w) <=> Value(h, L, k, r, w)
  <2>1. CASE Touched(L, k, r)
    <3>1. PICK j \in k + 1 .. n : L[j].rid = r
      BY <1>1, <2>1 DEF Touched
    <3>2. Touched(M, k, r)
      BY <1>4, <2>1
    <3>3. \A i \in k + 1 .. n : i \in k + 1 .. n + 1 /\ i \in 1 .. n /\ M[i] = L[i]
      BY <1>3
    <3>4. \A i \in k + 1 .. n + 1 : i \in k + 1 .. n \/ (i = n + 1 /\ j \in k + 1 .. i - 1)
      OBVIOUS
    <3>5. \A i \in k + 1 .. n : \A m \in k + 1 .. i - 1 : m \in k + 1 .. n
      OBVIOUS
    <3>6. Value(g, M, k, r, w) <=>
            \E i \in k + 1 .. n + 1 : M[i].rid = r /\ M[i].tuple = w /\ \A m \in k + 1 .. i - 1 : M[m].rid # r
      BY <1>3, <3>2 DEF Value
    <3>7. Value(h, L, k, r, w) <=>
            \E i \in k + 1 .. n : L[i].rid = r /\ L[i].tuple = w /\ \A m \in k + 1 .. i - 1 : L[m].rid # r
      BY <1>1, <2>1 DEF Value
    <3>8. Value(g, M, k, r, w) => Value(h, L, k, r, w)
      BY <3>1, <3>3, <3>4, <3>5, <3>6, <3>7
    <3>9. Value(h, L, k, r, w) => Value(g, M, k, r, w)
      BY <3>3, <3>5, <3>6, <3>7
    <3> QED  BY <3>8, <3>9
  <2>2. CASE ~Touched(L, k, r) /\ r = R.rid
    <3>1. Touched(M, k, r) /\ h[r] = R.tuple
      BY <1>4, <2>2 DEF Undoable
    <3>2. \A i \in k + 1 .. n : M[i] = L[i] /\ L[i].rid # r
      BY <1>1, <1>3, <2>2 DEF Touched
    <3>3. Value(g, M, k, r, w) <=>
            \E i \in k + 1 .. n + 1 : M[i].rid = r /\ M[i].tuple = w /\ \A m \in k + 1 .. i - 1 : M[m].rid # r
      BY <1>3, <3>1 DEF Value
    <3>4. \A i \in k + 1 .. n + 1 : i \in k + 1 .. n \/ i = n + 1
      OBVIOUS
    <3>5. n + 1 \in k + 1 .. n + 1 /\ \A m \in k + 1 .. n + 1 - 1 : m \in k + 1 .. n
      OBVIOUS
    <3>6. Value(h, L, k, r, w) <=> h[r] = w
      BY <2>2 DEF Value
    <3>7. ASSUME Value(g, M, k, r, w) PROVE h[r] = w
      <4>1. PICK i \in k + 1 .. n + 1 : M[i].rid = r /\ M[i].tuple = w
        BY <3>3, <3>7
      <4>2. i = n + 1
        BY <3>2, <3>4, <4>1
      <4> QED  BY <1>3, <3>1, <4>1, <4>2
    <3>8. ASSUME h[r] = w PROVE Value(g, M, k, r, w)
      <4>1. M[n + 1].rid = r /\ M[n + 1].tuple = w
        BY <1>3, <2>2, <3>1, <3>8
      <4>2. \A m \in k + 1 .. n + 1 - 1 : M[m].rid # r
        BY <3>2, <3>5
      <4> QED  BY <3>3, <3>5, <4>1, <4>2
    <3> QED  BY <3>6, <3>7, <3>8
  <2>3. CASE ~Touched(L, k, r) /\ r # R.rid
    BY <1>4, <2>3 DEF Value, Undoable
  <2> QED  BY <2>1, <2>2, <2>3
<1>6. \A r \in Rids : ~Touched(M, n + 1, r) /\ ~Touched(L, n, r)
  BY <1>1, <1>3 DEF Touched
<1> QED  BY <1>1, <1>2, <1>4, <1>5, <1>6

(* So a log that undoes still does so with the record of one more change,  *)
(* and also after its last record has been run.                            *)
LEMMA LogGrows ==
    ASSUME NEW h, NEW g, NEW L \in Seq(UndoRecord), NEW R \in UndoRecord, Undoable(h, g, R),
           NEW W \in SUBSET Rids, NEW b
    PROVE  /\ /\ Undoes(h, L, W, b) /\ R.rid \in W
              /\ R.undo = "delete" => R.tuple = Empty
              /\ R.undo = "restore" => R.tuple # Empty /\ g[R.rid] = Empty
              => Undoes(g, Append(L, R), W, b)
           /\ Undoes(g, Append(L, R), W, b) => Undoes(h, L, W, b)
<1>1. PICK n \in Nat : n = Len(L)
  BY LenProperties
<1>2. PICK M \in Seq(UndoRecord) : M = Append(L, R)
  BY AppendProperties
<1>3. Len(M) = n + 1 /\ (\A i \in 1 .. n : M[i] = L[i]) /\ M[n + 1] = R
  BY <1>1, <1>2, AppendProperties
<1>4. \A k \in 0 .. n, r \in Rids : \A w : Value(g, M, k, r, w) <=> Value(h, L, k, r, w)
  BY <1>1, <1>2, RecordAdded
<1>5. \A r \in Rids : \A w : Value(g, M, n + 1, r, w) <=> g[r] = w
  BY <1>1, <1>2, RecordAdded DEF Value
<1>6. \A i \in 1 .. n + 1 : i \in 1 .. n \/ i = n + 1
  OBVIOUS
<1>7. \A i \in 1 .. n : i \in 0 .. n /\ i \in 1 .. n + 1
  OBVIOUS
<1>8. 0 \in 0 .. n
  OBVIOUS
<1>9. ASSUME Undoes(h, L, W, b), R.rid \in W, R.undo = "delete" => R.tuple = Empty,
             R.undo = "restore" => R.tuple # Empty /\ g[R.rid] = Empty
      PROVE  Undoes(g, M, W, b)
  <2>1. ASSUME NEW i \in 1 .. n + 1
        PROVE  /\ M[i].rid \in W
               /\ M[i].undo = "delete" => M[i].tuple = Empty
               /\ M[i].undo = "restore" => M[i].tuple # Empty /\ Value(g, M, i, M[i].rid, Empty)
    <3>1. CASE i \in 1 .. n
      BY <1>1, <1>3, <1>4, <1>7, <1>9, <3>1 DEF Undoes
    <3>2. CASE i = n + 1
      BY <1>3, <1>5, <1>9, <3>2
    <3> QED  BY <1>6, <3>1, <3>2
  <2>2. \A r \in W : Value(g, M, 0, r, b[r])
    BY <1>4, <1>8, <1>9 DEF Undoes
  <2> QED  BY <1>3, <2>1, <2>2 DEF Undoes
<1>10. ASSUME Undoes(g, M, W, b) PROVE Undoes(h, L, W, b)
  <2>1. ASSUME NEW i \in 1 .. n
        PROVE  /\ L[i].rid \in W
               /\ L[i].undo = "delete" => L[i].tuple = Empty
               /\ L[i].undo = "restore" => L[i].tuple # Empty /\ Value(h, L, i, L[i].rid, Empty)
    BY <1>3, <1>4, <1>7, <1>10 DEF Undoes
  <2>2. \A r \in W : Value(h, L, 0, r, b[r])
    BY <1>4, <1>8, <1>10 DEF Undoes
  <2> QED  BY <1>1, <2>1, <2>2 DEF Undoes
<1> QED  BY <1>2, <1>9, <1>10

(* What happens to the rows of others does not matter to it.               *)
LEMMA LogLocal ==
    ASSUME NEW h, NEW g, NEW L, NEW W, NEW b, NEW c,
           \A r \in W : g[r] = h[r] /\ c[r] = b[r], Undoes(h, L, W, b)
    PROVE  Undoes(g, L, W, c)
<1>1. \A r \in W : \A k : \A w : Value(g, L, k, r, w) <=> Value(h, L, k, r, w)
  BY DEF Value
<1> QED  BY <1>1 DEF Undoes

(* F are the logs E with one more record of t.                             *)
Logged(E, F, t, R) == F[t] = Append(E[t], R) /\ \A u \in Txns \ {t} : F[u] = E[u]

(* No other transaction has the row in its log.                            *)
Unshared(E, t, r) == \A u \in Txns \ {t} : \A i \in 1 .. Len(E[u]) : E[u][i].rid # r

(* The row's page has room for one more tuple, whatever the rollbacks of   *)
(* the other transactions do.                                              *)
RoomFor(h, E, t, r) ==
    \A k \in Positions(E) : k[t] = Len(E[t]) => Cardinality(Tenants(h, E, k, r) \cup {r}) <= room

(* A row's value is a matter of its slot and of the records only.          *)
LEMMA ValueSame ==
    ASSUME NEW h, NEW g, NEW L, NEW k, NEW r, NEW w, g[r] = h[r]
    PROVE  Value(g, L, k, r, w) <=> Value(h, L, k, r, w)
BY DEF Value

(* The rows that a rollback finds full are the same with one more record,  *)
(* as long as the record is run.                                           *)
LEMMA TenantsKept ==
    ASSUME NEW h, NEW g, NEW E \in [Txns -> Seq(UndoRecord)], NEW t \in Txns,
           NEW R \in UndoRecord,
           NEW F, Logged(E, F, t, R),
           Undoable(h, g, R),
           Unshared(E, t, R.rid),
           NEW k \in [Txns -> Nat], \A u \in Txns : k[u] <= Len(E[u]), NEW s \in Rids
    PROVE  Present(g, F, k, s) <=> Present(h, E, k, s)
<1>1. F[t] = Append(E[t], R) /\ \A u \in Txns \ {t} : F[u] = E[u]
  BY DEF Logged
<1>3. k[t] \in 0 .. Len(E[t]) /\ E[t] \in Seq(UndoRecord)
  BY LenProperties
<1>4. /\ Touched(F[t], k[t], s) <=> Touched(E[t], k[t], s) \/ s = R.rid
      /\ Value(g, F[t], k[t], s, Empty) <=> Value(h, E[t], k[t], s, Empty)
  <2>0. PICK L \in Seq(UndoRecord) : L = E[t]
    BY <1>3
  <2>1. PICK n \in 0 .. Len(L) : n = k[t]
    BY <1>3, <2>0
  <2>2. /\ Touched(Append(L, R), n, s) <=> Touched(L, n, s) \/ s = R.rid
        /\ Value(g, Append(L, R), n, s, Empty) <=> Value(h, L, n, s, Empty)
    BY ONLY L \in Seq(UndoRecord), n \in 0 .. Len(L), s \in Rids, R \in UndoRecord,
            Undoable(h, g, R), RecordAdded
  <2> QED  BY <1>1, <2>0, <2>1, <2>2
<1>5. \A u \in Txns \ {t} : ~Touched(E[u], k[u], R.rid)
  <2> SUFFICES ASSUME NEW u \in Txns \ {t} PROVE ~Touched(E[u], k[u], R.rid)
    OBVIOUS
  <2>1. \A j \in k[u] + 1 .. Len(E[u]) : j \in 1 .. Len(E[u])
    BY LenProperties
  <2> QED  BY <2>1 DEF Touched, Unshared
<1>6. CASE s = R.rid
  <2>1. \A u \in Txns : Touched(F[u], k[u], s) <=> u = t
    BY <1>1, <1>4, <1>5, <1>6
  <2>2. Present(g, F, k, s) <=> ~Value(h, E[t], k[t], s, Empty)
    BY <1>1, <1>4, <2>1 DEF Present
  <2>3. \A u \in Txns : Touched(E[u], k[u], s) => u = t
    BY <1>5, <1>6
  <2>4. Present(h, E, k, s) <=> ~Value(h, E[t], k[t], s, Empty)
    BY <2>3 DEF Present, Value
  <2> QED  BY <1>1, <2>2, <2>4
<1>7. CASE s # R.rid
  <2>1. g[s] = h[s]
    BY <1>7 DEF Undoable
  <2>2. \A u \in Txns : Touched(F[u], k[u], s) <=> Touched(E[u], k[u], s)
    BY <1>1, <1>4, <1>7
  <2>3. ASSUME NEW u \in Txns PROVE Value(g, F[u], k[u], s, Empty) <=> Value(h, E[u], k[u], s, Empty)
    <3>1. CASE u = t
      BY <1>4, <3>1
    <3>2. CASE u # t
      BY <1>1, <2>1, <3>2, ValueSame
    <3> QED  BY <1>1, <3>1, <3>2
  <2> QED  BY <1>1, <2>1, <2>2, <2>3 DEF Present
<1> QED  BY <1>1, <1>6, <1>7

(* The tenants of a page are finitely many.                                *)
LEMMA TenantsFinite ==
    ASSUME NEW h, NEW E, NEW k, NEW r
    PROVE  /\ IsFiniteSet(Tenants(h, E, k, r)) /\ Cardinality(Tenants(h, E, k, r)) \in Nat
           /\ Tenants(h, E, k, r) \in SUBSET Rids
<1>1. Tenants(h, E, k, r) \in SUBSET Rids
  BY DEF Tenants
<1> QED  BY <1>1, RidFacts, FS_Subset, FS_CardinalityType

(* A change that is logged leaves every rollback the room it needs: a slot *)
(* is emptied, or the tuple put there fits beside what the other           *)
(* transactions may put back.                                              *)
LEMMA FitsGrows ==
    ASSUME room \in Nat, NEW h, NEW g, NEW E \in [Txns -> Seq(UndoRecord)], NEW t \in Txns,
           NEW R \in UndoRecord,
           NEW F, Logged(E, F, t, R),
           Undoable(h, g, R),
           Unshared(E, t, R.rid),
           Fits(h, E),
           g[R.rid] = Empty \/ RoomFor(h, E, t, R.rid)
    PROVE  Fits(g, F)
<1>1. F[t] = Append(E[t], R) /\ \A u \in Txns \ {t} : F[u] = E[u]
  BY DEF Logged
<1>3. E[t] \in Seq(UndoRecord) /\ Len(E[t]) \in Nat /\ Len(F[t]) = Len(E[t]) + 1
  BY <1>1, LenProperties, AppendProperties
<1> SUFFICES ASSUME NEW k \in Positions(F), NEW r \in Rids
             PROVE  Cardinality(Tenants(g, F, k, r)) <= room
  BY <1>1 DEF Fits
<1>4. k \in [Txns -> Nat] /\ (\A u \in Txns \ {t} : k[u] <= Len(E[u])) /\ k[t] <= Len(E[t]) + 1
  <2>1. k \in [Txns -> Nat] /\ \A u \in Txns : k[u] <= Len(F[u])
    BY DEF Positions
  <2>2. k[t] <= Len(E[t]) + 1
    BY <1>3, <2>1
  <2> QED  BY <1>1, <2>1, <2>2
<1>5. CASE k[t] <= Len(E[t])
  <2>1. k \in Positions(E)
    BY <1>4, <1>5 DEF Positions
  <2>2. \A s \in Rids : Present(g, F, k, s) <=> Present(h, E, k, s)
    BY <1>4, <1>5, TenantsKept
  <2>3. Tenants(g, F, k, r) = Tenants(h, E, k, r)
    BY <1>1, <2>2 DEF Tenants
  <2> QED  BY <1>1, <2>1, <2>3 DEF Fits
<1>6. CASE k[t] = Len(E[t]) + 1
  <2>1. PICK m : m = [k EXCEPT ![t] = Len(E[t])]
    OBVIOUS
  <2>2. m \in Positions(E) /\ m[t] = Len(E[t]) /\ \A u \in Txns \ {t} : m[u] = k[u]
    <3>1. PICK n \in Nat : n = Len(E[t])
      BY <1>3
    <3>2. m \in [Txns -> Nat] /\ m[t] = n /\ \A u \in Txns \ {t} : m[u] = k[u]
      BY <1>4, <2>1, <3>1
    <3>3. \A u \in Txns : m[u] <= Len(E[u])
      <4> SUFFICES ASSUME NEW u \in Txns PROVE m[u] <= Len(E[u])
        OBVIOUS
      <4>1. CASE u = t
        BY <3>1, <3>2, <4>1
      <4>2. CASE u # t
        BY <1>4, <3>2, <4>2
      <4> QED  BY <4>1, <4>2
    <3> QED  BY <1>1, <3>1, <3>2, <3>3 DEF Positions
  <2>3. \A s \in Rids : ~Touched(F[t], k[t], s) /\ ~Touched(E[t], m[t], s)
    <3>1. PICK L \in Seq(UndoRecord) : L = E[t]
      BY <1>3
    <3>2. \A s \in Rids : ~Touched(Append(L, R), Len(L) + 1, s) /\ ~Touched(L, Len(L), s)
      BY RecordAdded
    <3> QED  BY <1>1, <1>6, <2>2, <3>1, <3>2
  <2>4. ASSUME NEW s \in Rids, s # R.rid PROVE Present(g, F, k, s) <=> Present(h, E, m, s)
    <3>1. g[s] = h[s]
      BY <2>4 DEF Undoable
    <3>2. \A u \in Txns : Touched(F[u], k[u], s) <=> Touched(E[u], m[u], s)
      BY <1>1, <2>2, <2>3
    <3>3. ASSUME NEW u \in Txns \ {t} PROVE Value(g, F[u], k[u], s, Empty) <=> Value(h, E[u], m[u], s, Empty)
      BY <1>1, <2>2, <3>1, ValueSame
    <3> QED  BY <1>1, <2>3, <3>1, <3>2, <3>3 DEF Present
  <2>5. Present(g, F, k, R.rid) => g[R.rid] # Empty
    <3>1. \A u \in Txns : ~Touched(F[u], k[u], R.rid)
      <4> SUFFICES ASSUME NEW u \in Txns \ {t} PROVE ~Touched(F[u], k[u], R.rid)
        BY <1>1, <2>3 DEF UndoRecord
      <4>1. \A j \in k[u] + 1 .. Len(E[u]) : j \in 1 .. Len(E[u])
        BY <1>4, LenProperties
      <4> QED  BY <1>1, <4>1 DEF Touched, Unshared
    <3> QED  BY <1>1, <3>1 DEF Present
  <2>6. Cardinality(Tenants(h, E, m, r)) <= room
    BY <2>2 DEF Fits
  <2>7. CASE g[R.rid] = Empty \/ PageOf(r) # PageOf(R.rid)
    <3>1. Tenants(g, F, k, r) \in SUBSET Tenants(h, E, m, r)
      BY <1>1, <2>4, <2>5, <2>7 DEF Tenants
    <3>2. /\ Cardinality(Tenants(g, F, k, r)) <= Cardinality(Tenants(h, E, m, r))
      BY <3>1, TenantsFinite, FS_Subset
    <3> QED  BY <1>1, <2>6, <3>2, TenantsFinite
  <2>8. CASE g[R.rid] # Empty /\ PageOf(r) = PageOf(R.rid)
    <3>1. PICK T : T = Tenants(h, E, m, R.rid) \cup {R.rid}
      OBVIOUS
    <3>2. IsFiniteSet(T) /\ Cardinality(T) \in Nat /\ Cardinality(T) <= room
      <4>1. IsFiniteSet(T)
        BY <3>1, TenantsFinite, FS_AddElement
      <4>2. Cardinality(T) \in Nat
        BY <4>1, FS_CardinalityType
      <4>3. RoomFor(h, E, t, R.rid)
        BY <2>8
      <4>4. Cardinality(T) <= room
        BY <2>2, <3>1, <4>3 DEF RoomFor
      <4> QED  BY <4>1, <4>2, <4>4
    <3>3. Tenants(g, F, k, r) \in SUBSET T
      BY <1>1, <2>4, <2>8, <3>1 DEF Tenants
    <3>4. Cardinality(Tenants(g, F, k, r)) <= Cardinality(T)
      BY <3>2, <3>3, FS_Subset
    <3> QED  BY <1>1, <3>2, <3>4, TenantsFinite
  <2> QED  BY <1>1, <2>7, <2>8
<1> QED  BY <1>1, <1>3, <1>4, <1>5, <1>6

(* Running the last record of a transaction leaves the rest their room.    *)
LEMMA FitsShrinks ==
    ASSUME NEW h, NEW g, NEW E \in [Txns -> Seq(UndoRecord)], NEW t \in Txns,
           NEW R \in UndoRecord,
           NEW F, Logged(E, F, t, R),
           Undoable(h, g, R),
           Unshared(E, t, R.rid),
           Fits(g, F)
    PROVE  Fits(h, E)
<1>1. F[t] = Append(E[t], R) /\ \A u \in Txns \ {t} : F[u] = E[u]
  BY DEF Logged
<1>3. E[t] \in Seq(UndoRecord) /\ Len(E[t]) \in Nat /\ Len(F[t]) = Len(E[t]) + 1
  BY <1>1, LenProperties, AppendProperties
<1> SUFFICES ASSUME NEW k \in Positions(E), NEW r \in Rids
             PROVE  Cardinality(Tenants(h, E, k, r)) <= room
  BY DEF Fits
<1>4. k \in [Txns -> Nat] /\ \A u \in Txns : k[u] <= Len(E[u])
  BY DEF Positions
<1>5. k \in Positions(F)
  <2>1. \A u \in Txns : k[u] <= Len(F[u])
    BY <1>1, <1>3, <1>4
  <2> QED  BY <1>1, <1>4, <2>1 DEF Positions
<1>6. \A s \in Rids : Present(g, F, k, s) <=> Present(h, E, k, s)
  BY <1>4, TenantsKept
<1>7. Tenants(g, F, k, r) = Tenants(h, E, k, r)
  BY <1>1, <1>6 DEF Tenants
<1> QED  BY <1>1, <1>5, <1>7 DEF Fits

(* The other transactions' logs are about other rows.                      *)
LEMMA OtherLogs ==
    ASSUME NEW h, NEW E, NEW W, NEW b, Reversible(h, E, W, b), NEW t \in Txns, NEW r \in W[t]
    PROVE  Unshared(E, t, r)
BY DEF Reversible, Undoes, Unshared

(* A logged change of one of the transaction's rows.                       *)
LEMMA Push ==
    ASSUME room \in Nat, NEW h, NEW g, NEW E \in [Txns -> Seq(UndoRecord)],
           NEW W \in [Txns -> SUBSET Rids], NEW b, NEW t \in Txns,
           NEW R \in UndoRecord,
           NEW F, Logged(E, F, t, R),
           Undoable(h, g, R), R.rid \in W[t],
           Reversible(h, E, W, b), Fits(h, E),
           R.undo = "delete" => R.tuple = Empty,
           R.undo = "restore" => R.tuple # Empty /\ g[R.rid] = Empty,
           g[R.rid] = Empty \/ RoomFor(h, E, t, R.rid)
    PROVE  /\ Reversible(g, F, W, b)
           /\ Fits(g, F)
<1>1. F[t] = Append(E[t], R) /\ \A u \in Txns \ {t} : F[u] = E[u]
  BY DEF Logged
<1>3. Unshared(E, t, R.rid)
  BY OtherLogs
<1>4. Fits(g, F)
  BY <1>3, FitsGrows
<1>5. Undoes(g, F[t], W[t], b)
  <2>1. PICK L \in Seq(UndoRecord) : L = E[t]
    OBVIOUS
  <2>2. PICK V \in SUBSET Rids : V = W[t]
    OBVIOUS
  <2>3. Undoes(h, L, V, b)
    BY <2>1, <2>2 DEF Reversible
  <2>4. Undoes(g, Append(L, R), V, b)
    BY <2>2, <2>3, LogGrows
  <2> QED  BY <1>1, <2>1, <2>2, <2>4
<1>6. ASSUME NEW u \in Txns \ {t} PROVE Undoes(g, F[u], W[u], b)
  <2>1. \A r \in W[u] : g[r] = h[r]
    BY DEF Reversible, Undoable
  <2>2. Undoes(h, E[u], W[u], b)
    BY DEF Reversible
  <2> QED  BY <1>1, <2>1, <2>2, LogLocal
<1>7. Reversible(g, F, W, b)
  <2>1. \A u \in Txns : Undoes(g, F[u], W[u], b)
    BY <1>1, <1>5, <1>6
  <2>2. \A r \in Rids : (\A u \in Txns : r \notin W[u]) => g[r] = b[r]
    BY DEF Reversible, Undoable
  <2> QED  BY <1>1, <2>1, <2>2 DEF Reversible
<1> QED  BY <1>1, <1>4, <1>7

(* The last record of a transaction is run.                                *)
LEMMA Pop ==
    ASSUME NEW h, NEW g, NEW E \in [Txns -> Seq(UndoRecord)],
           NEW W \in [Txns -> SUBSET Rids], NEW b, NEW t \in Txns,
           NEW R \in UndoRecord,
           NEW F, Logged(E, F, t, R),
           Undoable(h, g, R),
           Reversible(g, F, W, b),
           Fits(g, F)
    PROVE  Reversible(h, E, W, b) /\ Fits(h, E)
<1>1. F[t] = Append(E[t], R) /\ \A u \in Txns \ {t} : F[u] = E[u]
  BY DEF Logged
<1>3. R.rid \in W[t]
  <2>1. PICK L \in Seq(UndoRecord) : L = E[t]
    OBVIOUS
  <2>2. Len(Append(L, R)) \in 1 .. Len(Append(L, R)) /\ Append(L, R)[Len(Append(L, R))] = R
    BY LenProperties, AppendProperties
  <2>3. Undoes(g, Append(L, R), W[t], b)
    BY <1>1, <2>1 DEF Reversible
  <2> QED  BY <1>1, <2>2, <2>3 DEF Undoes
<1>4. Unshared(E, t, R.rid)
  <2>1. Unshared(F, t, R.rid)
    BY <1>3, OtherLogs
  <2> QED  BY <1>1, <2>1 DEF Unshared
<1>5. Fits(h, E)
  BY <1>4, FitsShrinks
<1>6. Undoes(h, E[t], W[t], b)
  <2>1. PICK L \in Seq(UndoRecord) : L = E[t]
    OBVIOUS
  <2>2. PICK V \in SUBSET Rids : V = W[t]
    OBVIOUS
  <2>3. Undoes(g, Append(L, R), V, b)
    BY <1>1, <2>1, <2>2 DEF Reversible
  <2>4. Undoes(h, L, V, b)
    BY <2>3, LogGrows
  <2> QED  BY <1>1, <2>1, <2>2, <2>4
<1>7. ASSUME NEW u \in Txns \ {t} PROVE Undoes(h, E[u], W[u], b)
  <2>1. \A r \in W[u] : h[r] = g[r]
    BY <1>3 DEF Reversible, Undoable
  <2>2. Undoes(g, E[u], W[u], b)
    BY <1>1 DEF Reversible
  <2> QED  BY <1>1, <2>1, <2>2, LogLocal
<1>8. Reversible(h, E, W, b)
  <2>1. \A u \in Txns : Undoes(h, E[u], W[u], b)
    BY <1>6, <1>7
  <2>2. \A r \in Rids : (\A u \in Txns : r \notin W[u]) => h[r] = b[r]
    BY <1>3 DEF Reversible, Undoable
  <2> QED  BY <1>1, <2>1, <2>2 DEF Reversible
<1> QED  BY <1>1, <1>5, <1>8

(* A transaction gets a row that no other one has.                         *)
LEMMA Gain ==
    ASSUME NEW h, NEW E \in [Txns -> Seq(UndoRecord)], NEW W \in [Txns -> SUBSET Rids], NEW b,
           NEW t \in Txns, NEW r \in Rids, \A u \in Txns \ {t} : r \notin W[u],
           NEW V, V[t] = W[t] \cup {r}, \A u \in Txns \ {t} : V[u] = W[u],
           Reversible(h, E, W, b)
    PROVE  Reversible(h, E, V, b)
<1>3. r \in W[t] \/ Value(h, E[t], 0, r, b[r])
  <2> SUFFICES ASSUME r \notin W[t] PROVE Value(h, E[t], 0, r, b[r])
    OBVIOUS
  <2>1. \A j \in 0 + 1 .. Len(E[t]) : j \in 1 .. Len(E[t])
    BY LenProperties
  <2>2. ~Touched(E[t], 0, r)
    BY <2>1 DEF Touched, Reversible, Undoes
  <2>3. h[r] = b[r]
    BY DEF Reversible
  <2> QED  BY <2>2, <2>3 DEF Value
<1>4. Undoes(h, E[t], V[t], b)
  BY <1>3 DEF Reversible, Undoes
<1>5. \A u \in Txns : Undoes(h, E[u], V[u], b)
  BY <1>4 DEF Reversible
<1>6. ASSUME NEW u \in Txns, NEW w \in Txns, u # w PROVE V[u] \cap V[w] = {}
  <2>1. W[u] \cap W[w] = {}
    BY <1>6 DEF Reversible
  <2>2. CASE u = t
    BY <1>6, <2>1, <2>2
  <2>3. CASE u # t /\ w = t
    BY <2>1, <2>3
  <2>4. CASE u # t /\ w # t
    BY <2>1, <2>4
  <2> QED  BY <2>2, <2>3, <2>4
<1>7. \A s \in Rids : (\A u \in Txns : s \notin V[u]) => h[s] = b[s]
  BY DEF Reversible
<1> QED  BY <1>5, <1>6, <1>7 DEF Reversible

(* A transaction gives rows up that are not in its log.                    *)
LEMMA Lose ==
    ASSUME NEW h, NEW E \in [Txns -> Seq(UndoRecord)], NEW W \in [Txns -> SUBSET Rids], NEW b,
           NEW t \in Txns, NEW X \in SUBSET W[t], \A i \in 1 .. Len(E[t]) : E[t][i].rid \in X,
           NEW V, V[t] = X, \A u \in Txns \ {t} : V[u] = W[u],
           Reversible(h, E, W, b)
    PROVE  Reversible(h, E, V, b)
<1>3. ASSUME NEW r \in W[t] \ X PROVE h[r] = b[r]
  <2>1. \A j \in 0 + 1 .. Len(E[t]) : j \in 1 .. Len(E[t])
    BY LenProperties
  <2>2. ~Touched(E[t], 0, r)
    BY <2>1 DEF Touched
  <2>3. Value(h, E[t], 0, r, b[r])
    BY DEF Reversible, Undoes
  <2> QED  BY <2>2, <2>3 DEF Value
<1>4. Undoes(h, E[t], V[t], b)
  BY DEF Reversible, Undoes
<1>5. \A r \in Rids : (\A u \in Txns : r \notin V[u]) => h[r] = b[r]
  BY <1>3 DEF Reversible
<1>6. \A u \in Txns : Undoes(h, E[u], V[u], b)
  BY <1>4 DEF Reversible
<1>7. \A u, w \in Txns : u # w => V[u] \cap V[w] = {}
  BY DEF Reversible
<1> QED  BY <1>5, <1>6, <1>7 DEF Reversible

(* A transaction's changes become the base, and its log is done with.      *)
LEMMA Settle ==
    ASSUME NEW h, NEW E \in [Txns -> Seq(UndoRecord)], NEW W \in [Txns -> SUBSET Rids],
           NEW b, NEW c, NEW t \in Txns,
           NEW F, F[t] = <<>>, \A u \in Txns \ {t} : F[u] = E[u],
           \A r \in Rids : c[r] = IF r \in W[t] THEN h[r] ELSE b[r],
           Reversible(h, E, W, b), Fits(h, E)
    PROVE  Reversible(h, F, W, c) /\ Fits(h, F)
<1>2. Len(F[t]) = 0
  OBVIOUS
<1>3. \A r : \A k \in Nat : ~Touched(<<>>, k, r)
  BY DEF Touched
<1>4. Undoes(h, F[t], W[t], c)
  BY <1>2, <1>3 DEF Undoes, Value
<1>5. ASSUME NEW u \in Txns \ {t} PROVE Undoes(h, F[u], W[u], c)
  <2>1. Undoes(h, E[u], W[u], b)
    BY DEF Reversible
  <2>2. \A r \in W[u] : c[r] = b[r]
    BY DEF Reversible
  <2> QED  BY <1>2, <2>1, <2>2, LogLocal
<1>6. Reversible(h, F, W, c)
  <2>1. \A u \in Txns : Undoes(h, F[u], W[u], c)
    BY <1>4, <1>5
  <2> QED  BY <2>1 DEF Reversible
<1>7. ASSUME NEW k \in Positions(F), NEW r \in Rids PROVE Cardinality(Tenants(h, F, k, r)) <= room
  <2>1. PICK n \in Nat : n = Len(E[t])
    BY LenProperties
  <2>2. PICK m : m = [k EXCEPT ![t] = n]
    OBVIOUS
  <2>3. k \in [Txns -> Nat] /\ k[t] = 0 /\ \A u \in Txns \ {t} : k[u] <= Len(E[u])
    <3>1. k \in [Txns -> Nat] /\ \A u \in Txns : k[u] <= Len(F[u])
      BY DEF Positions
    <3>2. k[t] \in Nat /\ k[t] <= 0
      BY <1>2, <3>1
    <3> QED  BY <1>2, <3>1, <3>2
  <2>4. m \in [Txns -> Nat] /\ m[t] = n /\ \A u \in Txns \ {t} : m[u] = k[u]
    BY <2>2, <2>3
  <2>5. m \in Positions(E)
    BY <2>1, <2>3, <2>4 DEF Positions
  <2>6. \A s \in Rids : ~Touched(F[t], k[t], s) /\ ~Touched(E[t], m[t], s)
    BY <1>2, <1>3, <2>1, <2>3, <2>4 DEF Touched
  <2>7. \A s \in Rids : Present(h, F, k, s) <=> Present(h, E, m, s)
    BY <1>2, <2>4, <2>6 DEF Present
  <2>8. Tenants(h, F, k, r) = Tenants(h, E, m, r)
    BY <2>7 DEF Tenants
  <2> QED  BY <2>5, <2>8 DEF Fits
<1> QED  BY <1>6, <1>7 DEF Fits

-----------------------------------------------------------------------------
(* The logs are sequences of undo records and the rows are rows.           *)
LEMMA LogTypes ==
    TxInv => UndoLogs \in [Txns -> Seq(UndoRecord)] /\ Writes \in [Txns -> SUBSET Rids]
<1> SUFFICES ASSUME TxInv, NEW t \in Txns
             PROVE  UndoLog(t) \in Seq(UndoRecord) /\ Rows(t) \in SUBSET Rids
  BY DEF UndoLogs, Writes
<1>0. /\ TypeOK /\ CallsOK /\ log[t] \in Seq(UndoRecord) /\ old[t] \in Tuples /\ Empty \in Tuples
      /\ pc[t] \in Pcs
  BY DEF TxInv, TypeOK, Tuples
<1>1. Rows(t) \in SUBSET Rids
  BY <1>0 DEF Rows, TypeOK, CallsOK
<1>2. \A r \in Rids : DeleteUndo(r) \in UndoRecord /\ RestoreUndo(r, old[t]) \in UndoRecord
  BY <1>0 DEF DeleteUndo, RestoreUndo, UndoRecord
<1>3. <<>> \in Seq(UndoRecord)
  BY EmptySeq
<1>4. Pending(t) \in Seq(UndoRecord)
  <2>1. CASE pc[t] = "move"
    <3>1. rid[t] \in Rids
      BY <1>0, <2>1 DEF CallsOK
    <3> QED  BY <1>2, <2>1, <3>1 DEF Pending
  <2>2. CASE pc[t] = "lockdest" /\ kind[t] = "insert"
    <3>1. dest[t] \in Rids
      BY <1>0, <2>2 DEF CallsOK
    <3> QED  BY <1>2, <2>2, <3>1 DEF Pending, DestRecords
  <2>3. CASE pc[t] = "lockdest" /\ kind[t] # "insert"
    <3>1. dest[t] \in Rids /\ rid[t] \in Rids
      BY <1>0, <2>3 DEF CallsOK, TypeOK
    <3> QED  BY <1>2, <2>3, <3>1 DEF Pending, DestRecords, UpdateRecords
  <2>4. CASE pc[t] \notin {"move", "lockdest"}
    BY <1>3, <2>4 DEF Pending
  <2> QED  BY <2>1, <2>2, <2>3, <2>4
<1>5. UndoLog(t) \in Seq(UndoRecord)
  <2>1. CASE pc[t] = "undo"
    <3>1. 1 \in Int /\ todo[t] \in Int /\ \A i \in 1 .. todo[t] : log[t][i] \in UndoRecord
      <4>1. todo[t] \in Nat /\ todo[t] <= Len(log[t]) /\ Len(log[t]) \in Nat
        BY <1>0, <2>1, LenProperties DEF TypeOK, CallsOK
      <4> QED  BY <1>0, <4>1, ElementOfSeq
    <3>2. SubSeq(log[t], 1, todo[t]) \in Seq(UndoRecord)
      BY <3>1, SubSeqProperties
    <3> QED  BY <2>1, <3>2 DEF UndoLog
  <2>2. CASE pc[t] \in Ended
    BY <1>3, <2>2 DEF UndoLog, Ended
  <2>3. CASE pc[t] \notin Ended \cup {"undo"}
    <3>1. log[t] \o Pending(t) \in Seq(UndoRecord)
      BY <1>0, <1>4, ConcatProperties
    <3> QED  BY <2>3, <3>1 DEF UndoLog
  <2> QED  BY <2>1, <2>2, <2>3
<1> QED  BY <1>1, <1>5

(* A step of t leaves the logs and the rows of the others alone.           *)
LEMMA Shapes ==
    ASSUME TxInv, NEW t \in Txns, TxNext(t), UNCHANGED room
    PROVE  /\ UndoLogs \in [Txns -> Seq(UndoRecord)] /\ UndoLogs' \in [Txns -> Seq(UndoRecord)]
           /\ Writes \in [Txns -> SUBSET Rids] /\ Writes' \in [Txns -> SUBSET Rids]
           /\ \A u \in Txns : /\ UndoLogs[u] = UndoLog(u) /\ UndoLogs'[u] = UndoLog(u)'
                              /\ Writes[u] = Rows(u) /\ Writes'[u] = Rows(u)'
           /\ \A u \in Txns \ {t} : UndoLogs'[u] = UndoLogs[u] /\ Writes'[u] = Writes[u]
<1>1. TxInv'
  BY NextTx DEF Next
<1>2. UndoLogs \in [Txns -> Seq(UndoRecord)] /\ Writes \in [Txns -> SUBSET Rids]
  BY LogTypes
<1>3. (UndoLogs \in [Txns -> Seq(UndoRecord)] /\ Writes \in [Txns -> SUBSET Rids])'
  BY <1>1, LogTypes, PTL
<1>4. \A u \in Txns : UndoLogs'[u] = UndoLog(u)' /\ Writes'[u] = Rows(u)'
  BY DEF UndoLogs, Writes
<1>5. \A u \in Txns : UndoLogs[u] = UndoLog(u) /\ Writes[u] = Rows(u)
  BY DEF UndoLogs, Writes
<1>6. \A u \in Txns \ {t} :
         /\ pc'[u] = pc[u] /\ log'[u] = log[u] /\ kind'[u] = kind[u] /\ rid'[u] = rid[u]
         /\ dest'[u] = dest[u] /\ old'[u] = old[u] /\ todo'[u] = todo[u] /\ exclusive'[u] = exclusive[u]
  BY TypeStep, LockSteps, LockEffects
<1>7. ASSUME NEW u \in Txns \ {t} PROVE UndoLog(u)' = UndoLog(u) /\ Rows(u)' = Rows(u)
  BY <1>6 DEF UndoLog, Rows, Pending, DestRecords, UpdateRecords, RestoreUndo, DeleteUndo
<1> QED  BY <1>2, <1>3, <1>4, <1>5, <1>7

(* What the other rollbacks can bring onto a page is there already or owed *)
(* to them, so a tuple that was inserted without a clash leaves them room. *)
LEMMA TakingLeavesRoom ==
    ASSUME TxInv, NEW t \in Txns, NEW r \in Rids, Taking(t, r), ~clash',
           Reversible(heap, UndoLogs, Writes, base), CallsUndisturbed
    PROVE  Locks!Alone(t, r) /\ RoomFor(heap, UndoLogs, t, r)
<1>0. ~clash /\ Locks!Alone(t, r) /\ ~(Occupancy(r) + Cardinality(Owed(t, r)) >= room)
  BY DEF Taking, TxInv, TypeOK
<1>N. room \in Nat
  BY RidFacts DEF TxInv, TypeOK
<1> DEFINE There == {s \in Rids : PageOf(s) = PageOf(r) /\ heap[s] # Empty}
<1>1. IsFiniteSet(There) /\ IsFiniteSet(Owed(t, r))
  <2>1. There \in SUBSET Rids /\ Owed(t, r) \in SUBSET Rids
    BY DEF Owed
  <2> QED  BY <2>1, RidFacts, FS_Subset
<1>2. Cardinality(There) \in Nat /\ Cardinality(Owed(t, r)) \in Nat
  BY <1>1, FS_CardinalityType
<1>3. There \cap Owed(t, r) = {}
  BY DEF Owed
<1> SUFFICES ASSUME NEW k \in Positions(UndoLogs), k[t] = Len(UndoLogs[t])
             PROVE  Cardinality(Tenants(heap, UndoLogs, k, r) \cup {r}) <= room
  BY <1>0 DEF RoomFor
<1>4. ASSUME NEW s \in Tenants(heap, UndoLogs, k, r), s # r PROVE s \in There \cup Owed(t, r)
  <2>1. s \in Rids /\ PageOf(s) = PageOf(r) /\ Present(heap, UndoLogs, k, s)
    BY DEF Tenants
  <2>2. CASE heap[s] # Empty
    BY <2>1, <2>2
  <2>3. CASE heap[s] = Empty
    <3>1. PICK u \in Txns : Touched(UndoLogs[u], k[u], s)
      BY <2>1, <2>3 DEF Present
    <3>2. k \in [Txns -> Nat] /\ UndoLogs[u] \in Seq(UndoRecord) /\ UndoLogs[t] \in Seq(UndoRecord)
      BY LogTypes DEF Positions
    <3>3. u # t
      BY <3>1, <3>2, LenProperties DEF Touched
    <3>4. PICK j \in 1 .. Len(UndoLogs[u]) : UndoLogs[u][j].rid = s
      <4>1. \A j \in k[u] + 1 .. Len(UndoLogs[u]) : j \in 1 .. Len(UndoLogs[u])
        BY <3>2, LenProperties
      <4> QED  BY <3>1, <4>1 DEF Touched
    <3>5. s \in Writes[u]
      BY <3>4 DEF Reversible, Undoes
    <3>6. s \in exclusive[u]
      BY <2>3, <3>5 DEF Writes, Rows, CallsUndisturbed
    <3> QED  BY <2>1, <2>3, <3>3, <3>6, <1>4 DEF Owed
  <2> QED  BY <2>2, <2>3
<1>5. PICK T : T = There \cup Owed(t, r)
  OBVIOUS
<1>6. IsFiniteSet(T) /\ Cardinality(T) = Cardinality(There) + Cardinality(Owed(t, r))
  <2>1. Cardinality(There \cap Owed(t, r)) = 0
    BY <1>3, FS_EmptySet
  <2>2. /\ IsFiniteSet(There \cup Owed(t, r))
        /\ Cardinality(There \cup Owed(t, r))
              = Cardinality(There) + Cardinality(Owed(t, r)) - Cardinality(There \cap Owed(t, r))
    BY <1>1, FS_Union
  <2> QED  BY <1>2, <1>5, <2>1, <2>2
<1>7. Cardinality(There) = Occupancy(r)
  BY DEF Occupancy
<1>8. /\ IsFiniteSet(T \cup {r})
      /\ Cardinality(T \cup {r}) \in Nat /\ Cardinality(T \cup {r}) <= room
  <2>0. Cardinality(T) \in Nat
    BY <1>2, <1>6
  <2>1. IsFiniteSet(T \cup {r}) /\ Cardinality(T \cup {r}) <= Cardinality(T) + 1
    <3>1. /\ IsFiniteSet(T \cup {r})
          /\ Cardinality(T \cup {r}) = IF r \in T THEN Cardinality(T) ELSE Cardinality(T) + 1
      BY ONLY <1>6, FS_AddElement
    <3> QED  BY ONLY <2>0, <3>1
  <2>2. Cardinality(T \cup {r}) \in Nat
    BY <2>1, FS_CardinalityType
  <2> QED  BY <1>0, <1>N, <1>2, <1>6, <1>7, <2>1, <2>2
<1>9. Tenants(heap, UndoLogs, k, r) \cup {r} \in SUBSET (T \cup {r})
  BY <1>4, <1>5
<1>10. /\ IsFiniteSet(Tenants(heap, UndoLogs, k, r) \cup {r})
       /\ Cardinality(Tenants(heap, UndoLogs, k, r) \cup {r}) <= Cardinality(T \cup {r})
  BY <1>8, <1>9, FS_Subset
<1>11. Cardinality(Tenants(heap, UndoLogs, k, r) \cup {r}) \in Nat
  BY <1>10, FS_CardinalityType
<1> QED  BY <1>N, <1>8, <1>10, <1>11

-----------------------------------------------------------------------------
(* The size of the pages stays what it is.                                 *)
LEMMA RollbackNext ==
    ASSUME UNCHANGED room, Reversible(heap', UndoLogs', Writes', base'), Fits(heap', UndoLogs')
    PROVE  RollbackOK'
<1>1. Reversible(heap, UndoLogs, Writes, base)'
  BY DEF Reversible, Undoes, Value, Touched
<1>2. Fits(heap, UndoLogs)'
  BY DEF Fits, Positions, Tenants, Present, Value, Touched
<1> QED  BY <1>1, <1>2 DEF RollbackOK

(* A step that leaves the table and what t would turn back alone.          *)
Quiet(t) ==
    UNCHANGED <<heap, base>> /\ UndoLog(t)' = UndoLog(t) /\ Rows(t)' = Rows(t)

(* Such a step leaves the rollbacks alone.                                 *)
LEMMA QuietStep ==
    ASSUME TxInv, NEW t \in Txns, TxNext(t), UNCHANGED room, Quiet(t), RollbackOK
    PROVE  RollbackOK'
<1>1. UndoLogs' = UndoLogs /\ Writes' = Writes
  <2>1. \A u \in Txns : UndoLogs'[u] = UndoLogs[u] /\ Writes'[u] = Writes[u]
    BY Shapes DEF Quiet
  <2> QED  BY <2>1, Shapes
<1>2. Reversible(heap', UndoLogs', Writes', base') /\ Fits(heap', UndoLogs')
  BY <1>1 DEF Quiet, RollbackOK
<1> QED  BY <1>2, RollbackNext

(* The places at which a transaction has no records to add.                *)
Settled == {"idle", "lock", "read", "change"}

(* There, the undo log is the transaction's own one.                       *)
LEMMA SettledLog ==
    TxInv => \A t \in Txns : pc[t] \in Settled => UndoLog(t) = log[t] /\ Rows(t) = exclusive[t]
<1> SUFFICES ASSUME TxInv, NEW t \in Txns, pc[t] \in Settled
             PROVE  UndoLog(t) = log[t] /\ Rows(t) = exclusive[t]
  OBVIOUS
<1>1. log[t] \in Seq(UndoRecord)
  BY DEF TxInv, TypeOK
<1>2. UndoLog(t) = log[t] \o <<>>
  BY DEF UndoLog, Pending, Settled, Ended
<1>3. log[t] \o <<>> = log[t]
  BY <1>1, ConcatEmptySeq
<1>4. Rows(t) = exclusive[t]
  BY DEF Rows, Settled
<1> QED  BY <1>2, <1>3, <1>4

(* The same after a step.                                                  *)
LEMMA SettledNext ==
    ASSUME TxInv'
    PROVE  (\A t \in Txns : pc[t] \in Settled => UndoLog(t) = log[t] /\ Rows(t) = exclusive[t])'
BY SettledLog, PTL

(* The steps of a call that are about nobody's rollback.                   *)
LEMMA QuietCalls ==
    ASSUME TxInv, TxInv', NEW t \in Txns,
           \/ Begin(t) \/ ScanNext(t) \/ (\E k \in {"get", "delete", "update"}, r \in Rids : Call(t, k, r))
           \/ LockRowUpgrade(t) \/ LockRowRefused(t) \/ GetRow(t) \/ ScanRow(t) \/ ReadOld(t)
           \/ UpdateNothing(t)
    PROVE  Quiet(t)
<1>0. TypeOK
  BY DEF TxInv
<1>1. ASSUME pc[t] \in Settled, pc'[t] \in Settled, UNCHANGED <<heap, base, log, exclusive>> PROVE Quiet(t)
  BY <1>1, SettledLog, SettledNext DEF Quiet
<1>2. ASSUME NEW k, NEW r \in Rids, Call(t, k, r) PROVE Quiet(t)
  <2>1. pc[t] \in Settled /\ pc'[t] \in Settled /\ UNCHANGED <<heap, base, log, exclusive>>
    BY <1>0, <1>2 DEF Call, MayCall, Goto, Settled, TypeOK, lockVars
  <2> QED  BY <1>1, <2>1
<1>3. CASE ScanNext(t) \/ (\E k \in {"get", "delete", "update"}, r \in Rids : Call(t, k, r))
  BY <1>2, <1>3 DEF ScanNext
<1>4. CASE LockRowRefused(t) \/ GetRow(t) \/ ScanRow(t) \/ ReadOld(t) \/ UpdateNothing(t)
  <2>1. pc[t] \in Settled /\ pc'[t] \in Settled /\ UNCHANGED <<heap, base, log, exclusive>>
    BY <1>0, <1>4 DEF LockRowRefused, Refused, Locks!Refuse, GetRow, ScanRow, ReadOld, UpdateNothing, Goto, Settled,
       TypeOK, lockVars
  <2> QED  BY <1>1, <2>1
<1>5. CASE LockRowUpgrade(t)
  <2>1. pc[t] \in Settled /\ pc'[t] \in Settled /\ UNCHANGED <<heap, base, log, exclusive>>
    BY <1>0, <1>5 DEF LockRowUpgrade, Locks!DropForUpgrade, Settled, TypeOK
  <2> QED  BY <1>1, <2>1
<1>6. CASE Begin(t)
  <2>1. UNCHANGED <<heap, base, log, exclusive, pc, callVars, todo>>
    BY <1>6 DEF Begin, Locks!Begin
  <2> QED  BY <2>1 DEF Quiet, UndoLog, Pending, DestRecords, UpdateRecords, RestoreUndo, DeleteUndo, Rows, callVars
<1> QED  BY <1>3, <1>4, <1>5, <1>6

(* So are the lock on the row of a new tuple, and the begin of a rollback. *)
LEMMA QuietSteps ==
    ASSUME TxInv, TxInv', NEW t \in Txns,
           LockDest(t) \/ LockDestUpgrade(t) \/ Abort(t) \/ End(t)
    PROVE  Quiet(t)
<1>0. TypeOK /\ log[t] \in Seq(UndoRecord)
  BY DEF TxInv, TypeOK
<1>1. CASE LockDest(t)
  <2>1. pc[t] = "lockdest" /\ pc'[t] \in Settled /\ UNCHANGED <<heap, base>>
    BY <1>0, <1>1 DEF LockDest, Goto, TypeOK, Settled
  <2>2. log'[t] = log[t] \o DestRecords(t)
    BY <1>0, <1>1 DEF LockDest, TypeOK
  <2>3. UndoLog(t) = log[t] \o DestRecords(t)
    BY <2>1 DEF UndoLog, Pending, Ended
  <2>4. exclusive'[t] = exclusive[t] \cup {dest[t]}
    BY <1>0, <1>1 DEF LockDest, Granted, Exclusively, Target, Locks!GrantExclusive, TypeOK, lockVars
  <2> QED  BY <2>1, <2>2, <2>3, <2>4, SettledNext DEF Quiet, Rows
<1>2. CASE LockDestUpgrade(t)
  <2>1. UNCHANGED <<heap, base, log, exclusive, pc, callVars, todo>>
    BY <1>2 DEF LockDestUpgrade, Locks!DropForUpgrade
  <2> QED  BY <2>1 DEF Quiet, UndoLog, Pending, DestRecords, UpdateRecords, RestoreUndo, DeleteUndo, Rows, callVars
<1>3. CASE Abort(t)
  <2>1. /\ pc[t] = "idle" /\ pc'[t] = "undo" /\ todo'[t] = Len(log[t])
        /\ UNCHANGED <<heap, base, log, exclusive>>
    BY <1>0, <1>3 DEF Abort, Goto, Locks!Shrink, TypeOK
  <2>2. UndoLog(t)' = SubSeq(log[t], 1, Len(log[t]))
    BY <2>1 DEF UndoLog, Ended
  <2>3. SubSeq(log[t], 1, Len(log[t])) = log[t]
    BY <1>0, SubSeqFull
  <2>4. UndoLog(t) = log[t] /\ Rows(t) = exclusive[t]
    BY <2>1, SettledLog DEF Settled
  <2>5. Rows(t)' = exclusive[t]
    BY <2>1 DEF Rows
  <2> QED  BY <2>1, <2>2, <2>3, <2>4, <2>5 DEF Quiet
<1>4. CASE End(t)
  <2>1. pc[t] \in Ended \ {"commit"} /\ pc'[t] \in Ended /\ UNCHANGED <<heap, base, log, exclusive>>
    BY <1>0, <1>4 DEF End, Goto, Locks!End, TypeOK, Ended
  <2>2. UndoLog(t) = <<>> /\ UndoLog(t)' = <<>>
    BY <2>1 DEF UndoLog, Ended
  <2>3. Rows(t) = exclusive[t] /\ Rows(t)' = exclusive'[t]
    BY <2>1 DEF Rows, Ended
  <2> QED  BY <2>1, <2>2, <2>3 DEF Quiet
<1> QED  BY <1>1, <1>2, <1>3, <1>4

(* A lock that is granted on a row that nobody else has, or has a new      *)
(* tuple in.                                                               *)
LEMMA LockRowKeeps ==
    ASSUME TxInv, TxInv', NEW t \in Txns, TxNext(t), LockRow(t), UNCHANGED room, RollbackOK, ~clash'
    PROVE  RollbackOK'
<1>0. TypeOK /\ CallsOK
  BY DEF TxInv
<1>1. pc[t] \in Settled /\ pc'[t] \in Settled /\ UNCHANGED <<heap, base, log>> /\ rid[t] \in Rids
  BY <1>0 DEF LockRow, Goto, TypeOK, CallsOK, Settled
<1>2. UndoLog(t)' = UndoLog(t) /\ Rows(t) = exclusive[t] /\ Rows(t)' = exclusive'[t]
  BY <1>1, SettledLog, SettledNext
<1>3. CASE exclusive'[t] = exclusive[t]
  BY <1>1, <1>2, <1>3, QuietStep DEF Quiet
<1>4. CASE exclusive'[t] # exclusive[t]
  <2>1. Locks!GrantExclusive(t, rid[t])
    BY <1>0, <1>4 DEF LockRow, Granted, Target, lockVars, Locks!GrantShared
  <2>2. /\ exclusive'[t] = exclusive[t] \cup {rid[t]}
        /\ \A u \in Txns \ {t} : rid[t] \notin exclusive[u]
    BY <1>0, <2>1 DEF Locks!GrantExclusive, Locks!Alone, TypeOK
  <2>3. \A u \in Txns \ {t} : rid[t] \notin Rows(u)
    BY <2>2 DEF LockRow, Locking, Rows
  <2>4. /\ \A u \in Txns \ {t} : rid[t] \notin Writes[u] /\ Writes'[u] = Writes[u]
        /\ Writes'[t] = Writes[t] \cup {rid[t]}
        /\ UndoLogs \in [Txns -> Seq(UndoRecord)] /\ Writes \in [Txns -> SUBSET Rids]
    BY <1>2, <2>2, <2>3, Shapes
  <2>5. UndoLogs' = UndoLogs
    <3>1. \A u \in Txns : UndoLogs'[u] = UndoLogs[u]
      BY <1>2, Shapes
    <3> QED  BY <3>1, Shapes
  <2>6. Reversible(heap, UndoLogs, Writes', base)
    BY ONLY t \in Txns, <1>1, <2>4, RollbackOK, Gain DEF RollbackOK
  <2> QED  BY <1>1, <2>5, <2>6, RollbackNext DEF RollbackOK
<1> QED  BY <1>3, <1>4

(* A change of the table with its record.                                  *)
Change(t, R) ==
    /\ UndoLog(t)' = Append(UndoLog(t), R)
    /\ Undoable(heap, heap', R)
    /\ Rows(t)' = Rows(t) \cup {R.rid}
    /\ R.undo = "delete" => R.tuple = Empty
    /\ R.undo = "restore" => R.tuple # Empty /\ heap'[R.rid] = Empty
    /\ heap'[R.rid] = Empty \/ RoomFor(heap, UndoLogs, t, R.rid)

(* It can be undone if the row is the transaction's own or nobody's.       *)
LEMMA ChangeKeeps ==
    ASSUME TxInv, NEW t \in Txns, TxNext(t), UNCHANGED <<room, base>>, RollbackOK,
           NEW R \in UndoRecord, Change(t, R),
           R.rid \in Rows(t) \/ \A u \in Txns \ {t} : R.rid \notin Rows(u)
    PROVE  RollbackOK'
<1>0. room \in Nat /\ R.rid \in Rids
  BY RidFacts DEF TxInv, TypeOK, UndoRecord
<1>1. /\ UndoLogs \in [Txns -> Seq(UndoRecord)] /\ Writes \in [Txns -> SUBSET Rids]
      /\ Writes' \in [Txns -> SUBSET Rids]
      /\ UndoLogs'[t] = Append(UndoLogs[t], R) /\ Writes'[t] = Writes[t] \cup {R.rid}
      /\ \A u \in Txns \ {t} : UndoLogs'[u] = UndoLogs[u] /\ Writes'[u] = Writes[u]
      /\ \A u \in Txns : Writes[u] = Rows(u)
  BY Shapes DEF Change
<1>2. Reversible(heap, UndoLogs, Writes, base) /\ Fits(heap, UndoLogs)
  BY DEF RollbackOK
<1>3. \A u \in Txns \ {t} : R.rid \notin Writes[u]
  BY <1>1, <1>2 DEF Reversible
<1>4. Reversible(heap, UndoLogs, Writes', base)
  BY ONLY t \in Txns, <1>0, <1>1, <1>2, <1>3, Gain
<1>5. Logged(UndoLogs, UndoLogs', t, R) /\ R.rid \in Writes'[t]
  BY <1>1 DEF Logged
<1>6. Reversible(heap', UndoLogs', Writes', base) /\ Fits(heap', UndoLogs')
  BY ONLY t \in Txns, R \in UndoRecord, Change(t, R), <1>0, <1>1, <1>2, <1>4, <1>5, Push DEF Change
<1> QED  BY <1>6, RollbackNext

(* A slot that is taken without a clash is nobody else's.                  *)
LEMMA TakenSlot ==
    ASSUME TxInv, NEW t \in Txns, NEW r \in FreeSlots, Taking(t, r), ~clash',
           RollbackOK, CallsUndisturbed
    PROVE  /\ r \in Rids /\ heap[r] = Empty
           /\ \A u \in Txns \ {t} : r \notin Rows(u)
           /\ RoomFor(heap, UndoLogs, t, r)
<1>1. r \in Rids /\ heap[r] = Empty
  BY DEF FreeSlots
<1>2. Locks!Alone(t, r) /\ RoomFor(heap, UndoLogs, t, r)
  BY <1>1, TakingLeavesRoom DEF RollbackOK
<1>3. \A u \in Txns \ {t} : r \notin Rows(u)
  BY <1>1, <1>2 DEF Rows, Locks!Alone, CallsUndisturbed
<1> QED  BY <1>1, <1>2, <1>3

(* The records are of the types they have to be of.                        *)
LEMMA Records ==
    ASSUME NEW r \in Rids, NEW v \in Tuples
    PROVE  /\ DeleteUndo(r) \in UndoRecord /\ DeleteUndo(r).rid = r
           /\ DeleteUndo(r).undo = "delete" /\ DeleteUndo(r).tuple = Empty
           /\ RestoreUndo(r, v) \in UndoRecord /\ RestoreUndo(r, v).rid = r
           /\ RestoreUndo(r, v).undo = "restore" /\ RestoreUndo(r, v).tuple = v
BY DEF DeleteUndo, RestoreUndo, UndoRecord, Tuples

(* insert_tuple                                                            *)
LEMMA InsertKeeps ==
    ASSUME TxInv, TxInv', NEW t \in Txns, TxNext(t), InsertTuple(t), UNCHANGED room,
           RollbackOK, CallsUndisturbed, ~clash'
    PROVE  RollbackOK'
<1>0. TypeOK /\ log[t] \in Seq(UndoRecord) /\ Empty \in Tuples
  BY DEF TxInv, TypeOK, Tuples
<1>1. PICK r \in FreeSlots : heap' = [heap EXCEPT ![r] = t] /\ dest' = [dest EXCEPT ![t] = r] /\ Taking(t, r)
  BY DEF InsertTuple
<1>2. /\ r \in Rids /\ heap[r] = Empty /\ \A u \in Txns \ {t} : r \notin Rows(u)
      /\ RoomFor(heap, UndoLogs, t, r)
  BY <1>1, TakenSlot
<1>3. PICK R \in UndoRecord : R = DeleteUndo(r) /\ R.rid = r /\ R.undo = "delete" /\ R.tuple = Empty
  BY <1>0, <1>2, Records
<1>4. /\ pc[t] \in Settled /\ pc'[t] = "lockdest" /\ kind'[t] = "insert" /\ dest'[t] = r
      /\ UNCHANGED <<log, exclusive, base>>
  BY <1>0, <1>1 DEF InsertTuple, MayCall, Goto, TypeOK, Settled, lockVars
<1>5. UndoLog(t) = log[t] /\ Rows(t) = exclusive[t]
  BY <1>4, SettledLog
<1>6. UndoLog(t)' = log[t] \o <<R>>
  BY <1>3, <1>4 DEF UndoLog, Pending, Ended, DestRecords, DeleteUndo
<1>7. UndoLog(t)' = Append(UndoLog(t), R)
  BY <1>0, <1>5, <1>6, AppendIsConcat
<1>8. Rows(t)' = Rows(t) \cup {R.rid}
  BY <1>3, <1>4, <1>5 DEF Rows
<1>9. Undoable(heap, heap', R)
  BY <1>0, <1>1, <1>2, <1>3 DEF Undoable, TypeOK
<1>10. Change(t, R)
  BY <1>2, <1>3, <1>7, <1>8, <1>9 DEF Change
<1> QED  BY <1>2, <1>3, <1>4, <1>10, ChangeKeeps

(* delete_tuple, and the half of update_tuple that removes the old tuple   *)
LEMMA DeleteKeeps ==
    ASSUME TxInv, TxInv', NEW t \in Txns, TxNext(t), DeleteRow(t) \/ UpdateOut(t), UNCHANGED room,
           RollbackOK, CallsUndisturbed
    PROVE  RollbackOK'
<1>0. TypeOK /\ CallsOK /\ log[t] \in Seq(UndoRecord) /\ old[t] \in Tuples
  BY DEF TxInv, TypeOK
<1>1. /\ pc[t] = "change" /\ rid[t] \in Rids /\ rid[t] \in exclusive[t]
      /\ old[t] # Empty /\ heap[rid[t]] = old[t]
      /\ heap' = [heap EXCEPT ![rid[t]] = Empty]
      /\ UNCHANGED <<exclusive, base, rid, old>>
  BY <1>0 DEF DeleteRow, UpdateOut, CallsOK, CallsUndisturbed, lockVars, callVars
<1>2. PICK R \in UndoRecord :
         R = RestoreUndo(rid[t], old[t]) /\ R.rid = rid[t] /\ R.undo = "restore" /\ R.tuple = old[t]
  BY <1>0, <1>1, Records
<1>3. UndoLog(t) = log[t] /\ Rows(t) = exclusive[t]
  BY <1>1, SettledLog DEF Settled
<1>4. UndoLog(t)' = Append(log[t], R)
  <2>1. CASE DeleteRow(t)
    <3>1. pc'[t] = "idle" /\ log'[t] = Append(log[t], R)
      BY <1>0, <1>1, <1>2, <2>1 DEF DeleteRow, Goto, TypeOK
    <3> QED  BY <3>1, SettledNext DEF Settled
  <2>2. CASE UpdateOut(t)
    <3>1. pc'[t] = "move" /\ log' = log
      BY <1>0, <2>2 DEF UpdateOut, Goto, TypeOK
    <3>2. UndoLog(t)' = log[t] \o <<R>>
      BY <1>1, <1>2, <3>1 DEF UndoLog, Pending, Ended, RestoreUndo
    <3> QED  BY <1>0, <3>2, AppendIsConcat
  <2> QED  BY <2>1, <2>2
<1>5. Rows(t)' = exclusive[t]
  <2>1. pc'[t] # "lockdest"
    BY <1>0 DEF DeleteRow, UpdateOut, Goto, TypeOK
  <2> QED  BY <1>1, <2>1 DEF Rows
<1>6. Undoable(heap, heap', R) /\ heap'[R.rid] = Empty
  BY <1>0, <1>1, <1>2 DEF Undoable, TypeOK
<1>7. Change(t, R)
  BY <1>1, <1>2, <1>3, <1>4, <1>5, <1>6 DEF Change
<1> QED  BY <1>1, <1>2, <1>3, <1>7, ChangeKeeps

(* Two records, one after the other.                                       *)
LEMMA TwoRecords ==
    ASSUME NEW L \in Seq(UndoRecord), NEW Q \in UndoRecord, NEW R \in UndoRecord
    PROVE  Append(L \o <<Q>>, R) = L \o <<Q, R>>
<1>1. L \o <<Q>> \in Seq(UndoRecord) /\ Append(L \o <<Q>>, R) = (L \o <<Q>>) \o <<R>>
  BY AppendIsConcat, ConcatProperties
<1>2. (L \o <<Q>>) \o <<R>> = L \o (<<Q>> \o <<R>>)
  BY ConcatAssociative
<1>3. <<Q>> \o <<R>> = <<Q, R>>
  <2>0. <<Q>> \in Seq(UndoRecord) /\ <<R>> \in Seq(UndoRecord) /\ <<Q, R>> \in Seq(UndoRecord)
    BY ONLY Q \in UndoRecord, R \in UndoRecord
  <2>1. PICK M \in Seq(UndoRecord) : M = <<Q>> \o <<R>>
    BY <2>0, ConcatProperties
  <2>2. Len(M) = 2 /\ M[1] = Q /\ M[2] = R
    BY <2>1, ConcatProperties
  <2>3. PICK N \in Seq(UndoRecord) : N = <<Q, R>>
    BY <2>0
  <2>4. Len(N) = 2 /\ N[1] = Q /\ N[2] = R
    BY <2>3
  <2>5. \A i \in 1 .. 2 : i = 1 \/ i = 2
    OBVIOUS
  <2>6. \A i \in 1 .. Len(M) : M[i] = N[i]
    BY <2>2, <2>4, <2>5
  <2>7. M = N
    BY ONLY M \in Seq(UndoRecord), N \in Seq(UndoRecord), <2>2, <2>4, <2>6, SeqEqual
  <2> QED  BY <2>1, <2>3, <2>7
<1> QED  BY <1>1, <1>2, <1>3

(* The other half, which inserts the new tuple somewhere.                  *)
LEMMA MoveKeeps ==
    ASSUME TxInv, TxInv', NEW t \in Txns, TxNext(t), UpdateMove(t), UNCHANGED room,
           RollbackOK, CallsUndisturbed, ~clash'
    PROVE  RollbackOK'
<1>0. TypeOK /\ CallsOK /\ log[t] \in Seq(UndoRecord) /\ Empty \in Tuples /\ old[t] \in Tuples
  BY DEF TxInv, TypeOK, Tuples
<1>1. PICK r \in FreeSlots :
         /\ heap' = [heap EXCEPT ![r] = t] /\ dest' = [dest EXCEPT ![t] = r] /\ Taking(t, r)
         /\ IF r = rid[t]
            THEN Goto(t, "idle") /\ log' = [log EXCEPT ![t] = @ \o UpdateRecords(t, r)]
            ELSE Goto(t, "lockdest") /\ UNCHANGED log
  BY DEF UpdateMove
<1>2. /\ r \in Rids /\ heap[r] = Empty /\ \A u \in Txns \ {t} : r \notin Rows(u)
      /\ RoomFor(heap, UndoLogs, t, r)
  BY <1>1, TakenSlot
<1>3. /\ pc[t] = "move" /\ kind[t] = "update" /\ rid[t] \in exclusive[t] /\ rid[t] \in Rids
      /\ UNCHANGED <<exclusive, base, kind, rid, old>> /\ dest'[t] = r
  BY <1>0, <1>1 DEF UpdateMove, CallsOK, lockVars, TypeOK
<1>4. PICK R \in UndoRecord : R = DeleteUndo(r) /\ R.rid = r /\ R.undo = "delete" /\ R.tuple = Empty
  BY <1>0, <1>2, Records
<1>5. PICK Q \in UndoRecord : Q = RestoreUndo(rid[t], old[t])
  BY <1>0, <1>3, Records
<1>6. UndoLog(t) = log[t] \o <<Q>> /\ Rows(t) = exclusive[t]
  BY <1>3, <1>5 DEF UndoLog, Pending, Ended, Rows
<1>7. UpdateRecords(t, r) = <<Q, R>>
  BY <1>4, <1>5 DEF UpdateRecords
<1>8. UndoLog(t)' = log[t] \o <<Q, R>> /\ Rows(t)' = exclusive[t] \cup {r}
  <2>1. CASE r = rid[t]
    <3>1. pc'[t] = "idle" /\ log'[t] = log[t] \o <<Q, R>>
      BY <1>0, <1>1, <1>7, <2>1 DEF Goto, TypeOK
    <3> QED  BY <1>3, <2>1, <3>1, SettledNext DEF Settled
  <2>2. CASE r # rid[t]
    <3>1. pc'[t] = "lockdest" /\ log' = log
      BY <1>0, <1>1, <2>2 DEF Goto, TypeOK
    <3>2. UndoLog(t)' = log[t] \o UpdateRecords(t, r)
      BY <1>3, <3>1 DEF UndoLog, Pending, Ended, DestRecords, UpdateRecords, RestoreUndo, DeleteUndo
    <3> QED  BY <1>3, <1>7, <3>1, <3>2 DEF Rows
  <2> QED  BY <2>1, <2>2
<1>9. UndoLog(t)' = Append(UndoLog(t), R)
  BY <1>0, <1>6, <1>8, TwoRecords
<1>10. Undoable(heap, heap', R)
  BY <1>0, <1>1, <1>2, <1>4 DEF Undoable, TypeOK
<1>11. Change(t, R)
  BY <1>2, <1>4, <1>6, <1>8, <1>9, <1>10 DEF Change
<1> QED  BY <1>2, <1>3, <1>4, <1>11, ChangeKeeps

(* A slot that a rollback fills again has room on its page until then.     *)
LEMMA RoomBack ==
    ASSUME room \in Nat, NEW h, NEW E \in [Txns -> Seq(UndoRecord)], NEW t \in Txns,
           NEW R \in UndoRecord, R.tuple # Empty,
           NEW F \in [Txns -> Seq(UndoRecord)], Logged(E, F, t, R), Fits(h, F),
           Unshared(E, t, R.rid)
    PROVE  RoomFor(h, F, t, R.rid)
<1>1. F[t] = Append(E[t], R) /\ R.rid \in Rids
  BY DEF Logged, UndoRecord
<1>2. PICK L \in Seq(UndoRecord) : L = E[t]
  OBVIOUS
<1>3. PICK n \in Nat : n = Len(L)
  BY LenProperties
<1>M. PICK M \in Seq(UndoRecord) : M = Append(L, R)
  BY AppendProperties
<1>4. M = Append(L, R) /\ F[t] = M /\ Len(M) = n + 1 /\ M[n + 1] = R
  BY <1>1, <1>2, <1>3, <1>M, AppendProperties
<1> SUFFICES ASSUME NEW k \in Positions(F), k[t] = n + 1
             PROVE  Cardinality(Tenants(h, F, k, R.rid) \cup {R.rid}) <= room
  BY <1>4 DEF RoomFor
<1>5. k \in [Txns -> Nat] /\ \A u \in Txns : k[u] <= Len(F[u])
  BY DEF Positions
<1>6. PICK m : m = [k EXCEPT ![t] = n]
  OBVIOUS
<1>7. m \in [Txns -> Nat] /\ m[t] = n /\ \A u \in Txns \ {t} : m[u] = k[u]
  BY <1>5, <1>6
<1>8. m \in Positions(F)
  <2>1. ASSUME NEW u \in Txns PROVE m[u] <= Len(F[u])
    <3>1. CASE u = t
      BY <1>4, <1>7, <3>1
    <3>2. CASE u # t
      BY <1>5, <1>7, <3>2
    <3> QED  BY <3>1, <3>2
  <2> QED  BY <1>7, <2>1 DEF Positions
<1>9. Touched(M, n, R.rid) /\ ~Value(h, M, n, R.rid, Empty)
  <2>1. n + 1 \in n + 1 .. n + 1 /\ \A j \in n + 1 .. n + 1 : j = n + 1
    OBVIOUS
  <2> QED  BY <1>4, <2>1 DEF Touched, Value
<1>10. Present(h, F, m, R.rid)
  BY <1>4, <1>7, <1>9 DEF Present
<1>11. ASSUME NEW s \in Rids, s # R.rid, Present(h, F, k, s) PROVE Present(h, F, m, s)
  <2>1. ~Touched(M, n + 1, s)
    BY <1>4 DEF Touched
  <2>2. ~Touched(M, n, s)
    <3>1. \A j \in n + 1 .. n + 1 : j = n + 1
      OBVIOUS
    <3> QED  BY <1>4, <1>11, <3>1 DEF Touched
  <2>3. \A u \in Txns : Touched(F[u], k[u], s) <=> Touched(F[u], m[u], s)
    BY <1>4, <1>7, <2>1, <2>2
  <2> QED  BY <1>4, <1>7, <1>11, <2>1, <2>3 DEF Present
<1>12. Tenants(h, F, k, R.rid) \cup {R.rid} \in SUBSET Tenants(h, F, m, R.rid)
  BY <1>1, <1>10, <1>11 DEF Tenants
<1>13. Cardinality(Tenants(h, F, m, R.rid)) <= room
  BY <1>1, <1>8 DEF Fits
<1>14. PICK T : T = Tenants(h, F, k, R.rid) \cup {R.rid}
  OBVIOUS
<1>15. IsFiniteSet(T) /\ Cardinality(T) <= Cardinality(Tenants(h, F, m, R.rid))
  BY <1>12, <1>14, TenantsFinite, FS_Subset
<1>16. Cardinality(T) \in Nat /\ Cardinality(Tenants(h, F, m, R.rid)) \in Nat
  BY <1>15, TenantsFinite, FS_CardinalityType
<1> QED  BY <1>13, <1>14, <1>15, <1>16

(* An update in place is two changes: the old tuple goes, the new one      *)
(* comes.                                                                  *)
LEMMA InPlaceKeeps ==
    ASSUME TxInv, TxInv', NEW t \in Txns, TxNext(t), UpdateInPlace(t), UNCHANGED room,
           RollbackOK, CallsUndisturbed
    PROVE  RollbackOK'
<1>0. TypeOK /\ CallsOK /\ log[t] \in Seq(UndoRecord) /\ Empty \in Tuples /\ old[t] \in Tuples /\ room \in Nat
  BY RidFacts DEF TxInv, TypeOK, Tuples
<1>1. /\ pc[t] = "change" /\ rid[t] \in Rids /\ rid[t] \in exclusive[t] /\ pc'[t] = "idle"
      /\ old[t] # Empty /\ heap[rid[t]] = old[t]
      /\ heap' = [heap EXCEPT ![rid[t]] = t]
      /\ log'[t] = log[t] \o UpdateRecords(t, rid[t])
      /\ UNCHANGED <<exclusive, base>>
  BY <1>0 DEF UpdateInPlace, CallsOK, CallsUndisturbed, lockVars, TypeOK, Goto
<1>2. PICK R \in UndoRecord :
         R = RestoreUndo(rid[t], old[t]) /\ R.rid = rid[t] /\ R.undo = "restore" /\ R.tuple = old[t]
  BY <1>0, <1>1, Records
<1>3. PICK D \in UndoRecord : D = DeleteUndo(rid[t]) /\ D.rid = rid[t] /\ D.undo = "delete" /\ D.tuple = Empty
  BY <1>0, <1>1, Records
<1>4. /\ UndoLog(t) = log[t] /\ Rows(t) = exclusive[t]
      /\ UndoLog(t)' = log[t] \o <<R, D>> /\ Rows(t)' = exclusive[t]
  BY <1>1, <1>2, <1>3, SettledLog, SettledNext DEF Settled, UpdateRecords
<1>5. PICK g : g = [heap EXCEPT ![rid[t]] = Empty]
  OBVIOUS
<1>6. PICK L \in Seq(UndoRecord) : L = log[t]
  BY <1>0
<1>7. Append(L, R) \in Seq(UndoRecord) /\ UndoLog(t)' = Append(Append(L, R), D)
  <2>1. Append(L, R) \in Seq(UndoRecord) /\ Append(L, R) = L \o <<R>>
    BY AppendIsConcat, AppendProperties
  <2> QED  BY <1>4, <1>6, <2>1, TwoRecords
<1>8. PICK F : F = [UndoLogs EXCEPT ![t] = Append(L, R)]
  OBVIOUS
<1>9. /\ UndoLogs \in [Txns -> Seq(UndoRecord)] /\ Writes \in [Txns -> SUBSET Rids]
      /\ F \in [Txns -> Seq(UndoRecord)] /\ Writes' = Writes /\ rid[t] \in Writes[t]
      /\ Logged(UndoLogs, F, t, R) /\ Logged(F, UndoLogs', t, D)
  <2>1. /\ UndoLogs \in [Txns -> Seq(UndoRecord)] /\ Writes \in [Txns -> SUBSET Rids]
        /\ Writes' \in [Txns -> SUBSET Rids]
        /\ Writes'[t] = Writes[t] /\ rid[t] \in Writes[t]
        /\ UndoLogs[t] = L /\ UndoLogs'[t] = Append(Append(L, R), D)
        /\ \A u \in Txns \ {t} : UndoLogs'[u] = UndoLogs[u] /\ Writes'[u] = Writes[u]
    BY <1>1, <1>4, <1>6, <1>7, Shapes
  <2>2. F \in [Txns -> Seq(UndoRecord)] /\ F[t] = Append(L, R) /\ \A u \in Txns \ {t} : F[u] = UndoLogs[u]
    BY <1>7, <1>8, <2>1
  <2> QED  BY <2>1, <2>2 DEF Logged
<1>10. Undoable(heap, g, R) /\ g[R.rid] = Empty /\ Undoable(g, heap', D)
  BY <1>0, <1>1, <1>2, <1>3, <1>5 DEF Undoable, TypeOK
<1>11. Reversible(heap, UndoLogs, Writes, base) /\ Fits(heap, UndoLogs)
  BY DEF RollbackOK
<1>12. Reversible(g, F, Writes, base) /\ Fits(g, F)
  <2>1. R.rid \in Writes[t] /\ R.undo = "restore" /\ R.tuple # Empty /\ room \in Nat
    BY <1>0, <1>1, <1>2, <1>9
  <2> QED  BY ONLY t \in Txns, R \in UndoRecord, <1>9, <1>10, <1>11, <2>1, Push
<1>13. RoomFor(g, F, t, R.rid)
  <2>1. Unshared(UndoLogs, t, R.rid)
    BY <1>2, <1>9, <1>11, OtherLogs
  <2> QED  BY ONLY t \in Txns, <1>0, <1>1, <1>2, <1>9, <1>12, <2>1, RoomBack
<1>14. Reversible(heap', UndoLogs', Writes, base) /\ Fits(heap', UndoLogs')
  BY ONLY t \in Txns, <1>0, <1>1, <1>2, <1>3, <1>9, <1>10, <1>12, <1>13, Push
<1> QED  BY <1>1, <1>9, <1>14, RollbackNext

(* A refused insert takes its tuple back.  A refused update would not, but *)
(* without a clash nobody has the row of its new tuple locked.             *)
LEMMA RefusedKeeps ==
    ASSUME TxInv, TxInv', NEW t \in Txns, TxNext(t), LockDestRefused(t), UNCHANGED room,
           RollbackOK, CallsUndisturbed
    PROVE  RollbackOK'
<1>0. TypeOK /\ CallsOK /\ UndoLocked /\ log[t] \in Seq(UndoRecord) /\ Empty \in Tuples
  BY DEF TxInv, TypeOK, Tuples
<1>1. /\ pc[t] = "lockdest" /\ pc'[t] = "idle" /\ dest[t] \in Rids
      /\ kind[t] = "insert" /\ heap' = [heap EXCEPT ![dest[t]] = Empty]
      /\ UNCHANGED <<exclusive, log, base>>
  <2>1. /\ pc[t] = "lockdest" /\ pc'[t] = "idle" /\ dest[t] \in Rids
        /\ UNCHANGED <<exclusive, log, base>>
    BY <1>0 DEF LockDestRefused, Refused, Locks!Refuse, lockVars, CallsOK, Goto, TypeOK
  <2>2. kind[t] = "insert"
    BY <1>0, <2>1 DEF LockDestRefused, Refused, Exclusively, Target, CallsOK, CallsUndisturbed
  <2> QED  BY <2>1, <2>2 DEF LockDestRefused, AfterRefusal
<1>2. PICK D \in UndoRecord : D = DeleteUndo(dest[t]) /\ D.rid = dest[t] /\ D.undo = "delete" /\ D.tuple = Empty
  BY <1>0, <1>1, Records
<1>3. UndoLog(t) = log[t] \o <<D>> /\ Rows(t) = exclusive[t] \cup {dest[t]}
  BY <1>1, <1>2 DEF UndoLog, Pending, DestRecords, Ended, Rows
<1>4. UndoLog(t)' = log[t] /\ Rows(t)' = exclusive[t]
  BY <1>1, SettledNext DEF Settled
<1>5. /\ UndoLogs \in [Txns -> Seq(UndoRecord)] /\ UndoLogs' \in [Txns -> Seq(UndoRecord)]
      /\ Writes \in [Txns -> SUBSET Rids] /\ Logged(UndoLogs', UndoLogs, t, D)
      /\ Writes'[t] = exclusive[t] /\ exclusive[t] \in SUBSET Writes[t] /\ UndoLogs'[t] = log[t]
      /\ \A u \in Txns \ {t} : Writes'[u] = Writes[u]
  <2>1. UndoLog(t) = Append(UndoLog(t)', D)
    BY <1>0, <1>3, <1>4, AppendIsConcat
  <2> QED  BY <1>3, <1>4, <2>1, Shapes DEF Logged
<1>6. Undoable(heap', heap, D)
  BY <1>0, <1>1, <1>2 DEF Undoable, TypeOK
<1>7. Reversible(heap, UndoLogs, Writes, base) /\ Fits(heap, UndoLogs)
  BY DEF RollbackOK
<1>8. Reversible(heap', UndoLogs', Writes, base) /\ Fits(heap', UndoLogs')
  BY ONLY t \in Txns, D \in UndoRecord, <1>5, <1>6, <1>7, Pop
<1>9. \A i \in 1 .. Len(UndoLogs'[t]) : UndoLogs'[t][i].rid \in exclusive[t]
  BY <1>0, <1>1, <1>5, LenProperties DEF UndoLocked
<1>10. Reversible(heap', UndoLogs', Writes', base)
  BY ONLY t \in Txns, <1>5, <1>8, <1>9, Lose
<1> QED  BY <1>1, <1>8, <1>10, RollbackNext

(* Transaction::undo runs the last record: what it does to the table is    *)
(* what the record says.                                                   *)
LEMMA UndoKeeps ==
    ASSUME TxInv, NEW t \in Txns, TxNext(t), UndoDelete(t) \/ UndoRestore(t), UNCHANGED room, RollbackOK
    PROVE  RollbackOK'
<1>0. TypeOK /\ CallsOK /\ log[t] \in Seq(UndoRecord)
  BY DEF TxInv, TypeOK
<1>1. /\ pc[t] = "undo" /\ todo[t] \in Nat /\ todo[t] > 0 /\ todo[t] <= Len(log[t])
      /\ pc'[t] = "undo" /\ todo'[t] = todo[t] - 1
      /\ UNCHANGED <<exclusive, log, base>>
  BY <1>0 DEF UndoDelete, UndoRestore, Restoring, CallsOK, TypeOK, lockVars
<1>2. PICK n \in Nat \ {0} : n = todo[t]
  BY <1>1
<1>3. PICK L \in Seq(UndoRecord) : L = log[t]
  BY <1>0
<1>4. PICK R \in UndoRecord : R = L[n] /\ R = Record(t)
  BY <1>1, <1>2, <1>3, ElementOfSeq, LenProperties DEF Record
<1>5. UndoLog(t) = SubSeq(L, 1, n) /\ UndoLog(t)' = SubSeq(L, 1, n - 1)
  BY <1>1, <1>2, <1>3 DEF UndoLog, Ended
<1>6. SubSeq(L, 1, n) = Append(SubSeq(L, 1, n - 1), R)
  <2>1. 1 \in 1 .. Len(L) /\ n \in 1 .. Len(L)
    BY <1>1, <1>2, <1>3, LenProperties
  <2>2. SubSeq(L, 1, n) = SubSeq(L, 1, n - 1) \o <<R>>
    BY <1>4, <2>1, SubSeqRecursiveSecond
  <2>3. SubSeq(L, 1, n - 1) \in Seq(UndoRecord)
    <3>1. UndoLogs' \in [Txns -> Seq(UndoRecord)] /\ UndoLogs'[t] = UndoLog(t)'
      BY Shapes
    <3> QED  BY <1>5, <3>1
  <2> QED  BY <2>2, <2>3, AppendIsConcat
<1>7. Rows(t)' = Rows(t)
  BY <1>1 DEF Rows
<1>8. /\ UndoLogs \in [Txns -> Seq(UndoRecord)] /\ UndoLogs' \in [Txns -> Seq(UndoRecord)]
      /\ Writes \in [Txns -> SUBSET Rids] /\ Logged(UndoLogs', UndoLogs, t, R)
  BY <1>5, <1>6, Shapes DEF Logged
<1>9. Writes' = Writes
  <2>1. \A u \in Txns : Writes'[u] = Writes[u]
    BY <1>7, Shapes
  <2> QED  BY <2>1, Shapes
<1>10. Reversible(heap, UndoLogs, Writes, base) /\ Fits(heap, UndoLogs)
  BY DEF RollbackOK
<1>11. R.undo = "delete" => R.tuple = Empty
  <2>1. Undoes(heap, UndoLogs[t], Writes[t], base)
    BY <1>10 DEF Reversible
  <2>2. PICK K \in Seq(UndoRecord) : K = UndoLogs'[t]
    BY <1>8
  <2>3. /\ Len(Append(K, R)) \in 1 .. Len(Append(K, R))
        /\ Append(K, R)[Len(Append(K, R))] = R
    BY LenProperties, AppendProperties
  <2> QED  BY <1>8, <2>1, <2>2, <2>3 DEF Undoes, Logged
<1>12. R.rid \in Rids /\ heap' = [heap EXCEPT ![R.rid] = R.tuple]
  BY <1>4, <1>11 DEF UndoDelete, UndoRestore, UndoRecord
<1>13. Undoable(heap', heap, R)
  BY <1>0, <1>12 DEF Undoable, TypeOK
<1>14. Reversible(heap', UndoLogs', Writes, base) /\ Fits(heap', UndoLogs')
  BY ONLY t \in Txns, R \in UndoRecord, <1>8, <1>10, <1>13, Pop
<1> QED  BY <1>1, <1>9, <1>14, RollbackNext

(* The changes of a transaction that commits are those of the rows in its  *)
(* log; what else it has is as it was.                                     *)
LEMMA CommitKeeps ==
    ASSUME TxInv, NEW t \in Txns, TxNext(t), Commit(t), UNCHANGED room, RollbackOK
    PROVE  RollbackOK'
<1>0. TypeOK /\ log[t] \in Seq(UndoRecord)
  BY DEF TxInv, TypeOK
<1>1. /\ pc[t] = "idle" /\ pc'[t] = "commit" /\ UNCHANGED <<heap, log, exclusive>>
      /\ base' = [r \in Rids |->
                    IF \E i \in DOMAIN log[t] : log[t][i].rid = r THEN heap[r] ELSE base[r]]
  BY <1>0 DEF Commit, Goto, Locks!Shrink, TypeOK
<1>2. UndoLog(t) = log[t] /\ Rows(t) = exclusive[t]
  BY <1>1, SettledLog DEF Settled
<1>3. UndoLog(t)' = <<>> /\ Rows(t)' = exclusive[t]
  BY <1>1 DEF UndoLog, Rows, Ended
<1>4. /\ UndoLogs \in [Txns -> Seq(UndoRecord)] /\ Writes \in [Txns -> SUBSET Rids]
      /\ UndoLogs[t] = log[t] /\ UndoLogs'[t] = <<>>
      /\ \A u \in Txns \ {t} : UndoLogs'[u] = UndoLogs[u]
  BY <1>2, <1>3, Shapes
<1>5. Writes' = Writes
  <2>1. \A u \in Txns : Writes'[u] = Writes[u]
    BY <1>2, <1>3, Shapes
  <2> QED  BY <2>1, Shapes
<1>6. Reversible(heap, UndoLogs, Writes, base) /\ Fits(heap, UndoLogs)
  BY DEF RollbackOK
<1>7. Undoes(heap, log[t], Writes[t], base)
  BY <1>4, <1>6 DEF Reversible
<1>8. ASSUME NEW r \in Rids PROVE base'[r] = IF r \in Writes[t] THEN heap[r] ELSE base[r]
  <2>1. DOMAIN log[t] = 1 .. Len(log[t]) /\ Len(log[t]) \in Nat
    BY <1>0, LenProperties
  <2>2. CASE \E i \in DOMAIN log[t] : log[t][i].rid = r
    BY <1>1, <1>7, <2>1, <2>2 DEF Undoes
  <2>3. CASE ~\E i \in DOMAIN log[t] : log[t][i].rid = r
    <3>1. base'[r] = base[r]
      BY <1>1, <2>3
    <3>2. ~Touched(log[t], 0, r)
      BY <2>1, <2>3 DEF Touched
    <3>3. r \in Writes[t] => heap[r] = base[r]
      BY <1>7, <3>2 DEF Undoes, Value
    <3> QED  BY <3>1, <3>3
  <2> QED  BY <2>2, <2>3
<1>9. Reversible(heap, UndoLogs', Writes, base') /\ Fits(heap, UndoLogs')
  BY ONLY t \in Txns, <1>4, <1>6, <1>8, Settle, SMTT(30)
<1> QED  BY <1>1, <1>5, <1>9, RollbackNext

(* When unlock_all gives the rows back, there is nothing left to undo.     *)
LEMMA UnlockKeeps ==
    ASSUME TxInv, NEW t \in Txns, TxNext(t), Unlock(t), UNCHANGED room, RollbackOK
    PROVE  RollbackOK'
<1>0. TypeOK /\ log[t] \in Seq(UndoRecord)
  BY DEF TxInv, TypeOK
<1>1. /\ pc[t] = "commit" \/ (pc[t] = "undo" /\ todo[t] = 0)
      /\ pc'[t] \in {"committed", "aborted"} /\ UNCHANGED <<heap, log, base>> /\ exclusive'[t] = {}
  BY <1>0 DEF Unlock, Goto, Locks!ReleaseAll, TypeOK
<1>2. UndoLog(t) = <<>>
  <2>1. CASE pc[t] = "commit"
    BY <2>1 DEF UndoLog, Ended
  <2>2. CASE pc[t] = "undo" /\ todo[t] = 0
    <3>1. SubSeq(log[t], 1, 0) = <<>>
      BY <1>0, SubSeqEmpty
    <3> QED  BY <2>2, <3>1 DEF UndoLog, Ended
  <2> QED  BY <1>1, <2>1, <2>2
<1>3. UndoLog(t)' = <<>> /\ Rows(t)' = {}
  BY <1>1 DEF UndoLog, Rows, Ended
<1>4. /\ UndoLogs \in [Txns -> Seq(UndoRecord)] /\ Writes \in [Txns -> SUBSET Rids]
      /\ UndoLogs[t] = <<>> /\ Writes'[t] = {}
      /\ \A u \in Txns \ {t} : Writes'[u] = Writes[u]
  BY <1>2, <1>3, Shapes
<1>5. UndoLogs' = UndoLogs
  <2>1. \A u \in Txns : UndoLogs'[u] = UndoLogs[u]
    BY <1>2, <1>3, Shapes
  <2> QED  BY <2>1, Shapes
<1>6. Reversible(heap, UndoLogs, Writes, base) /\ Fits(heap, UndoLogs)
  BY DEF RollbackOK
<1>7. {} \in SUBSET Writes[t] /\ \A i \in 1 .. Len(UndoLogs[t]) : UndoLogs[t][i].rid \in {}
  BY <1>4
<1>8. Reversible(heap, UndoLogs, Writes', base)
  BY ONLY t \in Txns, <1>4, <1>6, <1>7, Lose
<1> QED  BY <1>1, <1>5, <1>6, <1>8, RollbackNext

(* A step changes no slot, and locks no new tuple, of another transaction. *)
LEMMA OthersSpared ==
    ASSUME TxInv, NEW t \in Txns, TxNext(t), RollbackOK, CallsUndisturbed, ~clash'
    PROVE  \A u \in Txns \ {t} :
              /\ \A r \in Rows(u) \cap Rids : heap'[r] = heap[r]
              /\ pc[u] = "lockdest" =>
                    (shared'[t] \cup exclusive'[t]) \cap {dest[u]} \subseteq shared[t] \cup exclusive[t]
<1>0. TypeOK /\ CallsOK /\ log[t] \in Seq(UndoRecord)
  BY DEF TxInv, TypeOK
<1>1. \A u \in Txns \ {t} : Rows(t) \cap Rows(u) = {}
  BY DEF RollbackOK, Reversible, Writes
<1> SUFFICES ASSUME NEW u \in Txns \ {t}
             PROVE  /\ \A r \in Rows(u) \cap Rids : heap'[r] = heap[r]
                    /\ pc[u] = "lockdest" =>
                          (shared'[t] \cup exclusive'[t]) \cap {dest[u]} \subseteq shared[t] \cup exclusive[t]
  OBVIOUS
<1>2. \A r \in Rows(u) \cap Rids : heap'[r] = heap[r]
  <2>1. ASSUME NEW s \in Rids \ Rows(u), NEW v, heap' = [heap EXCEPT ![s] = v]
        PROVE  \A r \in Rows(u) \cap Rids : heap'[r] = heap[r]
    BY <1>0, <2>1 DEF TypeOK
  <2>2. ASSUME NEW r \in FreeSlots, heap' = [heap EXCEPT ![r] = t], Taking(t, r)
        PROVE  \A s \in Rows(u) \cap Rids : heap'[s] = heap[s]
    <3>1. r \in Rids /\ r \notin Rows(u)
      BY <2>2, TakenSlot
    <3> QED  BY <2>1, <2>2, <3>1
  <2>3. CASE InsertTuple(t) \/ UpdateMove(t)
    BY <2>2, <2>3 DEF InsertTuple, UpdateMove
  <2>4. CASE DeleteRow(t) \/ UpdateInPlace(t) \/ UpdateOut(t)
    <3>1. rid[t] \in Rids /\ rid[t] \in exclusive[t]
      BY <1>0, <2>4 DEF DeleteRow, UpdateInPlace, UpdateOut, CallsOK
    <3>2. rid[t] \notin Rows(u)
      BY <1>1, <3>1 DEF Rows
    <3>3. \E v : heap' = [heap EXCEPT ![rid[t]] = v]
      BY <2>4 DEF DeleteRow, UpdateInPlace, UpdateOut
    <3> QED  BY <2>1, <3>1, <3>2, <3>3
  <2>5. CASE LockDestRefused(t)
    <3>1. dest[t] \in Rids /\ dest[t] \in Rows(t)
      BY <1>0, <2>5 DEF LockDestRefused, CallsOK, Rows
    <3>2. dest[t] \notin Rows(u)
      BY <1>1, <3>1
    <3> QED  BY <2>1, <2>5, <3>1, <3>2 DEF LockDestRefused, AfterRefusal
  <2>6. CASE UndoDelete(t) \/ UndoRestore(t)
    <3>1. /\ pc[t] = "undo" /\ todo[t] \in Nat /\ todo[t] > 0 /\ todo[t] <= Len(log[t])
          /\ Len(log[t]) \in Nat /\ DOMAIN log[t] = 1 .. Len(log[t])
      BY <1>0, <2>6, LenProperties DEF UndoDelete, UndoRestore, Restoring, CallsOK, TypeOK
    <3>2. todo[t] \in DOMAIN log[t]
      BY <3>1
    <3>3. Record(t).rid \in exclusive[t]
      BY <3>1, <3>2 DEF TxInv, UndoLocked, Record
    <3>4. Record(t).rid \in Rids /\ Record(t).rid \notin Rows(u)
      BY <1>0, <1>1, <3>3 DEF Rows, TypeOK
    <3>5. \E v : heap' = [heap EXCEPT ![Record(t).rid] = v]
      BY <2>6 DEF UndoDelete, UndoRestore
    <3> QED  BY <2>1, <3>4, <3>5
  <2>7. CASE UNCHANGED heap
    BY <2>7
  <2>8. \/ InsertTuple(t) \/ UpdateMove(t) \/ DeleteRow(t) \/ UpdateInPlace(t) \/ UpdateOut(t)
        \/ LockDestRefused(t) \/ UndoDelete(t) \/ UndoRestore(t) \/ UNCHANGED heap
    BY DEF TxNext, CallStep, ScanNext, Begin, Call, LockRow, LockRowUpgrade, LockRowRefused, GetRow, ScanRow,
       ReadOld, UpdateNothing, LockDest, LockDestUpgrade, Commit, Abort, Unlock, End
  <2> QED  BY <2>3, <2>4, <2>5, <2>6, <2>7, <2>8
<1>3. ASSUME pc[u] = "lockdest"
      PROVE  (shared'[t] \cup exclusive'[t]) \cap {dest[u]} \subseteq shared[t] \cup exclusive[t]
  <2>1. ASSUME NEW r, Locks!GrantShared(t, r) \/ Locks!GrantExclusive(t, r) \/ UNCHANGED lockVars
        PROVE  shared'[t] \cup exclusive'[t] \subseteq shared[t] \cup exclusive[t] \cup {r}
    BY <1>0, <2>1 DEF Locks!GrantShared, Locks!GrantExclusive, lockVars, TypeOK
  <2>2. CASE LockRow(t)
    <3>1. dest[u] # rid[t]
      BY <1>3, <2>2 DEF LockRow, Locking
    <3>2. Target(t) = rid[t]
      BY <2>2 DEF LockRow, Target
    <3> QED  BY <2>1, <2>2, <3>1, <3>2 DEF LockRow, Granted
  <2>3. CASE LockDest(t)
    <3>1. dest[u] # dest[t] /\ Target(t) = dest[t]
      BY <1>1, <1>3, <2>3 DEF LockDest, Rows, Target
    <3> QED  BY <2>1, <2>3, <3>1 DEF LockDest, Granted
  <2>4. CASE ~LockRow(t) /\ ~LockDest(t)
    <3>1. /\ shared'[t] \subseteq shared[t]
          /\ exclusive'[t] \subseteq exclusive[t]
      <4>1. CASE UNCHANGED lockVars
        BY <4>1 DEF lockVars
      <4>2. CASE Begin(t) \/ LockRowRefused(t) \/ LockDestRefused(t) \/ Commit(t) \/ Abort(t)
        BY <4>2 DEF Begin, LockRowRefused, LockDestRefused, Commit, Abort, Refused, lockVars,
           Locks!Begin, Locks!Refuse, Locks!Shrink
      <4>3. CASE LockRowUpgrade(t) \/ LockDestUpgrade(t)
        BY <1>0, <4>3 DEF LockRowUpgrade, LockDestUpgrade, Locks!DropForUpgrade, TypeOK
      <4>4. CASE Unlock(t) \/ End(t)
        BY <1>0, <4>4 DEF Unlock, End, Locks!ReleaseAll, Locks!End, TypeOK
      <4>5. \/ Begin(t) \/ LockRowRefused(t) \/ LockDestRefused(t) \/ Commit(t) \/ Abort(t)
            \/ LockRowUpgrade(t) \/ LockDestUpgrade(t) \/ Unlock(t) \/ End(t) \/ UNCHANGED lockVars
        BY <2>4 DEF TxNext, CallStep, ScanNext, Call, InsertTuple, GetRow, ScanRow, ReadOld, DeleteRow,
           UpdateInPlace, UpdateOut, UpdateNothing, UpdateMove, UndoDelete, UndoRestore
      <4> QED  BY <4>1, <4>2, <4>3, <4>4, <4>5
    <3> QED  BY <3>1
  <2> QED  BY <2>2, <2>3, <2>4
<1> QED  BY <1>2, <1>3

(* So a call finds the rows it is about as it has left them.               *)
LEMMA CallsKept ==
    ASSUME TxInv, NEW t \in Txns, TxNext(t), UNCHANGED room, RollbackOK, CallsUndisturbed, ~clash'
    PROVE  CallsUndisturbed'
<1>0. TypeOK /\ CallsOK
  BY DEF TxInv
<1>1. \A u \in Txns \ {t} :
         /\ pc'[u] = pc[u] /\ rid'[u] = rid[u] /\ dest'[u] = dest[u] /\ old'[u] = old[u]
         /\ shared'[u] = shared[u] /\ exclusive'[u] = exclusive[u]
  BY TypeStep, LockSteps, LockEffects
<1>2. ASSUME NEW u \in Txns \ {t}, pc[u] = "lockdest"
      PROVE  Locks!Alone(u, dest[u])' /\ heap'[dest'[u]] # Empty
  <2>1. Locks!Alone(u, dest[u]) /\ heap[dest[u]] # Empty /\ dest[u] \in Rows(u) /\ dest[u] \in Rids
    BY <1>0, <1>2 DEF CallsUndisturbed, Rows, CallsOK
  <2>2. heap'[dest[u]] = heap[dest[u]]
    BY <2>1, OthersSpared
  <2>3. dest[u] \notin shared'[t] \cup exclusive'[t]
    BY <1>2, <2>1, OthersSpared DEF Locks!Alone
  <2>4. \A w \in Txns \ {u} : dest[u] \notin shared'[w] \cup exclusive'[w]
    BY <1>1, <2>1, <2>3 DEF Locks!Alone
  <2> QED  BY <1>1, <2>1, <2>2, <2>4 DEF Locks!Alone
<1>3. ASSUME NEW u \in Txns \ {t}, pc[u] = "change" PROVE heap'[rid'[u]] = old'[u]
  <2>1. heap[rid[u]] = old[u] /\ rid[u] \in Rows(u) /\ rid[u] \in Rids
    BY <1>0, <1>3 DEF CallsUndisturbed, Rows, CallsOK
  <2>2. heap'[rid[u]] = heap[rid[u]]
    BY <2>1, OthersSpared
  <2> QED  BY <1>1, <2>1, <2>2
<1>4. ASSUME NEW r \in FreeSlots, heap' = [heap EXCEPT ![r] = t], dest' = [dest EXCEPT ![t] = r],
             Taking(t, r), UNCHANGED lockVars
      PROVE  Locks!Alone(t, dest[t])' /\ heap'[dest'[t]] # Empty
  <2>1. r \in Rids /\ dest'[t] = r
    BY <1>0, <1>4 DEF FreeSlots, TypeOK
  <2>2. Locks!Alone(t, r)
    BY <1>4, <2>1, TakingLeavesRoom DEF RollbackOK
  <2>3. heap'[r] = t /\ t # Empty
    BY <1>0, <1>4, <2>1, TableAssumption DEF TypeOK
  <2> QED  BY <1>4, <2>1, <2>2, <2>3 DEF Locks!Alone, lockVars
<1>5. ASSUME pc'[t] = "lockdest" PROVE Locks!Alone(t, dest[t])' /\ heap'[dest'[t]] # Empty
  <2>1. CASE InsertTuple(t) \/ UpdateMove(t)
    BY <1>4, <2>1 DEF InsertTuple, UpdateMove
  <2>2. CASE Begin(t) \/ LockDestUpgrade(t) \/ LockRowUpgrade(t)
    <3>1. UNCHANGED <<pc, heap, dest>>
      BY <2>2 DEF Begin, LockDestUpgrade, LockRowUpgrade, callVars
    <3> QED  BY <1>1, <1>5, <3>1 DEF CallsUndisturbed, Locks!Alone
  <2>3. CASE UndoDelete(t) \/ UndoRestore(t)
    BY <1>5, <2>3 DEF UndoDelete, UndoRestore, Restoring
  <2>4. CASE ~(InsertTuple(t) \/ UpdateMove(t) \/ Begin(t) \/ LockDestUpgrade(t) \/ LockRowUpgrade(t)
              \/ UndoDelete(t) \/ UndoRestore(t))
    BY <1>0, <1>5, <2>4 DEF TxNext, CallStep, ScanNext, Call, LockRow, LockRowRefused, GetRow, ScanRow,
       ReadOld, DeleteRow, UpdateInPlace, UpdateOut, UpdateNothing, LockDest, LockDestRefused, Commit,
       Abort, Unlock, End, Goto, TypeOK
  <2> QED  BY <2>1, <2>2, <2>3, <2>4
<1>6. ASSUME pc'[t] = "change" PROVE heap'[rid'[t]] = old'[t]
  <2>1. CASE ReadOld(t)
    BY <1>0, <2>1 DEF ReadOld, TypeOK
  <2>2. CASE Begin(t) \/ LockDestUpgrade(t) \/ LockRowUpgrade(t)
    <3>1. UNCHANGED <<pc, heap, rid, old>>
      BY <2>2 DEF Begin, LockDestUpgrade, LockRowUpgrade, callVars
    <3> QED  BY <1>6, <3>1 DEF CallsUndisturbed
  <2>3. CASE UndoDelete(t) \/ UndoRestore(t)
    BY <1>6, <2>3 DEF UndoDelete, UndoRestore, Restoring
  <2>4. CASE UpdateMove(t)
    BY <1>0, <1>6, <2>4 DEF UpdateMove, Goto, TypeOK
  <2>5. CASE ~(ReadOld(t) \/ UpdateMove(t) \/ Begin(t) \/ LockDestUpgrade(t) \/ LockRowUpgrade(t)
              \/ UndoDelete(t) \/ UndoRestore(t))
    BY <1>0, <1>6, <2>5 DEF TxNext, CallStep, ScanNext, Call, LockRow, LockRowRefused, GetRow, ScanRow,
       InsertTuple, DeleteRow, UpdateInPlace, UpdateOut, UpdateNothing, LockDest, LockDestRefused, Commit,
       Abort, Unlock, End, Goto, TypeOK
  <2> QED  BY <2>1, <2>2, <2>3, <2>4, <2>5
<1> QED  BY <1>1, <1>2, <1>3, <1>5, <1>6 DEF CallsUndisturbed

(* Every step of the transactions keeps what the rollbacks rely on.        *)
LEMMA RollbackStep ==
    ASSUME Inv, NEW t \in Txns, TxNext(t), UNCHANGED room
    PROVE  RollbackInv'
<1>0. TxInv /\ TxInv'
  BY NextTx DEF Inv, Next
<1> SUFFICES ASSUME ~clash' PROVE RollbackOK' /\ CallsUndisturbed'
  BY DEF RollbackInv
<1>1. ~clash
  BY DEF TxNext, CallStep, ScanNext, Begin, InsertTuple, Call, LockRow, LockRowUpgrade, LockRowRefused, GetRow,
     ScanRow, ReadOld, DeleteRow, UpdateInPlace, UpdateOut, UpdateNothing, UpdateMove, LockDest, LockDestUpgrade,
     LockDestRefused, Commit, Abort, UndoDelete, UndoRestore, Unlock, End, Taking, Locking
<1>2. RollbackOK /\ CallsUndisturbed
  BY <1>1 DEF Inv, RollbackInv
<1>3. CallsUndisturbed'
  BY <1>0, <1>2, CallsKept
<1>4. RollbackOK'
  <2>1. CASE Quiet(t)
    BY <1>0, <1>2, <2>1, QuietStep
  <2>2. CASE LockRow(t)
    BY <1>0, <1>2, <2>2, LockRowKeeps
  <2>3. CASE InsertTuple(t)
    BY <1>0, <1>2, <2>3, InsertKeeps
  <2>4. CASE DeleteRow(t) \/ UpdateOut(t)
    BY <1>0, <1>2, <2>4, DeleteKeeps
  <2>5. CASE UpdateMove(t)
    BY <1>0, <1>2, <2>5, MoveKeeps
  <2>6. CASE UpdateInPlace(t)
    BY <1>0, <1>2, <2>6, InPlaceKeeps
  <2>7. CASE LockDestRefused(t)
    BY <1>0, <1>2, <2>7, RefusedKeeps
  <2>8. CASE UndoDelete(t) \/ UndoRestore(t)
    BY <1>0, <1>2, <2>8, UndoKeeps
  <2>9. CASE Commit(t)
    BY <1>0, <1>2, <2>9, CommitKeeps
  <2>10. CASE Unlock(t)
    BY <1>0, <1>2, <2>10, UnlockKeeps
  <2>11. \/ Quiet(t) \/ LockRow(t) \/ InsertTuple(t) \/ DeleteRow(t) \/ UpdateOut(t) \/ UpdateMove(t)
         \/ UpdateInPlace(t) \/ LockDestRefused(t) \/ UndoDelete(t) \/ UndoRestore(t) \/ Commit(t) \/ Unlock(t)
    BY <1>0, QuietCalls, QuietSteps DEF TxNext, CallStep
  <2> QED  BY <2>1, <2>2, <2>3, <2>4, <2>5, <2>6, <2>7, <2>8, <2>9, <2>10, <2>11
<1> QED  BY <1>3, <1>4

(* With no transaction yet, there is nothing to roll back, and the tuples  *)
(* of every page fit.                                                      *)
LEMMA InitRollback == Init => RollbackInv
<1> SUFFICES ASSUME Init PROVE RollbackOK /\ CallsUndisturbed
  BY DEF RollbackInv
<1>1. TxInv
  BY InitTx
<1>2. ASSUME NEW t \in Txns PROVE UndoLogs[t] = <<>> /\ Writes[t] = {}
  <2>1. pc[t] = "idle" /\ log[t] = <<>> /\ exclusive[t] = {}
    BY DEF Init, Locks!Init
  <2>2. UndoLog(t) = <<>> /\ Rows(t) = {}
    BY <1>1, <2>1, SettledLog DEF Settled
  <2> QED  BY <2>2 DEF UndoLogs, Writes
<1>3. Len(<<>>) = 0 /\ (\A k \in Nat : \A r : ~Touched(<<>>, k, r))
  BY DEF Touched
<1>4. Reversible(heap, UndoLogs, Writes, base)
  BY <1>2, <1>3 DEF Init, Reversible, Undoes
<1>5. Fits(heap, UndoLogs)
  <2> SUFFICES ASSUME NEW k \in Positions(UndoLogs), NEW r \in Rids
               PROVE  Cardinality(Tenants(heap, UndoLogs, k, r)) <= room
    BY DEF Fits
  <2>1. \A s \in Rids : Present(heap, UndoLogs, k, s) <=> heap[s] # Empty
    BY <1>2, <1>3 DEF Present, Positions
  <2>2. Tenants(heap, UndoLogs, k, r) = {s \in Rids : PageOf(s) = PageOf(r) /\ heap[s] # Empty}
    BY <2>1 DEF Tenants
  <2> QED  BY <2>2 DEF Init, Occupancy
<1>6. CallsUndisturbed
  BY DEF Init, CallsUndisturbed
<1> QED  BY <1>4, <1>5, <1>6 DEF RollbackOK

(* Inv is inductive.                                                       *)
LEMMA RollbackInvariant == Spec => []Inv
<1>1. Init => Inv
  BY InitTx, InitRollback DEF Inv
<1>2. Inv /\ [Next]_vars => Inv'
  <2> SUFFICES ASSUME Inv, [Next]_vars PROVE Inv'
    OBVIOUS
  <2>1. TxInv'
    BY NextTx DEF Inv
  <2>2. CASE Next
    BY <2>1, <2>2, RollbackStep DEF Next, Inv
  <2>3. CASE UNCHANGED vars
    <3>1. UNCHANGED <<UndoLogs, Writes>>
      BY <2>3 DEF vars, lockVars, callVars, UndoLogs, UndoLog, Pending, DestRecords, UpdateRecords, RestoreUndo,
         DeleteUndo, Writes, Rows
    <3>2. UNCHANGED <<room, heap, base, clash, pc, dest, rid, old, shared, exclusive>>
      BY <2>3 DEF vars, lockVars, callVars
    <3>3. RollbackOK => RollbackOK'
      BY <3>1, <3>2, RollbackNext DEF RollbackOK
    <3>4. CallsUndisturbed => CallsUndisturbed'
      BY <3>2 DEF CallsUndisturbed, Locks!Alone
    <3> QED  BY <2>1, <3>2, <3>3, <3>4 DEF Inv, RollbackInv
  <2> QED  BY <2>2, <2>3
<1> QED  BY <1>1, <1>2, PTL DEF Spec

(* README.md:31, table.cpp, transaction_manager.cpp: unless a slot has     *)
(* been reused under another transaction's lock, every row that nobody is  *)
(* writing holds what the committed transactions have left there, however  *)
(* many have been rolled back in between and in whatever order.            *)
THEOREM CommittedRowsKept == Spec => []CommittedRows
<1>1. Inv => CommittedRows
  <2> SUFFICES ASSUME Inv, ~clash, NEW r \in Rids,
                      \A t \in Txns : r \notin exclusive[t] /\ ~(pc[t] = "lockdest" /\ dest[t] = r)
               PROVE  heap[r] = base[r]
    BY DEF CommittedRows
  <2>1. Reversible(heap, UndoLogs, Writes, base)
    BY DEF Inv, RollbackInv, RollbackOK
  <2>2. \A t \in Txns : r \notin Writes[t]
    BY DEF Writes, Rows
  <2> QED  BY <2>1, <2>2 DEF Reversible
<1> QED  BY <1>1, RollbackInvariant, PTL

(* slotted_page.cpp:125, 129: likewise, when a rollback comes to a row it  *)
(* has to restore, the slot is free and its page has room for the tuple.   *)
THEOREM RestoresFit == Spec => []RestoreFits
<1>1. Inv => RestoreFits
  <2> SUFFICES ASSUME Inv, ~clash, NEW t \in Txns, Restoring(t) PROVE RestoreAsserts(t)
    BY DEF RestoreFits
  <2>0. /\ TxInv /\ TypeOK /\ CallsOK /\ log[t] \in Seq(UndoRecord) /\ room \in Nat
        /\ Reversible(heap, UndoLogs, Writes, base) /\ Fits(heap, UndoLogs)
    BY RidFacts DEF Inv, TxInv, TypeOK, RollbackInv, RollbackOK
  <2>1. pc[t] = "undo" /\ todo[t] \in Nat /\ todo[t] > 0 /\ todo[t] <= Len(log[t]) /\ Record(t).undo = "restore"
    BY <2>0 DEF Restoring, CallsOK, TypeOK
  <2>2. PICK n \in Nat \ {0} : n = todo[t]
    BY <2>1
  <2>3. PICK L \in Seq(UndoRecord) : L = log[t]
    BY <2>0
  <2>4. PICK R \in UndoRecord : R = L[n] /\ R = Record(t)
    BY <2>1, <2>2, <2>3, ElementOfSeq, LenProperties DEF Record
  <2>5. /\ UndoLogs \in [Txns -> Seq(UndoRecord)] /\ Writes \in [Txns -> SUBSET Rids]
        /\ UndoLogs[t] = SubSeq(L, 1, n)
    BY <2>0, <2>1, <2>2, <2>3, LogTypes DEF UndoLogs, UndoLog, Ended
  <2>6. PICK K \in Seq(UndoRecord) : UndoLogs[t] = Append(K, R)
    <3>1. 1 \in 1 .. Len(L) /\ n \in 1 .. Len(L)
      BY <2>1, <2>2, <2>3, LenProperties
    <3>2. SubSeq(L, 1, n) = SubSeq(L, 1, n - 1) \o <<R>>
      BY <2>4, <3>1, SubSeqRecursiveSecond
    <3>3. SubSeq(L, 1, n - 1) \in Seq(UndoRecord)
      <4>1. \A i \in 1 .. n - 1 : L[i] \in UndoRecord
        BY <3>1, ElementOfSeq
      <4> QED  BY <4>1, SubSeqProperties
    <3>4. SubSeq(L, 1, n) = Append(SubSeq(L, 1, n - 1), R)
      BY <3>2, <3>3, AppendIsConcat
    <3> QED  BY <2>5, <3>3, <3>4
  <2>7. PICK m \in Nat : m = Len(UndoLogs[t])
    BY <2>5, LenProperties
  <2>8. m \in 1 .. m /\ UndoLogs[t][m] = R
    BY <2>6, <2>7, AppendProperties, LenProperties
  <2>9. R.rid \in Writes[t] /\ R.tuple # Empty /\ Value(heap, UndoLogs[t], m, R.rid, Empty)
    BY <2>0, <2>1, <2>4, <2>7, <2>8 DEF Reversible, Undoes
  <2>10. heap[R.rid] = Empty
    <3>1. ~Touched(UndoLogs[t], m, R.rid)
      BY <2>7 DEF Touched
    <3> QED  BY <2>9, <3>1 DEF Value
  <2>11. RoomFor(heap, UndoLogs, t, R.rid)
    <3>1. PICK E : E = [UndoLogs EXCEPT ![t] = K]
      OBVIOUS
    <3>2. E \in [Txns -> Seq(UndoRecord)] /\ Logged(E, UndoLogs, t, R)
      BY <2>5, <2>6, <3>1 DEF Logged
    <3>3. Unshared(UndoLogs, t, R.rid)
      BY <2>0, <2>9, OtherLogs
    <3>4. Unshared(E, t, R.rid)
      BY <3>2, <3>3 DEF Unshared, Logged
    <3> QED  BY ONLY t \in Txns, R \in UndoRecord, <2>0, <2>5, <2>9, <3>2, <3>4, RoomBack
  <2>12. HasRoom(R.rid)
    <3>1. PICK k : k = [u \in Txns |-> Len(UndoLogs[u])]
      OBVIOUS
    <3>2. k \in Positions(UndoLogs) /\ k[t] = Len(UndoLogs[t])
      BY <2>5, <3>1, LenProperties DEF Positions
    <3>3. Cardinality(Tenants(heap, UndoLogs, k, R.rid) \cup {R.rid}) <= room
      BY <2>11, <3>2 DEF RoomFor
    <3>4. \A u \in Txns, s \in Rids : ~Touched(UndoLogs[u], k[u], s)
      BY <2>5, <3>1, LenProperties DEF Touched
    <3>5. PICK T : T = {s \in Rids : PageOf(s) = PageOf(R.rid) /\ heap[s] # Empty}
      OBVIOUS
    <3>6. Tenants(heap, UndoLogs, k, R.rid) = T
      BY <3>4, <3>5 DEF Tenants, Present
    <3>7. R.rid \notin T /\ IsFiniteSet(T) /\ Cardinality(T) \in Nat
      <4>1. R.rid \notin T
        BY <2>10, <3>5
      <4>2. IsFiniteSet(Tenants(heap, UndoLogs, k, R.rid)) /\ Cardinality(Tenants(heap, UndoLogs, k, R.rid)) \in Nat
        BY TenantsFinite
      <4> QED  BY <3>6, <4>1, <4>2
    <3>8. Cardinality(T \cup {R.rid}) = Cardinality(T) + 1
      BY <3>7, FS_AddElement
    <3>9. Occupancy(R.rid) = Cardinality(T)
      BY <3>5 DEF Occupancy
    <3>10. Cardinality(T) + 1 <= room
      BY <3>3, <3>6, <3>8
    <3> QED  BY <2>0, <3>7, <3>9, <3>10 DEF HasRoom
  <2> QED  BY <2>4, <2>10, <2>12 DEF RestoreAsserts
<1> QED  BY <1>1, RollbackInvariant, PTL

(* A step that changes a row: whose row it is, or that it says so.         *)
LEMMA RowChanges ==
    ASSUME Inv, ~clash, NEW u \in Txns, TxNext(u), ~clash', NEW r \in Rids, heap'[r] # heap[r]
    PROVE  /\ pc'[u] # pc[u] \/ todo'[u] # todo[u]
           /\ r \in exclusive[u] \/ Locks!Alone(u, r)
<1>1. TypeOK /\ CallsOK /\ UndoLocked /\ CallsUndisturbed
  BY DEF Inv, TxInv, RollbackInv
<1>2. heap \in [Rids -> Tuples] /\ pc \in [Txns -> Pcs] /\ todo \in [Txns -> Nat]
  BY <1>1 DEF TypeOK
<1>3. ASSUME NEW s, NEW v, heap' = [heap EXCEPT ![s] = v] PROVE r = s
  BY <1>2, <1>3
<1>4. ASSUME NEW w, Goto(u, w) PROVE pc'[u] = w
  BY <1>2, <1>4 DEF Goto
<1>5. CASE InsertTuple(u)
  <2>1. PICK s \in FreeSlots : heap' = [heap EXCEPT ![s] = u] /\ Taking(u, s)
    BY <1>5 DEF InsertTuple
  <2>2. r = s /\ Locks!Alone(u, s)
    BY <1>3, <2>1 DEF Taking
  <2>3. pc[u] = "idle" /\ pc'[u] = "lockdest"
    BY <1>4, <1>5 DEF InsertTuple, MayCall
  <2> QED  BY <2>2, <2>3
<1>6. CASE DeleteRow(u)
  <2>1. pc[u] = "change" /\ pc'[u] = "idle" /\ r = rid[u] /\ kind[u] = "delete"
    BY <1>3, <1>4, <1>6 DEF DeleteRow
  <2> QED  BY <1>1, <2>1 DEF CallsOK
<1>7. CASE UpdateInPlace(u)
  <2>1. pc[u] = "change" /\ pc'[u] = "idle" /\ r = rid[u] /\ kind[u] = "update"
    BY <1>3, <1>4, <1>7 DEF UpdateInPlace
  <2> QED  BY <1>1, <2>1 DEF CallsOK
<1>8. CASE UpdateOut(u)
  <2>1. pc[u] = "change" /\ pc'[u] = "move" /\ r = rid[u] /\ kind[u] = "update"
    BY <1>3, <1>4, <1>8 DEF UpdateOut
  <2> QED  BY <1>1, <2>1 DEF CallsOK
<1>9. CASE UpdateMove(u)
  <2>1. PICK s \in FreeSlots :
          /\ heap' = [heap EXCEPT ![s] = u] /\ Taking(u, s)
          /\ Goto(u, "idle") \/ Goto(u, "lockdest")
    BY <1>9 DEF UpdateMove
  <2>2. r = s /\ Locks!Alone(u, s)
    BY <1>3, <2>1 DEF Taking
  <2>3. pc[u] = "move" /\ pc'[u] # "move"
    BY <1>4, <1>9, <2>1 DEF UpdateMove
  <2> QED  BY <2>2, <2>3
<1>10. CASE LockDestRefused(u)
  <2>1. pc[u] = "lockdest" /\ pc'[u] = "idle" /\ heap' = AfterRefusal(u)
    BY <1>4, <1>10 DEF LockDestRefused
  <2>2. r = dest[u]
    BY <1>3, <2>1 DEF AfterRefusal
  <2> QED  BY <1>1, <2>1, <2>2 DEF CallsUndisturbed
<1>11. CASE UndoDelete(u) \/ UndoRestore(u)
  <2>1. pc[u] = "undo" /\ todo[u] > 0 /\ todo'[u] = todo[u] - 1 /\ r = Record(u).rid
    BY <1>2, <1>3, <1>11 DEF UndoDelete, UndoRestore, Restoring
  <2>2. todo[u] \in DOMAIN log[u]
    <3>1. todo[u] \in Nat /\ todo[u] <= Len(log[u]) /\ log[u] \in Seq(UndoRecord)
      BY <1>1, <2>1 DEF TypeOK, CallsOK
    <3> QED  BY <2>1, <3>1
  <2>3. r \in exclusive[u]
    BY <1>1, <2>1, <2>2 DEF UndoLocked, Record
  <2>4. todo'[u] # todo[u]
    BY <1>2, <2>1
  <2> QED  BY <2>3, <2>4
<1>12. ASSUME heap' = heap PROVE FALSE
  BY <1>12
<1> QED  BY <1>5, <1>6, <1>7, <1>8, <1>9, <1>10, <1>11, <1>12
        DEF TxNext, CallStep, Begin, ScanNext, Call, LockRow, LockRowUpgrade, LockRowRefused, GetRow, ScanRow,
            ReadOld, UpdateNothing, LockDest, LockDestUpgrade, Commit, Abort, Unlock, End

(* README.md:14, lock_manager.cpp, table.cpp: while a transaction has a    *)
(* lock on a row, to read or to write it, nobody else changes the row,     *)
(* whatever calls, commits and rollbacks the others are in, unless a slot  *)
(* has been reused under another transaction's lock.                       *)
THEOREM LockedRowsKept == Spec => LockedRowsStay
<1>1. ASSUME Inv, [Next]_vars, NEW t \in Txns, NEW r \in Rids,
             r \in shared[t] \cup exclusive[t], heap'[r] # heap[r], ~clash'
      PROVE  pc'[t] # pc[t] \/ todo'[t] # todo[t]
  <2>1. Next
    BY <1>1 DEF vars
  <2>2. PICK u \in Txns : TxNext(u)
    BY <2>1 DEF Next
  <2>3. ~clash
    <3>1. clash => clash'
      BY <2>2 DEF TxNext, CallStep, Begin, InsertTuple, ScanNext, Call, LockRow, LockRowUpgrade, LockRowRefused, GetRow,
         ScanRow, ReadOld, DeleteRow, UpdateInPlace, UpdateOut, UpdateNothing, UpdateMove, LockDest, LockDestUpgrade,
         LockDestRefused, Commit, Abort, UndoDelete, UndoRestore, Unlock, End, Taking, Locking
    <3> QED  BY <1>1, <3>1
  <2>4. /\ pc'[u] # pc[u] \/ todo'[u] # todo[u]
        /\ r \in exclusive[u] \/ Locks!Alone(u, r)
    BY <1>1, <2>2, <2>3, RowChanges
  <2>5. u = t
    <3>1. Compatible
      BY <1>1 DEF Inv, TxInv
    <3> QED  BY <1>1, <2>4, <3>1 DEF Compatible, Locks!Alone
  <2> QED  BY <2>4, <2>5
<1>2. Inv /\ [Next]_vars =>
        [\A t \in Txns, r \in Rids :
            r \in shared[t] \cup exclusive[t] /\ heap'[r] # heap[r] =>
                clash' \/ pc'[t] # pc[t] \/ todo'[t] # todo[t]]_vars
  BY <1>1
<1> QED  BY <1>2, RollbackInvariant, PTL DEF Spec, LockedRowsStay

=============================================================================
