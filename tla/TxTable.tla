------------------------------ MODULE TxTable ------------------------------
(***************************************************************************)
(* Table on a heap, under transactions: insert_tuple, get_tuple,           *)
(* delete_tuple, update_tuple and Scan::next with their row locks and undo *)
(* records, and TransactionManager::commit and abort with the undo log.    *)
(*                                                                         *)
(* The locks are those of RowLocks, which LockManager implements.  A call  *)
(* is split where the code gives the row's page latch back: between the    *)
(* lock, the reading of the old tuple, the change, the insertion of an     *)
(* updated tuple elsewhere and the lock on its new row.                    *)
(*                                                                         *)
(* Rows are numbered in the order of a scan.  All tuples need the same     *)
(* room; whether an updated tuple still fits in its place is a free        *)
(* choice.  The tuple a transaction writes is named after it.  An insert   *)
(* for which no page has room would make a new page; here it waits.        *)
(***************************************************************************)
EXTENDS Integers, Sequences, FiniteSets

CONSTANTS
    Txns,          \* transactions
    PageCount,     \* pages of the heap
    SlotsPerPage,  \* slots of a page
    Rooms,         \* the numbers of tuples that may fit on a page
    Empty,         \* a free slot
    Old,           \* a tuple that is there from the beginning
    MaxOps         \* bound on the calls of a transaction

ASSUME TableAssumption ==
    /\ PageCount \in Nat \ {0} /\ SlotsPerPage \in Nat \ {0}
    /\ Rooms \subseteq 1 .. SlotsPerPage
    /\ Empty # Old /\ {Empty, Old} \cap Txns = {}
    /\ MaxOps \in Nat

Rids == 1 .. PageCount * SlotsPerPage

NoRid == 0

VARIABLES
    room,    \* tuples that fit on a page, depending on their size
    state, shared, exclusive,  \* as in RowLocks
    heap,    \* the tuple in every slot
    log,     \* undo_log_: [undo, rid, tuple]
    pc,      \* where the call of a transaction is
    kind,    \* which call it is
    rid,     \* its argument
    dest,    \* the slot its new tuple went to
    old,     \* the tuple it is about to replace or delete
    pos,     \* TableHeap::Scan::current_rid_
    ops,     \* calls made
    todo,    \* undo records abort has still to run
    clash,   \* history: a transaction has taken or locked a slot that another
             \* one was using, or the room it may need
    base     \* history: the table as the committed transactions left it

lockVars == <<state, shared, exclusive>>
callVars == <<kind, rid, dest, old, ops>>
vars == <<room, lockVars, heap, log, pc, callVars, pos, todo, clash, base>>

Locks == INSTANCE RowLocks

DeleteUndo(r) == [undo |-> "delete", rid |-> r, tuple |-> Empty]
RestoreUndo(r, v) == [undo |-> "restore", rid |-> r, tuple |-> v]

PageOf(r) == (r - 1) \div SlotsPerPage

Occupancy(r) == Cardinality({s \in Rids : PageOf(s) = PageOf(r) /\ heap[s] # Empty})

HasRoom(r) == Occupancy(r) < room

(* The slots TableHeap::insert_tuple can put a tuple in: the first free    *)
(* one of a page with room, whoever has locks on it.                       *)
FreeSlots ==
    {r \in Rids :
        /\ heap[r] = Empty /\ HasRoom(r)
        /\ \A s \in Rids : s < r /\ PageOf(s) = PageOf(r) => heap[s] # Empty}

(* The slots of the page that other transactions have emptied and may have *)
(* to fill again.                                                          *)
Owed(t, r) ==
    {s \in Rids \ {r} : /\ PageOf(s) = PageOf(r) /\ heap[s] = Empty
                        /\ \E u \in Txns \ {t} : s \in exclusive[u]}

(* The hole README.md:31 describes: a new tuple takes a slot that another  *)
(* transaction has locked, or the room that another transaction's rollback *)
(* needs on the page; or another transaction locks the slot before the one *)
(* that has put a tuple there has its lock.                                *)
Taking(t, r) ==
    clash' = (clash \/ ~Locks!Alone(t, r)
                    \/ Occupancy(r) + Cardinality(Owed(t, r)) >= room)

Locking(t, r) ==
    clash' = (clash \/ \E u \in Txns \ {t} : pc[u] = "lockdest" /\ dest[u] = r)

Goto(t, where) == pc' = [pc EXCEPT ![t] = where]

-----------------------------------------------------------------------------
Init ==
    /\ Locks!Init
    /\ room \in Rooms
    /\ heap \in [Rids -> {Empty, Old}]
    /\ \A r \in Rids : Occupancy(r) <= room
    /\ log = [t \in Txns |-> <<>>]
    /\ pc = [t \in Txns |-> "idle"]
    /\ kind = [t \in Txns |-> "none"]
    /\ rid = [t \in Txns |-> NoRid] /\ dest = [t \in Txns |-> NoRid]
    /\ old = [t \in Txns |-> Empty]
    /\ pos = [t \in Txns |-> 1]
    /\ ops = [t \in Txns |-> 0] /\ todo = [t \in Txns |-> 0]
    /\ clash = FALSE
    /\ base = heap

Begin(t) ==
    /\ Locks!Begin(t)
    /\ UNCHANGED <<heap, log, pc, callVars, pos, todo, clash, base>>

MayCall(t) == pc[t] = "idle" /\ state[t] \in {"GROWING", "ABORTED"} /\ ops[t] < MaxOps

(* get_tuple, delete_tuple and update_tuple begin with a lock on the row.  *)
Call(t, k, r) ==
    /\ MayCall(t)
    /\ kind' = [kind EXCEPT ![t] = k]
    /\ rid' = [rid EXCEPT ![t] = r]
    /\ ops' = [ops EXCEPT ![t] = @ + 1]
    /\ Goto(t, "lock")
    /\ UNCHANGED <<lockVars, heap, log, dest, old, pos, todo, clash, base>>

(* Scan::next locks the row at the position of the heap scan, whether or   *)
(* not there is a tuple (there are no rows behind the last of Rids).       *)
ScanNext(t) == pos[t] \in Rids /\ Call(t, "scan", pos[t])

(* insert_tuple puts the tuple into the heap before it has any lock.       *)
InsertTuple(t) ==
    /\ MayCall(t)
    /\ \E r \in FreeSlots :
         /\ heap' = [heap EXCEPT ![r] = t]
         /\ dest' = [dest EXCEPT ![t] = r]
         /\ Taking(t, r)
    /\ kind' = [kind EXCEPT ![t] = "insert"]
    /\ ops' = [ops EXCEPT ![t] = @ + 1]
    /\ Goto(t, "lockdest")
    /\ UNCHANGED <<lockVars, log, rid, old, pos, todo, base>>

(* The row and the mode of the lock call the transaction is in.            *)
Target(t) == IF pc[t] = "lock" THEN rid[t] ELSE dest[t]

(* Mutant: delete_tuple locks the row as get_tuple does.                   *)
ExclusivelyForUpdate(t) == pc[t] = "lockdest" \/ kind[t] = "update"

Exclusively(t) == pc[t] = "lockdest" \/ kind[t] \in {"delete", "update"}

(* Mutant: the row a tuple has been put in is not locked.                  *)
GrantedToArgument(t) ==
    /\ state[t] = "GROWING"
    /\ IF pc[t] = "lockdest" \/ Target(t) \in shared[t] \cup exclusive[t]
       THEN UNCHANGED lockVars
       ELSE Locks!GrantExclusive(t, Target(t))

(* The lock is granted, or was held already.                               *)
Granted(t) ==
    /\ state[t] = "GROWING"
    /\ IF Exclusively(t)
       THEN IF Target(t) \in exclusive[t] THEN UNCHANGED lockVars
            ELSE Locks!GrantExclusive(t, Target(t))
       ELSE IF Target(t) \in shared[t] \cup exclusive[t] THEN UNCHANGED lockVars
            ELSE Locks!GrantShared(t, Target(t))

(* The lock is refused: the transaction is ABORTED already, or the wait    *)
(* for another transaction's lock times out.                               *)
Refused(t) ==
    \/ state[t] = "ABORTED" /\ UNCHANGED lockVars
    \/ /\ IF Exclusively(t) THEN ~Locks!Alone(t, Target(t))
                            ELSE ~Locks!Unwritten(t, Target(t))
       /\ Target(t) \notin exclusive[t]
       /\ Locks!Refuse(t)

LockRow(t) ==
    /\ pc[t] = "lock" /\ Granted(t)
    /\ Locking(t, rid[t])
    /\ Goto(t, "read")
    /\ UNCHANGED <<heap, log, callVars, pos, todo, base>>

(* An upgrade that has to wait.                                            *)
LockRowUpgrade(t) ==
    /\ pc[t] = "lock" /\ Exclusively(t)
    /\ Locks!DropForUpgrade(t, rid[t])
    /\ UNCHANGED <<heap, log, pc, callVars, pos, todo, clash, base>>

LockRowRefused(t) ==
    /\ pc[t] = "lock" /\ Refused(t)
    /\ Goto(t, "idle")
    /\ UNCHANGED <<heap, log, callVars, pos, todo, clash, base>>

(* get_tuple reads the row.                                                *)
GetRow(t) ==
    /\ pc[t] = "read" /\ kind[t] = "get"
    /\ Goto(t, "idle")
    /\ UNCHANGED <<lockVars, heap, log, callVars, pos, todo, clash, base>>

(* TableHeap::Scan::next returns the first tuple at or behind its position *)
(* or, there being none, goes to the end of the last page.                 *)
ScanRow(t) ==
    /\ pc[t] = "read" /\ kind[t] = "scan"
    /\ LET ahead == {r \in Rids : r >= pos[t] /\ heap[r] # Empty}
           last  == PageCount * SlotsPerPage
       IN  \E r \in ahead \cup {last} :
             /\ \A s \in ahead : r <= s
             /\ pos' = [pos EXCEPT ![t] = r + 1]
    /\ Goto(t, "idle")
    /\ UNCHANGED <<lockVars, heap, log, callVars, todo, clash, base>>

(* delete_tuple and update_tuple fetch the old tuple; none, and they       *)
(* return.                                                                 *)
ReadOld(t) ==
    /\ pc[t] = "read" /\ kind[t] \in {"delete", "update"}
    /\ old' = [old EXCEPT ![t] = heap[rid[t]]]
    /\ Goto(t, IF heap[rid[t]] = Empty THEN "idle" ELSE "change")
    /\ UNCHANGED <<lockVars, heap, log, kind, rid, dest, ops, pos, todo, clash, base>>

DeleteRow(t) ==
    /\ pc[t] = "change" /\ kind[t] = "delete"
    /\ heap' = [heap EXCEPT ![rid[t]] = Empty]
    /\ log' = IF heap[rid[t]] = Empty THEN log
              ELSE [log EXCEPT ![t] = Append(@, RestoreUndo(rid[t], old[t]))]
    /\ Goto(t, "idle")
    /\ UNCHANGED <<lockVars, callVars, pos, todo, clash, base>>

(* The two records of an update, run in the opposite order.                *)
UpdateRecords(t, r) == <<RestoreUndo(rid[t], old[t]), DeleteUndo(r)>>

UpdateInPlace(t) ==
    /\ pc[t] = "change" /\ kind[t] = "update"
    /\ heap[rid[t]] # Empty
    /\ heap' = [heap EXCEPT ![rid[t]] = t]
    /\ log' = [log EXCEPT ![t] = @ \o UpdateRecords(t, rid[t])]
    /\ Goto(t, "idle")
    /\ UNCHANGED <<lockVars, callVars, pos, todo, clash, base>>

(* The new tuple does not fit on its page: it is deleted there ...         *)
UpdateOut(t) ==
    /\ pc[t] = "change" /\ kind[t] = "update"
    /\ heap[rid[t]] # Empty
    /\ heap' = [heap EXCEPT ![rid[t]] = Empty]
    /\ Goto(t, "move")
    /\ UNCHANGED <<lockVars, log, callVars, pos, todo, clash, base>>

(* Somebody has removed the row under the update: nothing to do.           *)
UpdateNothing(t) ==
    /\ pc[t] = "change" /\ kind[t] = "update"
    /\ heap[rid[t]] = Empty
    /\ Goto(t, "idle")
    /\ UNCHANGED <<lockVars, heap, log, callVars, pos, todo, clash, base>>

(* ... and inserted wherever there is room.                                *)
UpdateMove(t) ==
    /\ pc[t] = "move"
    /\ \E r \in FreeSlots :
         /\ heap' = [heap EXCEPT ![r] = t]
         /\ dest' = [dest EXCEPT ![t] = r]
         /\ Taking(t, r)
         /\ IF r = rid[t]
            THEN Goto(t, "idle") /\ log' = [log EXCEPT ![t] = @ \o UpdateRecords(t, r)]
            ELSE Goto(t, "lockdest") /\ UNCHANGED log
    /\ UNCHANGED <<lockVars, kind, rid, old, ops, pos, todo, base>>

(* insert_tuple can undo its tuple, update_tuple the old and the new one.  *)
DestRecords(t) ==
    IF kind[t] = "insert" THEN <<DeleteUndo(dest[t])>> ELSE UpdateRecords(t, dest[t])

(* The row the new tuple is in is locked after the fact.                   *)
LockDest(t) ==
    /\ pc[t] = "lockdest" /\ Granted(t)
    /\ log' = [log EXCEPT ![t] = @ \o DestRecords(t)]
    /\ Goto(t, "idle")
    /\ UNCHANGED <<heap, callVars, pos, todo, clash, base>>

LockDestUpgrade(t) ==
    /\ pc[t] = "lockdest"
    /\ Locks!DropForUpgrade(t, dest[t])
    /\ UNCHANGED <<heap, log, pc, callVars, pos, todo, clash, base>>

(* Mutant: the rollback of a refused insert is forgotten.                  *)
AfterRefusalKept(t) == heap

(* insert_tuple deletes the tuple again; update_tuple just returns.        *)
AfterRefusal(t) ==
    IF kind[t] = "insert" THEN [heap EXCEPT ![dest[t]] = Empty] ELSE heap

LockDestRefused(t) ==
    /\ pc[t] = "lockdest" /\ Refused(t)
    /\ heap' = AfterRefusal(t)
    /\ Goto(t, "idle")
    /\ UNCHANGED <<log, callVars, pos, todo, clash, base>>

-----------------------------------------------------------------------------
Commit(t) ==
    /\ pc[t] = "idle"
    /\ Locks!Shrink(t)
    /\ base' = [r \in Rids |->
                  IF \E i \in DOMAIN log[t] : log[t][i].rid = r THEN heap[r] ELSE base[r]]
    /\ Goto(t, "commit")
    /\ UNCHANGED <<heap, log, callVars, pos, todo, clash>>

Abort(t) ==
    /\ pc[t] = "idle"
    /\ Locks!Shrink(t)
    /\ todo' = [todo EXCEPT ![t] = Len(log[t])]
    /\ Goto(t, "undo")
    /\ UNCHANGED <<heap, log, callVars, pos, clash, base>>

(* Mutant: the log is run from its beginning.                              *)
RecordForward(t) == log[t][Len(log[t]) + 1 - todo[t]]

(* Transaction::undo runs the records from the last to the first.          *)
Record(t) == log[t][todo[t]]

(* DeleteUndoRecord::undo                                                  *)
UndoDelete(t) ==
    /\ pc[t] = "undo" /\ todo[t] > 0
    /\ Record(t).undo = "delete"
    /\ heap' = [heap EXCEPT ![Record(t).rid] = Empty]
    /\ todo' = [todo EXCEPT ![t] = @ - 1]
    /\ UNCHANGED <<lockVars, log, pc, callVars, pos, clash, base>>

Restoring(t) == pc[t] = "undo" /\ todo[t] > 0 /\ Record(t).undo = "restore"

(* The assertions of SlottedPage::restore_tuple.  Where they fail, the     *)
(* rollback goes no further.                                               *)
RestoreAsserts(t) == heap[Record(t).rid] = Empty /\ HasRoom(Record(t).rid)

(* RestoreUndoRecord::undo                                                 *)
UndoRestore(t) ==
    /\ Restoring(t) /\ RestoreAsserts(t)
    /\ heap' = [heap EXCEPT ![Record(t).rid] = Record(t).tuple]
    /\ todo' = [todo EXCEPT ![t] = @ - 1]
    /\ UNCHANGED <<lockVars, log, pc, callVars, pos, clash, base>>

(* unlock_all                                                              *)
Unlock(t) ==
    /\ pc[t] = "commit" \/ (pc[t] = "undo" /\ todo[t] = 0)
    /\ Locks!ReleaseAll(t)
    /\ Goto(t, IF pc[t] = "commit" THEN "committed" ELSE "aborted")
    /\ UNCHANGED <<heap, log, callVars, pos, todo, clash, base>>

End(t) ==
    /\ pc[t] \in {"committed", "aborted"}
    /\ Locks!End(t)
    /\ state'[t] = (IF pc[t] = "committed" THEN "COMMITTED" ELSE "ABORTED")
    /\ Goto(t, "done")
    /\ UNCHANGED <<heap, log, callVars, pos, todo, clash, base>>

CallStep(t) ==
    \/ LockRow(t) \/ LockRowUpgrade(t) \/ LockRowRefused(t)
    \/ GetRow(t) \/ ScanRow(t) \/ ReadOld(t) \/ DeleteRow(t)
    \/ UpdateInPlace(t) \/ UpdateOut(t) \/ UpdateNothing(t) \/ UpdateMove(t)
    \/ LockDest(t) \/ LockDestUpgrade(t) \/ LockDestRefused(t)

TxNext(t) ==
    \/ Begin(t) \/ InsertTuple(t) \/ ScanNext(t)
    \/ \E k \in {"get", "delete", "update"}, r \in Rids : Call(t, k, r)
    \/ CallStep(t)
    \/ Commit(t) \/ Abort(t) \/ UndoDelete(t) \/ UndoRestore(t)
    \/ Unlock(t) \/ End(t)

Next == UNCHANGED room /\ \E t \in Txns : TxNext(t)

Spec == Init /\ [][Next]_vars

-----------------------------------------------------------------------------
(* Until unlock_all, every row a transaction may have to undo is locked by *)
(* it exclusively: no two transactions ever undo the same row, not even a  *)
(* row that an update has moved a tuple to.                                *)
UndoLocked ==
    \A t \in Txns : pc[t] \notin {"committed", "aborted", "done"} =>
        \A i \in DOMAIN log[t] : log[t][i].rid \in exclusive[t]

(* README.md:31 names one hole, the reuse of a slot that another           *)
(* transaction has locked; clash says that it has been hit.  Without that, *)
(* a row that no transaction is writing (none has it exclusively, none has *)
(* put a tuple there that it has yet to lock) holds what the committed     *)
(* transactions left there: an abort, whatever it has done and however the *)
(* others ran, leaves no trace.                                            *)
CommittedRows ==
    clash \/ \A r \in Rids :
        (\A t \in Txns : r \notin exclusive[t] /\ ~(pc[t] = "lockdest" /\ dest[t] = r))
            => heap[r] = base[r]

(* slotted_page.cpp:125, 129: likewise, the slot a rollback restores is    *)
(* free, and there is room for the tuple on its page.                      *)
RestoreFits == clash \/ \A t \in Txns : Restoring(t) => RestoreAsserts(t)

(* Isolation (README.md:14): as long as a transaction has a lock on a row, *)
(* to read it or to write it, only its own steps change the row, no other  *)
(* call, commit or rollback; the slots that clash is about excepted.       *)
LockedRowsStay ==
    [][\A t \in Txns, r \in Rids :
          r \in shared[t] \cup exclusive[t] /\ heap'[r] # heap[r] =>
              clash' \/ pc'[t] # pc[t] \/ todo'[t] # todo[t]]_vars

(* README.md:14 "Tuple mutations and CREATE TABLE rollback are supported": *)
(* between two calls, a committed tuple that a transaction has removed     *)
(* from a row is in its undo log.                                          *)
RemovalsRecorded ==
    \A t \in Txns, r \in Rids :
        (/\ pc[t] = "idle" /\ r \in exclusive[t]
         /\ base[r] # Empty /\ heap[r] = Empty)
            => \E i \in DOMAIN log[t] : log[t][i].rid = r
=============================================================================
