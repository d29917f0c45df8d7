---------------------------- MODULE LockManager ----------------------------
(***************************************************************************)
(* LockManager, TransactionManager and Transaction: one client thread per *)
(* transaction calls begin, lock_shared, lock_exclusive, commit and abort. *)
(*                                                                         *)
(* LockManager::latch_ is held from the entry of every lock and unlock     *)
(* call to its return, except while a thread sleeps in cv.wait_for; so a   *)
(* call is one action up to that sleep, and one action for every time the *)
(* sleeper gets the latch back.                                            *)
(*                                                                         *)
(* A request queue is a set: can_grant looks at every granted request and  *)
(* never at the position of one, so the order of the std::list is not      *)
(* observable.  Calls that return without a change (a transaction that is  *)
(* not GROWING, a lock that is already held) are not steps.                *)
(***************************************************************************)
CONSTANTS Txns,   \* transaction ids handed out by TransactionManager::begin
          Rids    \* rows that can be locked

VARIABLES
    state,      \* Transaction::state_, "NONE" before begin
    shared,     \* Transaction::shared_locks_
    exclusive,  \* Transaction::exclusive_locks_
    active,     \* keys of TransactionManager::active_txs_
    queue,      \* lock_table_[rid].requests
    pc,         \* where the client thread of the transaction is
    wait,       \* the request it sleeps on: [rid, mode]
    outcome,    \* "COMMITTED" in commit(), "ABORTED" in abort()
    acquired    \* history: rows for which a lock call has returned true

vars == <<state, shared, exclusive, active, queue, pc, wait, outcome, acquired>>

Modes == {"S", "X"}

Request == [tx : Txns, mode : Modes, granted : BOOLEAN]

(* The request a call adds to the queue, before and after it is granted.   *)
Pending(t, m) == [tx |-> t, mode |-> m, granted |-> FALSE]
Granted(t, m) == [tx |-> t, mode |-> m, granted |-> TRUE]

NoWait == [rid |-> "none", mode |-> "none"]

Waiting(t) == pc[t] \in {"asleep", "woken"}

(* The transaction has the row in one of its two sets.                     *)
Holds(t, r) == r \in shared[t] \cup exclusive[t]

(* Mutant: an exclusive request is not checked against the readers.        *)
CanGrantOverReaders(q, t, m) ==
    \A req \in q : (req.granted /\ req.tx # t) => req.mode = "S"

(* LockManager::can_grant: ungranted requests and the caller's own are     *)
(* skipped; X conflicts with everything granted, S with a granted X.       *)
CanGrant(q, t, m) ==
    \A req \in q :
        (req.granted /\ req.tx # t) => (m = "S" /\ req.mode = "S")

(* Mutant: only the exclusive requests of the transaction are erased.      *)
WithoutTxExclusive(q, t) == {req \in q : req.tx # t \/ req.mode = "S"}

(* std::erase_if on the requests of one queue.                             *)
WithoutTx(q, t) == {req \in q : req.tx # t}

(* Mutant: the notify_all is forgotten.                                    *)
NotifiedNobody(rs) == pc

(* queue.cv.notify_all on the queues of the given rows.                    *)
Notified(rs) ==
    [u \in Txns |-> IF pc[u] = "asleep" /\ wait[u].rid \in rs
                    THEN "woken" ELSE pc[u]]

(* The thread has left its last call and may make another one.             *)
CanCall(t) == pc[t] = "idle" /\ t \in active

(* Mutant: the state of the transaction is not looked at.                  *)
MayLockAnyState(t) == CanCall(t)

(* The first check of both lock calls.                                     *)
MayLock(t) == CanCall(t) /\ state[t] = "GROWING"

-----------------------------------------------------------------------------
Init ==
    /\ state = [t \in Txns |-> "NONE"]
    /\ shared = [t \in Txns |-> {}]
    /\ exclusive = [t \in Txns |-> {}]
    /\ active = {}
    /\ queue = [r \in Rids |-> {}]
    /\ pc = [t \in Txns |-> "idle"]
    /\ wait = [t \in Txns |-> NoWait]
    /\ outcome = [t \in Txns |-> "none"]
    /\ acquired = [t \in Txns |-> {}]

Begin(t) ==
    /\ state[t] = "NONE"
    /\ state' = [state EXCEPT ![t] = "GROWING"]
    /\ active' = active \cup {t}
    /\ UNCHANGED <<shared, exclusive, queue, pc, wait, outcome, acquired>>

(* Mutant: the row is not entered into exclusive_locks_.                   *)
TakeUnrecorded(t, r, m, q, sh) ==
    /\ queue' = [queue EXCEPT ![r] = q \cup {Granted(t, m)}]
    /\ shared' = [shared EXCEPT ![t] = IF m = "S" THEN sh \cup {r} ELSE sh]
    /\ acquired' = [acquired EXCEPT ![t] = @ \cup {r}]
    /\ UNCHANGED exclusive

(* The tail of both lock calls once the predicate holds: the request is    *)
(* granted and the row enters the transaction's own set.  q is the queue   *)
(* without this request, sh the shared set without this row if the call   *)
(* upgrades.                                                               *)
Take(t, r, m, q, sh) ==
    /\ queue' = [queue EXCEPT ![r] = q \cup {Granted(t, m)}]
    /\ shared' = [shared EXCEPT ![t] = IF m = "S" THEN sh \cup {r} ELSE sh]
    /\ exclusive' = [exclusive EXCEPT ![t] = IF m = "X" THEN @ \cup {r} ELSE @]
    /\ acquired' = [acquired EXCEPT ![t] = @ \cup {r}]

(* The request is queued and the thread falls asleep in cv.wait_for.       *)
Sleep(t, r, m, q, sh) ==
    /\ queue' = [queue EXCEPT ![r] = q \cup {Pending(t, m)}]
    /\ shared' = [shared EXCEPT ![t] = sh]
    /\ pc' = [pc EXCEPT ![t] = "asleep"]
    /\ wait' = [wait EXCEPT ![t] = [rid |-> r, mode |-> m]]
    /\ UNCHANGED <<exclusive, acquired>>

LockShared(t, r) ==
    /\ MayLock(t)
    /\ ~Holds(t, r)
    /\ \/ /\ CanGrant(queue[r], t, "S")
          /\ Take(t, r, "S", queue[r], shared[t])
          /\ UNCHANGED <<pc, wait>>
       \/ /\ ~CanGrant(queue[r], t, "S")
          /\ Sleep(t, r, "S", queue[r], shared[t])
    /\ UNCHANGED <<state, active, outcome>>

(* An upgrade first erases the transaction's shared request and its entry  *)
(* in shared_locks_, and notifies nobody.                                  *)
AfterUpgrade(t, r) ==
    IF r \in shared[t] THEN WithoutTx(queue[r], t) ELSE queue[r]

LockExclusive(t, r) ==
    /\ MayLock(t)
    /\ r \notin exclusive[t]
    /\ LET q == AfterUpgrade(t, r) IN
       \/ /\ CanGrant(q, t, "X")
          /\ Take(t, r, "X", q, shared[t] \ {r})
          /\ UNCHANGED <<pc, wait>>
       \/ /\ ~CanGrant(q, t, "X")
          /\ Sleep(t, r, "X", q, shared[t] \ {r})
    /\ UNCHANGED <<state, active, outcome>>

(* A sleeper has the latch again, because it was notified, because the     *)
(* second is over or spuriously, and finds its predicate true.  A sleeper  *)
(* that was not notified evaluates it at its deadline.                     *)
WakeGrant(t) ==
    /\ Waiting(t)
    /\ LET r == wait[t].rid
           m == wait[t].mode
       IN  /\ CanGrant(queue[r], t, m)
           /\ Take(t, r, m, queue[r] \ {Pending(t, m)}, shared[t])
    /\ pc' = [pc EXCEPT ![t] = "idle"]
    /\ wait' = [wait EXCEPT ![t] = NoWait]
    /\ UNCHANGED <<state, active, outcome>>

(* It was notified, finds the predicate false and sleeps on.               *)
WakeAgain(t) ==
    /\ pc[t] = "woken"
    /\ ~CanGrant(queue[wait[t].rid], t, wait[t].mode)
    /\ pc' = [pc EXCEPT ![t] = "asleep"]
    /\ UNCHANGED <<state, shared, exclusive, active, queue, wait, outcome, acquired>>

(* Mutant: the wait is repeated when it times out.                         *)
TimeOutRetried(t) ==
    /\ Waiting(t)
    /\ ~CanGrant(queue[wait[t].rid], t, wait[t].mode)
    /\ pc' = [pc EXCEPT ![t] = "asleep"]
    /\ UNCHANGED <<state, shared, exclusive, active, queue, wait, outcome, acquired>>

(* The second is over and the predicate is still false: the request is     *)
(* erased, the transaction is ABORTED, the queue is notified and the call  *)
(* returns false.                                                          *)
TimeOut(t) ==
    /\ Waiting(t)
    /\ LET r == wait[t].rid
           m == wait[t].mode
       IN  /\ ~CanGrant(queue[r], t, m)
           /\ queue' = [queue EXCEPT ![r] = @ \ {Pending(t, m)}]
           /\ pc' = [Notified({r}) EXCEPT ![t] = "idle"]
    /\ state' = [state EXCEPT ![t] = "ABORTED"]
    /\ wait' = [wait EXCEPT ![t] = NoWait]
    /\ UNCHANGED <<shared, exclusive, active, outcome, acquired>>

(* First statement of commit and of abort.  Neither looks at the state, so *)
(* a transaction that a timeout ABORTED can be committed.  The undo of     *)
(* abort touches rows, not locks.                                          *)
Finish(t, o) ==
    /\ CanCall(t)
    /\ state' = [state EXCEPT ![t] = "SHRINKING"]
    /\ outcome' = [outcome EXCEPT ![t] = o]
    /\ pc' = [pc EXCEPT ![t] = "unlock"]
    /\ UNCHANGED <<shared, exclusive, active, queue, wait, acquired>>

(* Mutant: commit without the unlock_all.                                  *)
CommitHolding(t) ==
    /\ CanCall(t)
    /\ state' = [state EXCEPT ![t] = "SHRINKING"]
    /\ outcome' = [outcome EXCEPT ![t] = "COMMITTED"]
    /\ pc' = [pc EXCEPT ![t] = "settle"]
    /\ UNCHANGED <<shared, exclusive, active, queue, wait, acquired>>

Commit(t) == Finish(t, "COMMITTED")

Abort(t) == Finish(t, "ABORTED")

(* The rows unlock_all walks.                                              *)
Held(t) == shared[t] \cup exclusive[t]

(* LockManager::unlock_all with remove_and_notify for every row held.      *)
UnlockAll(t) ==
    /\ pc[t] = "unlock"
    /\ queue' = [r \in Rids |-> IF r \in Held(t) THEN WithoutTx(queue[r], t)
                                                 ELSE queue[r]]
    /\ pc' = [Notified(Held(t)) EXCEPT ![t] = "settle"]
    /\ shared' = [shared EXCEPT ![t] = {}]
    /\ exclusive' = [exclusive EXCEPT ![t] = {}]
    /\ UNCHANGED <<state, active, wait, outcome, acquired>>

Settle(t) ==
    /\ pc[t] = "settle"
    /\ state' = [state EXCEPT ![t] = outcome[t]]
    /\ pc' = [pc EXCEPT ![t] = "erase"]
    /\ UNCHANGED <<shared, exclusive, active, queue, wait, outcome, acquired>>

EraseActive(t) ==
    /\ pc[t] = "erase"
    /\ active' = active \ {t}
    /\ pc' = [pc EXCEPT ![t] = "idle"]
    /\ UNCHANGED <<state, shared, exclusive, queue, wait, outcome, acquired>>

(* Every client has ended its transaction.                                 *)
Done ==
    /\ \A t \in Txns : state[t] \in {"COMMITTED", "ABORTED"} /\ t \notin active
    /\ UNCHANGED vars

TxNext(t) ==
    \/ Begin(t) \/ Commit(t) \/ Abort(t)
    \/ \E r \in Rids : LockShared(t, r) \/ LockExclusive(t, r)
    \/ WakeGrant(t) \/ WakeAgain(t) \/ TimeOut(t)
    \/ UnlockAll(t) \/ Settle(t) \/ EraseActive(t)

Next == (\E t \in Txns : TxNext(t)) \/ Done

Spec == Init /\ [][Next]_vars

-----------------------------------------------------------------------------
(* Fairness.  A thread inside a call goes on: wait_for(1s) returns, with   *)
(* the lock or without it, and what follows the last wait of a call is not *)
(* held up.  A thread between two calls ends its transaction some time.    *)
(* Being woken and falling asleep again is no progress.                    *)
GoesOn(t) ==
    \/ TimeOut(t) \/ WakeGrant(t)
    \/ Commit(t) \/ Abort(t)
    \/ UnlockAll(t) \/ Settle(t) \/ EraseActive(t)

TimedSpec == Spec /\ \A t \in Txns : WF_vars(GoesOn(t))

-----------------------------------------------------------------------------
TypeOK ==
    /\ state \in [Txns -> {"NONE", "GROWING", "SHRINKING", "COMMITTED", "ABORTED"}]
    /\ shared \in [Txns -> SUBSET Rids]
    /\ exclusive \in [Txns -> SUBSET Rids]
    /\ active \in SUBSET Txns
    /\ queue \in [Rids -> SUBSET Request]
    /\ pc \in [Txns -> {"idle", "asleep", "woken", "unlock", "settle", "erase"}]
    /\ wait \in [Txns -> [rid : Rids, mode : Modes] \cup {NoWait}]
    /\ outcome \in [Txns -> {"none", "COMMITTED", "ABORTED"}]
    /\ acquired \in [Txns -> SUBSET Rids]

(* lock_manager.cpp:91-102: a row that one transaction has exclusively is  *)
(* held by no other transaction in any mode.                               *)
Compatible ==
    \A t, u \in Txns :
        t # u => exclusive[t] \cap (shared[u] \cup exclusive[u]) = {}

(* lock_table_ and the transactions' own lock sets, which every grant,     *)
(* upgrade, timeout and unlock has to change together, tell the same       *)
(* story: the granted requests of a queue are exactly the locks the        *)
(* transactions believe they hold, and the others those of the sleepers.   *)
TableAgrees ==
    \A r \in Rids, t \in Txns, m \in Modes :
        /\ Granted(t, m) \in queue[r] <=>
               r \in (IF m = "S" THEN shared[t] ELSE exclusive[t])
        /\ Pending(t, m) \in queue[r] <=>
               Waiting(t) /\ wait[t] = [rid |-> r, mode |-> m]

(* No wakeup is lost: a thread that sleeps in cv.wait_for and has not been *)
(* notified could not be granted its lock.  The upgrade erases a granted   *)
(* request without a notify_all (lock_manager.cpp:45); this says that it   *)
(* does not need one.                                                      *)
NoMissedWakeup ==
    \A t \in Txns :
        pc[t] = "asleep" => ~CanGrant(queue[wait[t].rid], t, wait[t].mode)

(* Every row for which a lock call has returned true stays locked until    *)
(* the transaction leaves GROWING, except while the same transaction waits *)
(* for the upgrade of that very row.                                       *)
HeldUnlessUpgrading ==
    \A t \in Txns :
        state[t] = "GROWING" =>
            \A r \in acquired[t] :
                Holds(t, r) \/ (Waiting(t) /\ wait[t] = [rid |-> r, mode |-> "X"])

(* A transaction that commit or abort has left, in whatever order the      *)
(* other threads ran, has no lock and no request anywhere.                 *)
NothingLeft ==
    \A t \in Txns :
        state[t] = "COMMITTED" \/ t \notin active =>
            /\ shared[t] = {} /\ exclusive[t] = {}
            /\ \A r \in Rids : \A req \in queue[r] : req.tx # t

(* Two phases: a transaction that is no longer GROWING gains no lock.      *)
TwoPhase ==
    [][\A t \in Txns :
          state[t] # "GROWING" =>
              /\ shared'[t] \subseteq shared[t]
              /\ exclusive'[t] \subseteq exclusive[t]]_vars

(* The code implements the abstract row locks.                             *)
Locks == INSTANCE RowLocks
ImplementsRowLocks == Locks!Spec

(* With the one-second deadline every transaction that begins ends, also   *)
(* when transactions wait for each other in a cycle.                       *)
TransactionEnds ==
    \A t \in Txns : state[t] = "GROWING" ~>
                       (state[t] \in {"COMMITTED", "ABORTED"} /\ t \notin active)
=============================================================================
