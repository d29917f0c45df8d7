------------------------------ MODULE RowLocks ------------------------------
(***************************************************************************)
(* What the transaction layer promises to the layers above it: row locks  *)
(* that are compatible at all times and that are only ever given up by an *)
(* upgrade or by the end of the transaction.  There are no queues, no     *)
(* condition variables and no latch here; LockManager is the code, and it *)
(* implements this specification.                                          *)
(***************************************************************************)
CONSTANTS Txns,   \* transaction ids handed out by TransactionManager::begin
          Rids    \* the rows (user tuples and catalog rows) that can be locked

VARIABLES state,      \* Transaction::state_, "NONE" before begin
          shared,     \* Transaction::shared_locks_
          exclusive   \* Transaction::exclusive_locks_

lockVars == <<state, shared, exclusive>>

TransactionState == {"GROWING", "SHRINKING", "COMMITTED", "ABORTED"}

(* No other transaction holds r at all.                                    *)
Alone(t, r) == \A u \in Txns \ {t} : r \notin shared[u] \cup exclusive[u]

(* No other transaction writes r.                                          *)
Unwritten(t, r) == \A u \in Txns \ {t} : r \notin exclusive[u]

-----------------------------------------------------------------------------
Init ==
    /\ state = [t \in Txns |-> "NONE"]
    /\ shared = [t \in Txns |-> {}]
    /\ exclusive = [t \in Txns |-> {}]

Begin(t) ==
    /\ state[t] = "NONE"
    /\ state' = [state EXCEPT ![t] = "GROWING"]
    /\ UNCHANGED <<shared, exclusive>>

(* A shared lock is granted while nobody else writes the row.              *)
GrantShared(t, r) ==
    /\ state[t] = "GROWING"
    /\ Unwritten(t, r)
    /\ shared' = [shared EXCEPT ![t] = @ \cup {r}]
    /\ UNCHANGED <<state, exclusive>>

(* An exclusive lock is granted while nobody else has the row.  It         *)
(* replaces the shared lock of the same transaction, if there is one.      *)
GrantExclusive(t, r) ==
    /\ state[t] = "GROWING"
    /\ Alone(t, r)
    /\ exclusive' = [exclusive EXCEPT ![t] = @ \cup {r}]
    /\ shared' = [shared EXCEPT ![t] = @ \ {r}]
    /\ UNCHANGED state

(* An upgrade that cannot be granted gives the shared lock up first.       *)
DropForUpgrade(t, r) ==
    /\ state[t] = "GROWING"
    /\ r \in shared[t]
    /\ ~Alone(t, r)
    /\ shared' = [shared EXCEPT ![t] = @ \ {r}]
    /\ UNCHANGED <<state, exclusive>>

(* A lock that is not granted in time aborts the transaction; it keeps     *)
(* what it holds until its client ends it.                                 *)
Refuse(t) ==
    /\ state[t] = "GROWING"
    /\ state' = [state EXCEPT ![t] = "ABORTED"]
    /\ UNCHANGED <<shared, exclusive>>

Shrink(t) ==
    /\ state[t] \in {"GROWING", "ABORTED"}
    /\ state' = [state EXCEPT ![t] = "SHRINKING"]
    /\ UNCHANGED <<shared, exclusive>>

ReleaseAll(t) ==
    /\ state[t] = "SHRINKING"
    /\ shared' = [shared EXCEPT ![t] = {}]
    /\ exclusive' = [exclusive EXCEPT ![t] = {}]
    /\ UNCHANGED state

(* A transaction ends only once it holds nothing.                          *)
End(t) ==
    /\ state[t] = "SHRINKING"
    /\ shared[t] = {} /\ exclusive[t] = {}
    /\ \E s \in {"COMMITTED", "ABORTED"} : state' = [state EXCEPT ![t] = s]
    /\ UNCHANGED <<shared, exclusive>>

Next ==
    \E t \in Txns :
        \/ Begin(t) \/ Refuse(t) \/ Shrink(t) \/ ReleaseAll(t) \/ End(t)
        \/ \E r \in Rids :
              GrantShared(t, r) \/ GrantExclusive(t, r) \/ DropForUpgrade(t, r)

Spec == Init /\ [][Next]_lockVars
=============================================================================
