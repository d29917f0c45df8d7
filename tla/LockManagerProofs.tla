------------------------- MODULE LockManagerProofs -------------------------
(***************************************************************************)
(* The safety properties of LockManager for any number of transactions and *)
(* rows, and its refinement of RowLocks.                                   *)
(*                                                                         *)
(* The invariants are stated over lock_table_, which several actions       *)
(* rebuild; the induction runs over the transactions' own sets instead.    *)
(* TableAgrees ties the two together (CanGrantMeaning), PhaseOK says where *)
(* a thread can be in each transaction state, and Blocked is NoMissedWakeup*)
(* with can_grant read off the lock sets.                                  *)
(***************************************************************************)
EXTENDS LockManager, TLAPS

Ended == {"COMMITTED", "ABORTED"}

PhaseOK ==
    \A t \in Txns :
        /\ Waiting(t) =>
              /\ state[t] = "GROWING"
              /\ t \in active
              /\ wait[t] \in [rid : Rids, mode : Modes]
              /\ ~Holds(t, wait[t].rid)
        /\ pc[t] \in {"unlock", "settle"} => state[t] = "SHRINKING"
        /\ pc[t] \in {"unlock", "settle"} => outcome[t] \in Ended
        /\ pc[t] \in {"settle", "erase"} => shared[t] = {} /\ exclusive[t] = {}
        /\ t \notin active => pc[t] = "idle" /\ shared[t] = {} /\ exclusive[t] = {}
        /\ pc[t] = "erase" => state[t] \in Ended
        /\ state[t] = "NONE" => t \notin active /\ acquired[t] = {}
        /\ t \notin active => state[t] \notin {"GROWING", "SHRINKING"}
        /\ state[t] = "COMMITTED" => pc[t] = "erase" \/ t \notin active
        /\ state[t] = "SHRINKING" => pc[t] \in {"unlock", "settle"}

(* can_grant in terms of the lock sets of the other transactions.          *)
Free(t, r, m) ==
    \A u \in Txns \ {t} : r \notin exclusive[u] /\ (m = "X" => r \notin shared[u])

Blocked ==
    \A t \in Txns : pc[t] = "asleep" => ~Free(t, wait[t].rid, wait[t].mode)

IInv ==
    /\ TypeOK /\ PhaseOK /\ TableAgrees /\ Compatible /\ Blocked
    /\ HeldUnlessUpgrading

-----------------------------------------------------------------------------
(* can_grant, computed from a queue whose granted requests are the locks   *)
(* in sh and ex, decides exactly what those lock sets say.                 *)
LEMMA CanGrantMeaning ==
    ASSUME NEW q \in SUBSET Request, NEW r \in Rids,
           NEW sh \in [Txns -> SUBSET Rids], NEW ex \in [Txns -> SUBSET Rids],
           NEW t \in Txns, NEW m \in Modes,
           \A u \in Txns : /\ Granted(u, "S") \in q <=> r \in sh[u]
                           /\ Granted(u, "X") \in q <=> r \in ex[u]
    PROVE  CanGrant(q, t, m) <=>
             \A u \in Txns \ {t} : r \notin ex[u] /\ (m = "X" => r \notin sh[u])
<1>1. ASSUME CanGrant(q, t, m), NEW u \in Txns \ {t}
      PROVE  r \notin ex[u] /\ (m = "X" => r \notin sh[u])
  <2>1. Granted(u, "X") \in q => (m = "S" /\ Granted(u, "X").mode = "S")
    BY <1>1 DEF CanGrant, Granted
  <2>2. Granted(u, "S") \in q => m = "S"
    BY <1>1 DEF CanGrant, Granted
  <2> QED  BY <2>1, <2>2 DEF Granted
<1>2. ASSUME \A u \in Txns \ {t} : r \notin ex[u] /\ (m = "X" => r \notin sh[u]),
             NEW req \in q, req.granted, req.tx # t
      PROVE  m = "S" /\ req.mode = "S"
  <2>1. req \in Request /\ req.tx \in Txns \ {t}
    BY <1>2 DEF Request
  <2>2. req = Granted(req.tx, req.mode)
    BY <2>1, <1>2 DEF Request, Granted
  <2>3. req.mode # "X"
    BY <1>2, <2>1, <2>2
  <2>4. req.mode = "S" /\ r \in sh[req.tx]
    BY <2>1, <2>2, <2>3 DEF Request, Modes
  <2> QED  BY <1>2, <2>1, <2>4 DEF Modes
<1> QED  BY <1>1, <1>2 DEF CanGrant

(* In a state that satisfies the invariant can_grant is Free.              *)
LEMMA CanGrantIsFree ==
    ASSUME TypeOK, TableAgrees, NEW t \in Txns, NEW r \in Rids, NEW m \in Modes
    PROVE  CanGrant(queue[r], t, m) <=> Free(t, r, m)
<1>1. queue[r] \in SUBSET Request /\ shared \in [Txns -> SUBSET Rids]
        /\ exclusive \in [Txns -> SUBSET Rids]
  BY DEF TypeOK
<1>2. \A u \in Txns : /\ Granted(u, "S") \in queue[r] <=> r \in shared[u]
                      /\ Granted(u, "X") \in queue[r] <=> r \in exclusive[u]
  BY DEF TableAgrees, Modes
<1> QED  BY <1>1, <1>2, CanGrantMeaning DEF Free

(* The same for the queue an upgrade has left: the transaction's own       *)
(* requests never count.                                                   *)
LEMMA CanGrantUpgrade ==
    ASSUME TypeOK, TableAgrees, NEW t \in Txns, NEW r \in Rids, NEW m \in Modes
    PROVE  CanGrant(AfterUpgrade(t, r), t, m) <=> Free(t, r, m)
<1>1. CanGrant(AfterUpgrade(t, r), t, m) <=> CanGrant(queue[r], t, m)
  BY DEF CanGrant, AfterUpgrade, WithoutTx
<1> QED  BY <1>1, CanGrantIsFree

(* Requests are told apart by transaction, mode and the granted flag.      *)
LEMMA RequestsDiffer ==
    ASSUME NEW t \in Txns, NEW u \in Txns, NEW m \in Modes, NEW n \in Modes
    PROVE  /\ Granted(t, m) \in Request /\ Pending(t, m) \in Request
           /\ Granted(t, m) # Pending(u, n)
           /\ Granted(t, m) = Granted(u, n) <=> (t = u /\ m = n)
           /\ Pending(t, m) = Pending(u, n) <=> (t = u /\ m = n)
           /\ Granted(t, m).tx = t /\ Pending(t, m).tx = t
  BY DEF Granted, Pending, Request

(* The initial state satisfies the inductive invariant.                    *)
LEMMA InitIInv == Init => IInv
<1> SUFFICES ASSUME Init PROVE IInv
  OBVIOUS
<1>1. TypeOK
  BY DEF Init, TypeOK
<1>2. PhaseOK /\ Compatible /\ Blocked /\ HeldUnlessUpgrading
  BY DEF Init, PhaseOK, Compatible, Blocked, HeldUnlessUpgrading, Waiting
<1>3. TableAgrees
  BY DEF Init, TableAgrees, Waiting
<1> QED  BY <1>1, <1>2, <1>3 DEF IInv

(* A call or a wakeup that takes the lock, in the terms the induction      *)
(* needs: the row was free for the transaction, which was GROWING and not  *)
(* holding it in this mode.                                                *)
LEMMA TakeStep ==
    ASSUME IInv, NEW t \in Txns, NEW r \in Rids, NEW m \in Modes,
           NEW q \in SUBSET Request, NEW sh \in SUBSET Rids,
           Take(t, r, m, q, sh), Free(t, r, m),
           t \in active, state[t] = "GROWING",
           sh = shared[t] \ {r}, r \notin exclusive[t],
           Waiting(t) => wait[t] = [rid |-> r, mode |-> m],
           pc[t] = "idle" \/ Waiting(t),
           pc' = [pc EXCEPT ![t] = "idle"],
           wait' = [wait EXCEPT ![t] = NoWait] \/ (wait' = wait /\ pc[t] = "idle"),
           \A u \in Txns, n \in Modes :
               /\ Granted(u, n) \in q <=> (Granted(u, n) \in queue[r] /\ u # t)
               /\ Pending(u, n) \in q <=> (Pending(u, n) \in queue[r] /\ u # t),
           UNCHANGED <<state, active, outcome>>
    PROVE  IInv'
<1> USE DEF IInv
<1>1. TypeOK'
  BY RequestsDiffer DEF TypeOK, Take
<1>2. PhaseOK'
  BY DEF TypeOK, PhaseOK, Take, Waiting, Holds
<1>3. TableAgrees'
  <2> SUFFICES ASSUME NEW r1 \in Rids, NEW u \in Txns, NEW n \in Modes
               PROVE  /\ Granted(u, n) \in queue'[r1] <=>
                            r1 \in (IF n = "S" THEN shared'[u] ELSE exclusive'[u])
                      /\ Pending(u, n) \in queue'[r1] <=>
                            Waiting(u)' /\ wait'[u] = [rid |-> r1, mode |-> n]
    BY DEF TableAgrees
  <2>1. queue'[r1] = IF r1 = r THEN q \cup {Granted(t, m)} ELSE queue[r1]
    BY DEF TypeOK, Take
  <2>2. /\ shared'[u] = IF u = t THEN (IF m = "S" THEN sh \cup {r} ELSE sh) ELSE shared[u]
        /\ exclusive'[u] = IF u = t /\ m = "X" THEN exclusive[u] \cup {r} ELSE exclusive[u]
    BY DEF TypeOK, Take
  <2>3. Waiting(u)' <=> (u # t /\ Waiting(u))
    BY DEF TypeOK, Waiting
  <2>4. u # t => wait'[u] = wait[u]
    BY DEF TypeOK
  <2>5. /\ Granted(u, n) \in queue[r1] <=>
              r1 \in (IF n = "S" THEN shared[u] ELSE exclusive[u])
        /\ Pending(u, n) \in queue[r1] <=>
              Waiting(u) /\ wait[u] = [rid |-> r1, mode |-> n]
    BY DEF TableAgrees
  <2>6. CASE r1 = r
    <3>1. Granted(u, n) \in queue'[r1] <=>
            r1 \in (IF n = "S" THEN shared'[u] ELSE exclusive'[u])
      BY <2>1, <2>2, <2>5, <2>6, RequestsDiffer DEF Modes
    <3>2. Pending(u, n) \in queue'[r1] <=> Pending(u, n) \in queue[r] /\ u # t
      BY <2>1, <2>6, RequestsDiffer
    <3> QED  BY <2>3, <2>4, <2>5, <2>6, <3>1, <3>2
  <2>7. CASE r1 # r
    <3>1. Granted(u, n) \in queue'[r1] <=>
            r1 \in (IF n = "S" THEN shared'[u] ELSE exclusive'[u])
      BY <2>1, <2>2, <2>5, <2>7
    <3>2. Pending(u, n) \in queue'[r1] <=>
            Waiting(u)' /\ wait'[u] = [rid |-> r1, mode |-> n]
      BY <2>1, <2>3, <2>4, <2>5, <2>7
    <3> QED  BY <3>1, <3>2
  <2> QED  BY <2>6, <2>7
<1>4. Compatible'
  BY DEF TypeOK, Compatible, Take, Free, Modes
<1>5. Blocked'
  <2> SUFFICES ASSUME NEW u \in Txns, pc'[u] = "asleep"
               PROVE  ~Free(u, wait[u].rid, wait[u].mode)'
    BY DEF Blocked
  <2>1. u # t /\ pc[u] = "asleep" /\ wait'[u] = wait[u]
    BY DEF TypeOK
  <2>2. PICK v \in Txns \ {u} :
          \/ wait[u].rid \in exclusive[v]
          \/ wait[u].mode = "X" /\ wait[u].rid \in shared[v]
    BY <2>1 DEF Blocked, Free
  <2>3. CASE v # t
    BY <2>1, <2>2, <2>3 DEF TypeOK, Take, Free
  <2>4. CASE v = t /\ wait[u].rid # r
    BY <2>1, <2>2, <2>4 DEF TypeOK, Take, Free
  <2>5. CASE v = t /\ wait[u].rid = r
    BY <2>1, <2>2, <2>5 DEF TypeOK, Take, Free, Modes
  <2> QED  BY <2>3, <2>4, <2>5
<1>6. HeldUnlessUpgrading'
  BY DEF TypeOK, HeldUnlessUpgrading, Take, Waiting, Holds, Modes
<1> QED  BY <1>1, <1>2, <1>3, <1>4, <1>5, <1>6

(* A call that falls asleep.  If it is an upgrade, a sleeper that only the *)
(* dropped shared lock was blocking would leave nobody to block the        *)
(* upgrade itself; so there is none, and no notify_all is owed.            *)
LEMMA SleepStep ==
    ASSUME IInv, NEW t \in Txns, NEW r \in Rids, NEW m \in Modes,
           NEW q \in SUBSET Request, NEW sh \in SUBSET Rids,
           Sleep(t, r, m, q, sh), ~Free(t, r, m),
           t \in active, state[t] = "GROWING", pc[t] = "idle",
           sh = shared[t] \ {r}, r \notin exclusive[t],
           m = "S" => r \notin shared[t],
           \A u \in Txns, n \in Modes :
               /\ Granted(u, n) \in q <=> (Granted(u, n) \in queue[r] /\ u # t)
               /\ Pending(u, n) \in q <=> (Pending(u, n) \in queue[r] /\ u # t),
           UNCHANGED <<state, active, outcome>>
    PROVE  IInv'
<1> USE DEF IInv
<1>1. TypeOK'
  BY RequestsDiffer DEF TypeOK, Sleep
<1>2. PhaseOK'
  BY DEF TypeOK, PhaseOK, Sleep, Waiting, Holds
<1>3. TableAgrees'
  <2> SUFFICES ASSUME NEW r1 \in Rids, NEW u \in Txns, NEW n \in Modes
               PROVE  /\ Granted(u, n) \in queue'[r1] <=>
                            r1 \in (IF n = "S" THEN shared'[u] ELSE exclusive'[u])
                      /\ Pending(u, n) \in queue'[r1] <=>
                            Waiting(u)' /\ wait'[u] = [rid |-> r1, mode |-> n]
    BY DEF TableAgrees
  <2>1. queue'[r1] = IF r1 = r THEN q \cup {Pending(t, m)} ELSE queue[r1]
    BY DEF TypeOK, Sleep
  <2>2. /\ shared'[u] = IF u = t THEN sh ELSE shared[u]
        /\ exclusive'[u] = exclusive[u]
    BY DEF TypeOK, Sleep
  <2>3. Waiting(u)' <=> (u = t \/ Waiting(u))
    BY DEF TypeOK, Sleep, Waiting
  <2>4. wait'[u] = IF u = t THEN [rid |-> r, mode |-> m] ELSE wait[u]
    BY DEF TypeOK, Sleep
  <2>5. /\ Granted(u, n) \in queue[r1] <=>
              r1 \in (IF n = "S" THEN shared[u] ELSE exclusive[u])
        /\ Pending(u, n) \in queue[r1] <=>
              Waiting(u) /\ wait[u] = [rid |-> r1, mode |-> n]
    BY DEF TableAgrees
  <2>6. ~Waiting(t)
    BY DEF Waiting
  <2>7. CASE r1 = r
    <3>1. Granted(u, n) \in queue'[r1] <=>
            r1 \in (IF n = "S" THEN shared'[u] ELSE exclusive'[u])
      BY <2>1, <2>2, <2>5, <2>7, RequestsDiffer
    <3>2. Pending(u, n) \in queue'[r1] <=>
            (u # t /\ Pending(u, n) \in queue[r]) \/ (u = t /\ n = m)
      BY <2>1, <2>7, RequestsDiffer
    <3>3. (u = t) => (wait'[u] = [rid |-> r1, mode |-> n] <=> n = m)
      BY <2>4, <2>7
    <3> QED  BY <2>3, <2>4, <2>5, <2>7, <3>1, <3>2, <3>3
  <2>8. CASE r1 # r
    <3>1. Granted(u, n) \in queue'[r1] <=>
            r1 \in (IF n = "S" THEN shared'[u] ELSE exclusive'[u])
      BY <2>1, <2>2, <2>5, <2>8
    <3>2. u = t => ~(wait'[u] = [rid |-> r1, mode |-> n])
      BY <2>4, <2>8
    <3> QED  BY <2>1, <2>3, <2>4, <2>5, <2>6, <2>8, <3>1, <3>2
  <2> QED  BY <2>7, <2>8
<1>4. Compatible'
  BY DEF TypeOK, Compatible, Sleep
<1>5. Blocked'
  <2> SUFFICES ASSUME NEW u \in Txns, pc'[u] = "asleep"
               PROVE  ~Free(u, wait[u].rid, wait[u].mode)'
    BY DEF Blocked
  <2>1. CASE u = t
    BY <2>1 DEF TypeOK, Sleep, Free
  <2>2. CASE u # t
    <3>1. pc[u] = "asleep" /\ wait'[u] = wait[u] /\ ~Holds(u, wait[u].rid)
      BY <2>2 DEF TypeOK, PhaseOK, Sleep, Waiting
    <3>2. PICK v \in Txns \ {u} :
            \/ wait[u].rid \in exclusive[v]
            \/ wait[u].mode = "X" /\ wait[u].rid \in shared[v]
      BY <3>1 DEF Blocked, Free
    <3>3. CASE v # t \/ wait[u].rid # r \/ r \notin shared[t]
      BY <3>1, <3>2, <3>3 DEF TypeOK, Sleep, Free
    <3>4. CASE v = t /\ wait[u].rid = r /\ r \in shared[t]
      <4>1. PICK w \in Txns \ {t} : r \in exclusive[w] \/ r \in shared[w]
        BY DEF Free
      <4>2. w # u /\ wait[u].mode = "X"
        BY <3>1, <3>2, <3>4, <4>1 DEF Holds
      <4> QED  BY <3>1, <3>4, <4>1, <4>2 DEF TypeOK, Sleep, Free
    <3> QED  BY <3>3, <3>4
  <2> QED  BY <2>1, <2>2
<1>6. HeldUnlessUpgrading'
  BY DEF TypeOK, HeldUnlessUpgrading, Sleep, Waiting, Holds, Modes
<1> QED  BY <1>1, <1>2, <1>3, <1>4, <1>5, <1>6

(* A timeout gives up the request only, and wakes every other sleeper.     *)
LEMMA TimeOutStep ==
    ASSUME IInv, NEW t \in Txns, TimeOut(t)
    PROVE  IInv'
<1> USE DEF IInv
<1> DEFINE r == wait[t].rid
           m == wait[t].mode
<1>1. r \in Rids /\ m \in Modes /\ wait[t] = [rid |-> r, mode |-> m] /\ Waiting(t)
  BY DEF PhaseOK, TimeOut
<1>2. /\ queue' = [queue EXCEPT ![r] = @ \ {Pending(t, m)}]
      /\ pc' = [Notified({r}) EXCEPT ![t] = "idle"]
      /\ state' = [state EXCEPT ![t] = "ABORTED"]
      /\ wait' = [wait EXCEPT ![t] = NoWait]
      /\ UNCHANGED <<shared, exclusive, active, outcome, acquired>>
  BY DEF TimeOut
<1> HIDE DEF r, m
<1>3. \A u \in Txns : pc'[u] = IF u = t THEN "idle"
                               ELSE IF pc[u] = "asleep" /\ wait[u].rid = r THEN "woken"
                               ELSE pc[u]
  BY <1>2 DEF Notified
<1>4. TypeOK'
  <2>1. pc' \in [Txns -> {"idle", "asleep", "woken", "unlock", "settle", "erase"}]
    BY <1>2 DEF TypeOK, Notified
  <2>2. queue' \in [Rids -> SUBSET Request]
    BY <1>1, <1>2 DEF TypeOK
  <2> QED  BY <1>2, <2>1, <2>2 DEF TypeOK
<1>5. \A u \in Txns : /\ Waiting(u)' <=> (u # t /\ Waiting(u))
                      /\ u # t => wait'[u] = wait[u]
  <2> TAKE u \in Txns
  <2>1. u # t => wait'[u] = wait[u]
    BY <1>2 DEF TypeOK
  <2>2. Waiting(u)' <=> (u # t /\ Waiting(u))
    BY <1>3 DEF Waiting
  <2> QED  BY <2>1, <2>2
<1>6. PhaseOK'
  <2> SUFFICES ASSUME NEW u \in Txns PROVE (PhaseOK!(u))'
    BY DEF PhaseOK
  <2>1. CASE u = t
    <3>1. pc'[t] = "idle" /\ state'[t] = "ABORTED" /\ t \in active /\ active' = active
      BY <1>1, <1>2, <1>3 DEF TypeOK, PhaseOK
    <3> QED  BY <2>1, <3>1 DEF Waiting
  <2>2. CASE u # t
    <3>1. /\ state'[u] = state[u]
          /\ pc'[u] = pc[u] \/ (Waiting(u) /\ pc'[u] = "woken")
      BY <1>2, <1>3, <2>2 DEF TypeOK, Waiting
    <3> QED  BY <1>2, <1>5, <2>2, <3>1 DEF PhaseOK, Waiting, Holds
  <2> QED  BY <2>1, <2>2
<1>7. TableAgrees'
  <2> SUFFICES ASSUME NEW r1 \in Rids, NEW u \in Txns, NEW n \in Modes
               PROVE  /\ Granted(u, n) \in queue'[r1] <=>
                            r1 \in (IF n = "S" THEN shared'[u] ELSE exclusive'[u])
                      /\ Pending(u, n) \in queue'[r1] <=>
                            Waiting(u)' /\ wait'[u] = [rid |-> r1, mode |-> n]
    BY DEF TableAgrees
  <2>1. queue'[r1] = IF r1 = r THEN queue[r1] \ {Pending(t, m)} ELSE queue[r1]
    BY <1>1, <1>2 DEF TypeOK
  <2>2. /\ Granted(u, n) \in queue[r1] <=>
              r1 \in (IF n = "S" THEN shared[u] ELSE exclusive[u])
        /\ Pending(u, n) \in queue[r1] <=>
              Waiting(u) /\ wait[u] = [rid |-> r1, mode |-> n]
    BY DEF TableAgrees
  <2>3. Granted(u, n) \in queue'[r1] <=>
          r1 \in (IF n = "S" THEN shared'[u] ELSE exclusive'[u])
    BY <1>1, <1>2, <2>1, <2>2, RequestsDiffer
  <2>4. CASE u = t
    <3>1. Pending(u, n) \in queue[r1] => (r1 = r /\ n = m)
      BY <1>1, <2>2, <2>4
    <3>2. Pending(u, n) \notin queue'[r1]
      BY <2>1, <2>4, <3>1
    <3> QED  BY <1>5, <2>3, <2>4, <3>2
  <2>5. CASE u # t
    <3>1. Pending(u, n) # Pending(t, m)
      BY <1>1, <2>5, RequestsDiffer
    <3> QED  BY <1>5, <2>1, <2>2, <2>3, <2>5, <3>1
  <2> QED  BY <2>4, <2>5
<1>8. Compatible'
  BY <1>2 DEF Compatible
<1>9. Blocked'
  <2> SUFFICES ASSUME NEW u \in Txns, pc'[u] = "asleep"
               PROVE  ~Free(u, wait[u].rid, wait[u].mode)'
    BY DEF Blocked
  <2>1. u # t /\ pc[u] = "asleep" /\ wait'[u] = wait[u]
    BY <1>3, <1>5
  <2> QED  BY <1>2, <2>1 DEF Blocked, Free
<1>10. HeldUnlessUpgrading'
  BY <1>2, <1>5 DEF TypeOK, HeldUnlessUpgrading, Holds
<1> QED  BY <1>4, <1>6, <1>7, <1>8, <1>9, <1>10

(* unlock_all empties both sets and the queues together, and wakes all the *)
(* sleepers on the rows it gives up.                                       *)
LEMMA UnlockAllStep ==
    ASSUME IInv, NEW t \in Txns, UnlockAll(t)
    PROVE  IInv'
<1> USE DEF IInv
<1>1. /\ pc[t] = "unlock" /\ state[t] = "SHRINKING" /\ t \in active
      /\ shared' = [shared EXCEPT ![t] = {}]
      /\ exclusive' = [exclusive EXCEPT ![t] = {}]
      /\ UNCHANGED <<state, active, wait, outcome, acquired>>
  BY DEF UnlockAll, PhaseOK
<1>2. /\ queue' = [r \in Rids |-> IF r \in Held(t) THEN WithoutTx(queue[r], t)
                                                   ELSE queue[r]]
      /\ pc' = [Notified(Held(t)) EXCEPT ![t] = "settle"]
  BY DEF UnlockAll
<1>3. \A u \in Txns : pc'[u] = IF u = t THEN "settle"
                               ELSE IF pc[u] = "asleep" /\ wait[u].rid \in Held(t)
                                    THEN "woken" ELSE pc[u]
  BY <1>2 DEF Notified
<1>4. TypeOK'
  <2>1. pc' \in [Txns -> {"idle", "asleep", "woken", "unlock", "settle", "erase"}]
    BY <1>2 DEF TypeOK, Notified
  <2>2. queue' \in [Rids -> SUBSET Request]
    BY <1>2 DEF TypeOK, WithoutTx
  <2>3. /\ shared' \in [Txns -> SUBSET Rids]
        /\ exclusive' \in [Txns -> SUBSET Rids]
    BY <1>1 DEF TypeOK
  <2> QED  BY <1>1, <2>1, <2>2, <2>3 DEF TypeOK
<1>5. \A u \in Txns : Waiting(u)' <=> Waiting(u)
  BY <1>1, <1>3 DEF Waiting
<1>6. \A u \in Txns : /\ shared'[u] = IF u = t THEN {} ELSE shared[u]
                      /\ exclusive'[u] = IF u = t THEN {} ELSE exclusive[u]
  BY <1>1 DEF TypeOK
<1>7. PhaseOK'
  <2> SUFFICES ASSUME NEW u \in Txns PROVE (PhaseOK!(u))'
    BY DEF PhaseOK
  <2>1. CASE u = t
    BY <1>1, <1>3, <1>5, <1>6, <2>1 DEF PhaseOK, Waiting, Ended
  <2>2. CASE u # t
    <3>1. pc'[u] = pc[u] \/ (Waiting(u) /\ pc'[u] = "woken")
      BY <1>3, <2>2 DEF Waiting
    <3> QED  BY <1>1, <1>5, <1>6, <2>2, <3>1 DEF PhaseOK, Waiting, Holds, Ended
  <2> QED  BY <2>1, <2>2
<1>8. TableAgrees'
  <2> SUFFICES ASSUME NEW r1 \in Rids, NEW u \in Txns, NEW n \in Modes
               PROVE  /\ Granted(u, n) \in queue'[r1] <=>
                            r1 \in (IF n = "S" THEN shared'[u] ELSE exclusive'[u])
                      /\ Pending(u, n) \in queue'[r1] <=>
                            Waiting(u)' /\ wait'[u] = [rid |-> r1, mode |-> n]
    BY DEF TableAgrees
  <2>1. queue'[r1] = IF r1 \in Held(t) THEN WithoutTx(queue[r1], t) ELSE queue[r1]
    BY <1>2
  <2>2. /\ Granted(u, n) \in queue[r1] <=>
              r1 \in (IF n = "S" THEN shared[u] ELSE exclusive[u])
        /\ Pending(u, n) \in queue[r1] <=>
              Waiting(u) /\ wait[u] = [rid |-> r1, mode |-> n]
    BY DEF TableAgrees
  <2>3. CASE u = t
    <3>1. Granted(u, n) \notin queue'[r1]
      BY <2>1, <2>2, <2>3, RequestsDiffer DEF WithoutTx, Held
    <3>2. Pending(u, n) \notin queue'[r1] /\ ~Waiting(u)
      BY <1>1, <2>1, <2>2, <2>3 DEF WithoutTx, Waiting
    <3> QED  BY <1>5, <1>6, <2>3, <3>1, <3>2
  <2>4. CASE u # t
    <3>1. /\ Granted(u, n) \in queue'[r1] <=> Granted(u, n) \in queue[r1]
          /\ Pending(u, n) \in queue'[r1] <=> Pending(u, n) \in queue[r1]
      BY <2>1, <2>4, RequestsDiffer DEF WithoutTx
    <3> QED  BY <1>1, <1>5, <1>6, <2>2, <2>4, <3>1
  <2> QED  BY <2>3, <2>4
<1>9. Compatible'
  BY <1>6 DEF Compatible
<1>10. Blocked'
  <2> SUFFICES ASSUME NEW u \in Txns, pc'[u] = "asleep"
               PROVE  ~Free(u, wait[u].rid, wait[u].mode)'
    BY DEF Blocked
  <2>1. u # t /\ pc[u] = "asleep" /\ wait[u].rid \notin Held(t)
    BY <1>3
  <2>2. PICK v \in Txns \ {u} :
          \/ wait[u].rid \in exclusive[v]
          \/ wait[u].mode = "X" /\ wait[u].rid \in shared[v]
    BY <2>1 DEF Blocked, Free
  <2>3. v # t
    BY <2>1, <2>2 DEF Held
  <2> QED  BY <1>1, <1>6, <2>2, <2>3 DEF Free
<1>11. HeldUnlessUpgrading'
  BY <1>1, <1>5, <1>6 DEF HeldUnlessUpgrading, Holds
<1> QED  BY <1>4, <1>7, <1>8, <1>9, <1>10, <1>11

(* The steps that touch no lock: they move one thread from a call without  *)
(* a request to another, and the transaction state with it.                *)
LEMMA LocklessStep ==
    ASSUME IInv, NEW t \in Txns,
           Begin(t) \/ Commit(t) \/ Abort(t) \/ Settle(t) \/ EraseActive(t)
    PROVE  IInv'
<1> USE DEF IInv, Begin, Commit, Abort, Finish, CanCall, Settle, EraseActive
<1>1. UNCHANGED <<shared, exclusive, queue, wait, acquired>>
  OBVIOUS
<1>2. TypeOK'
  BY DEF TypeOK, PhaseOK, Ended
<1>3. \A u \in Txns : /\ u # t => pc'[u] = pc[u]
                      /\ pc[u] = "asleep" <=> pc'[u] = "asleep"
                      /\ Waiting(u)' <=> Waiting(u)
  BY DEF TypeOK, Waiting
<1>4. PhaseOK'
  <2> SUFFICES ASSUME NEW u \in Txns PROVE (PhaseOK!(u))'
    BY DEF PhaseOK
  <2>1. CASE u # t
    <3>1. /\ state'[u] = state[u] /\ outcome'[u] = outcome[u]
          /\ u \in active' <=> u \in active
      BY <2>1 DEF TypeOK
    <3> QED  BY <1>1, <1>3, <2>1, <3>1 DEF PhaseOK, Holds
  <2>2. CASE u = t /\ Begin(t)
    BY <2>2 DEF TypeOK, PhaseOK, Waiting
  <2>3. CASE u = t /\ (Commit(t) \/ Abort(t))
    BY <2>3 DEF TypeOK, PhaseOK, Waiting, Ended
  <2>4. CASE u = t /\ Settle(t)
    BY <2>4 DEF TypeOK, PhaseOK, Waiting, Ended
  <2>5. CASE u = t /\ EraseActive(t)
    BY <2>5 DEF TypeOK, PhaseOK, Waiting, Ended
  <2> QED  BY <2>1, <2>2, <2>3, <2>4, <2>5
<1>5. TableAgrees'
  BY <1>1, <1>3 DEF TableAgrees
<1>6. Compatible'
  BY <1>1 DEF Compatible
<1>7. Blocked'
  BY <1>1, <1>3 DEF Blocked, Free
<1>8. HeldUnlessUpgrading'
  BY <1>1, <1>3 DEF TypeOK, HeldUnlessUpgrading, Holds, PhaseOK
<1> QED  BY <1>2, <1>4, <1>5, <1>6, <1>7, <1>8

(* A notified thread that sleeps on was told so by can_grant.              *)
LEMMA WakeAgainStep ==
    ASSUME IInv, NEW t \in Txns, WakeAgain(t)
    PROVE  IInv'
<1> USE DEF IInv
<1>1. /\ pc[t] = "woken" /\ pc' = [pc EXCEPT ![t] = "asleep"]
      /\ UNCHANGED <<state, shared, exclusive, active, queue, wait, outcome, acquired>>
  BY DEF WakeAgain
<1>2. ~Free(t, wait[t].rid, wait[t].mode)
  <2>1. wait[t].rid \in Rids /\ wait[t].mode \in Modes
    BY <1>1 DEF PhaseOK, Waiting
  <2> QED  BY <2>1, CanGrantIsFree DEF WakeAgain
<1>3. \A u \in Txns : /\ pc'[u] = IF u = t THEN "asleep" ELSE pc[u]
                      /\ Waiting(u)' <=> Waiting(u)
  BY <1>1 DEF TypeOK, Waiting
<1>4. TypeOK'
  BY <1>1 DEF TypeOK
<1>5. PhaseOK'
  BY <1>1, <1>3 DEF PhaseOK, Holds
<1>6. TableAgrees'
  BY <1>1, <1>3 DEF TableAgrees
<1>7. Compatible'
  BY <1>1 DEF Compatible
<1>8. Blocked'
  BY <1>1, <1>2, <1>3 DEF Blocked, Free
<1>9. HeldUnlessUpgrading'
  BY <1>1, <1>3 DEF HeldUnlessUpgrading, Holds
<1> QED  BY <1>4, <1>5, <1>6, <1>7, <1>8, <1>9

(* The induction step: one case per action of Next.                        *)
LEMMA NextIInv == IInv /\ [Next]_vars => IInv'
<1> SUFFICES ASSUME IInv, [Next]_vars PROVE IInv'
  OBVIOUS
<1>1. CASE UNCHANGED vars
  BY <1>1 DEF vars, IInv, TypeOK, PhaseOK, TableAgrees, Compatible, Blocked, Free,
              HeldUnlessUpgrading, Waiting, Holds
<1>2. ASSUME NEW t \in Txns, NEW r \in Rids, LockShared(t, r) PROVE IInv'
  <2>1. /\ t \in active /\ state[t] = "GROWING" /\ pc[t] = "idle"
        /\ r \notin shared[t] /\ r \notin exclusive[t]
        /\ queue[r] \in SUBSET Request /\ shared[t] \in SUBSET Rids
        /\ shared[t] = shared[t] \ {r} /\ "S" \in Modes
        /\ UNCHANGED <<state, active, outcome>>
    BY <1>2 DEF LockShared, MayLock, CanCall, Holds, IInv, TypeOK, Modes
  <2>2. ~Waiting(t)
    BY <2>1 DEF Waiting
  <2>3. \A u \in Txns, n \in Modes :
            /\ Granted(u, n) \in queue[r] <=> (Granted(u, n) \in queue[r] /\ u # t)
            /\ Pending(u, n) \in queue[r] <=> (Pending(u, n) \in queue[r] /\ u # t)
    BY <2>1, <2>2 DEF IInv, TableAgrees
  <2>4. CanGrant(queue[r], t, "S") <=> Free(t, r, "S")
    BY <2>1, CanGrantIsFree DEF IInv
  <2>5. CASE CanGrant(queue[r], t, "S")
    <3>1. Take(t, r, "S", queue[r], shared[t]) /\ UNCHANGED <<pc, wait>>
      BY <1>2, <2>5 DEF LockShared
    <3>2. pc' = [pc EXCEPT ![t] = "idle"]
      BY <2>1, <3>1 DEF IInv, TypeOK
    <3> QED  BY <2>1, <2>2, <2>3, <2>4, <2>5, <3>1, <3>2, TakeStep
  <2>6. CASE ~CanGrant(queue[r], t, "S")
    <3>1. Sleep(t, r, "S", queue[r], shared[t])
      BY <1>2, <2>6 DEF LockShared
    <3> QED  BY <2>1, <2>3, <2>4, <2>6, <3>1, SleepStep
  <2> QED  BY <2>5, <2>6
<1>3. ASSUME NEW t \in Txns, NEW r \in Rids, LockExclusive(t, r) PROVE IInv'
  <2> DEFINE q == AfterUpgrade(t, r)
             sh == shared[t] \ {r}
  <2>1. /\ t \in active /\ state[t] = "GROWING" /\ pc[t] = "idle"
        /\ r \notin exclusive[t]
        /\ queue[r] \in SUBSET Request /\ sh \in SUBSET Rids /\ "X" \in Modes
        /\ UNCHANGED <<state, active, outcome>>
    BY <1>3 DEF LockExclusive, MayLock, CanCall, IInv, TypeOK, Modes
  <2>2. ~Waiting(t)
    BY <2>1 DEF Waiting
  <2>3. q \in SUBSET Request
    BY <2>1 DEF AfterUpgrade, WithoutTx
  <2>4. \A u \in Txns, n \in Modes :
            /\ Granted(u, n) \in q <=> (Granted(u, n) \in queue[r] /\ u # t)
            /\ Pending(u, n) \in q <=> (Pending(u, n) \in queue[r] /\ u # t)
    <3> SUFFICES ASSUME NEW u \in Txns, NEW n \in Modes
                 PROVE  /\ Granted(u, n) \in q <=> (Granted(u, n) \in queue[r] /\ u # t)
                        /\ Pending(u, n) \in q <=> (Pending(u, n) \in queue[r] /\ u # t)
      OBVIOUS
    <3>1. CASE r \in shared[t]
      BY <3>1, RequestsDiffer DEF AfterUpgrade, WithoutTx
    <3>2. CASE r \notin shared[t]
      BY <2>1, <2>2, <3>2 DEF AfterUpgrade, IInv, TableAgrees
    <3> QED  BY <3>1, <3>2
  <2>5. CanGrant(q, t, "X") <=> Free(t, r, "X")
    BY <2>1, CanGrantUpgrade DEF IInv
  <2>6. CASE CanGrant(q, t, "X")
    <3>1. Take(t, r, "X", q, sh) /\ UNCHANGED <<pc, wait>>
      BY <1>3, <2>6 DEF LockExclusive
    <3>2. pc' = [pc EXCEPT ![t] = "idle"]
      BY <2>1, <3>1 DEF IInv, TypeOK
    <3> HIDE DEF q
    <3> QED  BY <2>1, <2>2, <2>3, <2>4, <2>5, <2>6, <3>1, <3>2, TakeStep
  <2>7. CASE ~CanGrant(q, t, "X")
    <3>1. Sleep(t, r, "X", q, sh)
      BY <1>3, <2>7 DEF LockExclusive
    <3> HIDE DEF q
    <3> QED  BY <2>1, <2>3, <2>4, <2>5, <2>7, <3>1, SleepStep
  <2> QED  BY <2>6, <2>7
<1>4. ASSUME NEW t \in Txns, WakeGrant(t) PROVE IInv'
  <2> DEFINE r == wait[t].rid
             m == wait[t].mode
             q == queue[r] \ {Pending(t, m)}
  <2>1. /\ Waiting(t) /\ t \in active /\ state[t] = "GROWING"
        /\ r \in Rids /\ m \in Modes /\ wait[t] = [rid |-> r, mode |-> m]
        /\ r \notin shared[t] /\ r \notin exclusive[t]
        /\ UNCHANGED <<state, active, outcome>>
    BY <1>4 DEF WakeGrant, IInv, PhaseOK, Holds
  <2>2. /\ CanGrant(queue[r], t, m) /\ Take(t, r, m, q, shared[t])
        /\ pc' = [pc EXCEPT ![t] = "idle"] /\ wait' = [wait EXCEPT ![t] = NoWait]
    BY <1>4 DEF WakeGrant
  <2> HIDE DEF r, m
  <2>3. Free(t, r, m)
    BY <2>1, <2>2, CanGrantIsFree DEF IInv
  <2>4. q \in SUBSET Request /\ shared[t] \in SUBSET Rids /\ shared[t] = shared[t] \ {r}
    BY <2>1 DEF IInv, TypeOK
  <2>5. \A u \in Txns, n \in Modes :
            /\ Granted(u, n) \in q <=> (Granted(u, n) \in queue[r] /\ u # t)
            /\ Pending(u, n) \in q <=> (Pending(u, n) \in queue[r] /\ u # t)
    <3> SUFFICES ASSUME NEW u \in Txns, NEW n \in Modes
                 PROVE  /\ Granted(u, n) \in q <=> (Granted(u, n) \in queue[r] /\ u # t)
                        /\ Pending(u, n) \in q <=> (Pending(u, n) \in queue[r] /\ u # t)
      OBVIOUS
    <3>1. Granted(u, n) # Pending(t, m)
          /\ (Pending(u, n) = Pending(t, m) <=> (u = t /\ n = m))
      BY <2>1, RequestsDiffer
    <3>2. Granted(t, n) \notin queue[r]
      BY <2>1 DEF IInv, TableAgrees
    <3>3. Pending(t, n) \in queue[r] => [rid |-> r, mode |-> m] = [rid |-> r, mode |-> n]
      BY <2>1 DEF IInv, TableAgrees
    <3> QED  BY <3>1, <3>2, <3>3
  <2> HIDE DEF q
  <2> QED  BY <2>1, <2>2, <2>3, <2>4, <2>5, TakeStep
<1>5. CASE Done
  BY <1>1, <1>5 DEF Done
<1> QED
  BY <1>1, <1>2, <1>3, <1>4, <1>5, LocklessStep, WakeAgainStep, TimeOutStep, UnlockAllStep
  DEF Next, TxNext

-----------------------------------------------------------------------------
(* lock_manager.cpp, manager.cpp: types, lock compatibility, agreement of  *)
(* lock_table_ with the transactions' sets, and strictness up to upgrades  *)
(* are invariants of the lock manager for every set of clients and rows.   *)
THEOREM Invariance == Spec => []IInv
<1>1. Init => IInv
  BY InitIInv
<1>2. IInv /\ [Next]_vars => IInv'
  BY NextIInv
<1> QED  BY <1>1, <1>2, PTL DEF Spec

(* Every variable of the lock manager keeps its type.                      *)
THEOREM TypeCorrect == Spec => []TypeOK
<1>1. IInv => TypeOK
  BY DEF IInv
<1> QED  BY <1>1, Invariance, PTL

(* can_grant never lets two transactions hold one row in conflicting modes.*)
THEOREM LocksCompatible == Spec => []Compatible
<1>1. IInv => Compatible
  BY DEF IInv
<1> QED  BY <1>1, Invariance, PTL

(* lock_table_ and the lock sets of the transactions never drift apart.    *)
THEOREM LockTableAgrees == Spec => []TableAgrees
<1>1. IInv => TableAgrees
  BY DEF IInv
<1> QED  BY <1>1, Invariance, PTL

(* A row that was locked stays locked while its transaction is GROWING,    *)
(* unless that transaction waits for the upgrade of it.                    *)
THEOREM LocksHeld == Spec => []HeldUnlessUpgrading
<1>1. IInv => HeldUnlessUpgrading
  BY DEF IInv
<1> QED  BY <1>1, Invariance, PTL

(* No wakeup is lost: whoever sleeps un-notified cannot be granted, so the *)
(* upgrade that erases a request without notify_all strands nobody.        *)
THEOREM NoWakeupLost == Spec => []NoMissedWakeup
<1>1. IInv => NoMissedWakeup
  <2> SUFFICES ASSUME IInv, NEW t \in Txns, pc[t] = "asleep"
               PROVE  ~CanGrant(queue[wait[t].rid], t, wait[t].mode)
    BY DEF NoMissedWakeup
  <2>1. wait[t].rid \in Rids /\ wait[t].mode \in Modes
    BY DEF IInv, PhaseOK, Waiting
  <2>2. ~Free(t, wait[t].rid, wait[t].mode)
    BY DEF IInv, Blocked
  <2> QED  BY <2>1, <2>2, CanGrantIsFree DEF IInv
<1> QED  BY <1>1, Invariance, PTL

(* A transaction that has been ended leaves no lock and no request behind. *)
THEOREM EndedLeavesNothing == Spec => []NothingLeft
<1>1. IInv => NothingLeft
  <2> SUFFICES ASSUME IInv, NEW t \in Txns, state[t] = "COMMITTED" \/ t \notin active
               PROVE  /\ shared[t] = {} /\ exclusive[t] = {}
                      /\ \A r \in Rids : \A req \in queue[r] : req.tx # t
    BY DEF NothingLeft
  <2>1. shared[t] = {} /\ exclusive[t] = {} /\ ~Waiting(t)
    BY DEF IInv, PhaseOK, Waiting
  <2>2. ASSUME NEW r \in Rids, NEW req \in queue[r], req.tx = t PROVE FALSE
    <3>1. req \in Request
      BY DEF IInv, TypeOK
    <3>2. req = Granted(t, req.mode) \/ req = Pending(t, req.mode)
      BY <2>2, <3>1 DEF Request, Granted, Pending
    <3>3. req.mode \in Modes
      BY <3>1 DEF Request
    <3>4. Granted(t, req.mode) \notin queue[r] /\ Pending(t, req.mode) \notin queue[r]
      BY <2>1, <3>3 DEF IInv, TableAgrees
    <3> QED  BY <3>2, <3>4
  <2> QED  BY <2>1, <2>2
<1> QED  BY <1>1, Invariance, PTL

(* One step of the code is a step of the abstract row locks or leaves the  *)
(* state of the transactions and their lock sets alone.                    *)
LEMMA StepRefines == IInv /\ [Next]_vars => [Locks!Next]_(Locks!lockVars)
<1> SUFFICES ASSUME IInv, [Next]_vars
             PROVE  Locks!Next \/ UNCHANGED <<state, shared, exclusive>>
  BY DEF Locks!lockVars
<1> USE DEF IInv
<1>1. CASE UNCHANGED vars
  BY <1>1 DEF vars
<1>2. ASSUME NEW t \in Txns, NEW r \in Rids, LockShared(t, r)
      PROVE  Locks!GrantShared(t, r) \/ UNCHANGED <<state, shared, exclusive>>
  <2>1. CASE CanGrant(queue[r], t, "S")
    <3>1. Locks!Unwritten(t, r)
      BY <2>1, CanGrantIsFree DEF Free, Modes, Locks!Unwritten
    <3>2. /\ state[t] = "GROWING" /\ UNCHANGED state
          /\ Take(t, r, "S", queue[r], shared[t])
      BY <1>2, <2>1 DEF LockShared, MayLock
    <3>3. exclusive' = exclusive
      BY <3>2 DEF Take, TypeOK
    <3> QED  BY <3>1, <3>2, <3>3 DEF Take, TypeOK, Locks!GrantShared
  <2>2. CASE ~CanGrant(queue[r], t, "S")
    BY <1>2, <2>2 DEF LockShared, Sleep, TypeOK
  <2> QED  BY <2>1, <2>2
<1>3. ASSUME NEW t \in Txns, NEW r \in Rids, LockExclusive(t, r)
      PROVE  \/ Locks!GrantExclusive(t, r) \/ Locks!DropForUpgrade(t, r)
             \/ UNCHANGED <<state, shared, exclusive>>
  <2>1. CanGrant(AfterUpgrade(t, r), t, "X") <=> Locks!Alone(t, r)
    BY CanGrantUpgrade DEF Free, Modes, Locks!Alone
  <2>2. state[t] = "GROWING" /\ UNCHANGED state
    BY <1>3 DEF LockExclusive, MayLock
  <2>3. CASE CanGrant(AfterUpgrade(t, r), t, "X")
    <3>1. Take(t, r, "X", AfterUpgrade(t, r), shared[t] \ {r})
      BY <1>3, <2>3 DEF LockExclusive
    <3> QED  BY <2>1, <2>2, <2>3, <3>1 DEF Take, TypeOK, Locks!GrantExclusive
  <2>4. CASE ~CanGrant(AfterUpgrade(t, r), t, "X")
    <3>1. Sleep(t, r, "X", AfterUpgrade(t, r), shared[t] \ {r})
      BY <1>3, <2>4 DEF LockExclusive
    <3>2. CASE r \in shared[t]
      BY <2>1, <2>2, <2>4, <3>1, <3>2 DEF Sleep, TypeOK, Locks!DropForUpgrade
    <3>3. CASE r \notin shared[t]
      BY <2>2, <3>1, <3>3 DEF Sleep, TypeOK
    <3> QED  BY <3>2, <3>3
  <2> QED  BY <2>3, <2>4
<1>4. ASSUME NEW t \in Txns, WakeGrant(t)
      PROVE  \E r \in Rids : Locks!GrantShared(t, r) \/ Locks!GrantExclusive(t, r)
  <2> DEFINE r == wait[t].rid
             m == wait[t].mode
             q == queue[r] \ {Pending(t, m)}
  <2>1. /\ r \in Rids /\ m \in Modes /\ state[t] = "GROWING" /\ UNCHANGED state
        /\ r \notin shared[t]
    BY <1>4 DEF WakeGrant, PhaseOK, Holds
  <2>2. CanGrant(queue[r], t, m) /\ Take(t, r, m, q, shared[t])
    BY <1>4 DEF WakeGrant
  <2> HIDE DEF r, m, q
  <2>3. Free(t, r, m)
    BY <2>1, <2>2, CanGrantIsFree
  <2>4. CASE m = "S"
    <3>1. Locks!Unwritten(t, r)
      BY <2>3 DEF Free, Locks!Unwritten
    <3>2. Locks!GrantShared(t, r)
      BY <2>1, <2>2, <2>4, <3>1 DEF Take, TypeOK, Locks!GrantShared
    <3> QED  BY <2>1, <3>2
  <2>5. CASE m = "X"
    <3>1. Locks!Alone(t, r)
      BY <2>3, <2>5 DEF Free, Locks!Alone
    <3>2. Locks!GrantExclusive(t, r)
      BY <2>1, <2>2, <2>5, <3>1 DEF Take, TypeOK, Locks!GrantExclusive
    <3> QED  BY <2>1, <3>2
  <2> QED  BY <2>1, <2>4, <2>5 DEF Modes
<1>5. ASSUME NEW t \in Txns, TimeOut(t) PROVE Locks!Refuse(t)
  BY <1>5 DEF TimeOut, PhaseOK, Locks!Refuse
<1>6. ASSUME NEW t \in Txns, Commit(t) \/ Abort(t) PROVE Locks!Shrink(t)
  BY <1>6 DEF Commit, Abort, Finish, CanCall, TypeOK, PhaseOK, Locks!Shrink
<1>7. ASSUME NEW t \in Txns, UnlockAll(t) PROVE Locks!ReleaseAll(t)
  BY <1>7 DEF UnlockAll, PhaseOK, Locks!ReleaseAll
<1>8. ASSUME NEW t \in Txns, Settle(t) PROVE Locks!End(t)
  BY <1>8 DEF Settle, PhaseOK, Ended, Locks!End
<1>9. ASSUME NEW t \in Txns, Begin(t) PROVE Locks!Begin(t)
  BY <1>9 DEF Begin, Locks!Begin
<1>10. ASSUME NEW t \in Txns, WakeAgain(t) \/ EraseActive(t)
       PROVE  UNCHANGED <<state, shared, exclusive>>
  BY <1>10 DEF WakeAgain, EraseActive
<1>11. CASE Done
  BY <1>11 DEF Done, vars
<1> QED
  BY <1>1, <1>2, <1>3, <1>4, <1>5, <1>6, <1>7, <1>8, <1>9, <1>10, <1>11
  DEF Next, TxNext, Locks!Next

(* LockManager and TransactionManager implement the abstract row locks.    *)
THEOREM Refinement == Spec => ImplementsRowLocks
<1>1. Init => Locks!Init
  BY DEF Init, Locks!Init
<1>2. IInv /\ [Next]_vars => [Locks!Next]_(Locks!lockVars)
  BY StepRefines
<1> QED  BY <1>1, <1>2, Invariance, PTL DEF Spec, ImplementsRowLocks, Locks!Spec

(* Two phases: after commit, abort or a timeout a transaction gains no     *)
(* lock.                                                                   *)
THEOREM TwoPhases == Spec => TwoPhase
<1> DEFINE A == \A t \in Txns :
                   state[t] # "GROWING" =>
                       /\ shared'[t] \subseteq shared[t]
                       /\ exclusive'[t] \subseteq exclusive[t]
<1>1. IInv /\ [Next]_vars => [A]_vars
  <2> SUFFICES ASSUME IInv, [Next]_vars, NEW t \in Txns, state[t] # "GROWING"
               PROVE  shared'[t] \subseteq shared[t] /\ exclusive'[t] \subseteq exclusive[t]
    OBVIOUS
  <2>1. Locks!Next \/ UNCHANGED <<state, shared, exclusive>>
    BY StepRefines DEF Locks!lockVars
  <2>2. CASE UNCHANGED <<state, shared, exclusive>>
    BY <2>2
  <2>3. ASSUME NEW u \in Txns, NEW r \in Rids,
               \/ Locks!GrantShared(u, r) \/ Locks!GrantExclusive(u, r)
               \/ Locks!DropForUpgrade(u, r)
        PROVE  shared'[t] = shared[t] /\ exclusive'[t] = exclusive[t]
    BY <2>3 DEF IInv, TypeOK, Locks!GrantShared, Locks!GrantExclusive, Locks!DropForUpgrade
  <2>4. ASSUME NEW u \in Txns, Locks!ReleaseAll(u)
        PROVE  shared'[t] \subseteq shared[t] /\ exclusive'[t] \subseteq exclusive[t]
    BY <2>4 DEF IInv, TypeOK, Locks!ReleaseAll
  <2>5. ASSUME NEW u \in Txns,
               Locks!Begin(u) \/ Locks!Refuse(u) \/ Locks!Shrink(u) \/ Locks!End(u)
        PROVE  UNCHANGED <<shared, exclusive>>
    BY <2>5 DEF Locks!Begin, Locks!Refuse, Locks!Shrink, Locks!End
  <2> QED  BY <2>1, <2>2, <2>3, <2>4, <2>5 DEF Locks!Next
<1> QED  BY <1>1, Invariance, PTL DEF Spec, TwoPhase

=============================================================================
