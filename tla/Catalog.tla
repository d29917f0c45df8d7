------------------------------ MODULE Catalog ------------------------------
(***************************************************************************)
(* Catalog: the map of tables in memory and the catalog rows behind it,    *)
(* used by transactions that create, look up, list and drop tables, and    *)
(* by callers without a transaction.                                       *)
(*                                                                         *)
(* The map is guarded by latch_.  create_table has it from its beginning   *)
(* to its end, also while it waits for the lock on the row it has written; *)
(* get_table, drop_table and all_tables look the row up, give latch_ back, *)
(* lock the row, take latch_ again and look whether the table is still     *)
(* the same.  The locks are those of RowLocks, which LockManager           *)
(* implements.  A table is its name and the row of its catalog entry.      *)
(***************************************************************************)
EXTENDS Naturals, Sequences, FiniteSets

CONSTANTS
    Txns,      \* transactions
    Names,     \* table names
    RowCount,  \* slots of the catalog's heap
    None,      \* no table, no row, nobody
    PageCount, \* pages the tables may have
    MaxCalls,  \* bound on the calls of a transaction
    MaxAuto,   \* bound on the calls without a transaction
    MaxFaults  \* bound on the pages that cannot be read or deleted

ASSUME CatalogAssumption ==
    /\ RowCount \in Nat \ {0} /\ PageCount \in Nat
    /\ MaxCalls \in Nat /\ MaxAuto \in Nat /\ MaxFaults \in Nat
    /\ None \notin Txns \cup Names \cup Nat

Rids == 1 .. RowCount
Pages == 1 .. PageCount

VARIABLES
    state, shared, exclusive,  \* as in RowLocks
    tables,   \* tables_: the row of a table's entry, or None
    rows,     \* the catalog table: the name in every row, or None
    first,    \* first_page_id_ of a table's heap, or None
    used,     \* pages that are allocated
    leaks,    \* history: pages given up by a failed creation or while pinned
    faults,   \* pages that could not be read or deleted
    kept,     \* history: rows left behind because their page was not read
    latch,    \* the transaction that has latch_ exclusively across a wait
    log,      \* undo_log_: rows to delete and names to drop
    todo,     \* undo records abort has still to run
    pc,       \* where the call of a transaction is
    want,     \* tables it has still to lock: pairs of name and row
    seen,     \* tables it will look up again once it has locked them
    calls,    \* calls made by a transaction
    autos,    \* calls made without a transaction
    broken,   \* history: a drop ignored a lock or could not read the pages
    dropped,  \* history: the transaction has dropped a table
    got       \* history: tables a transaction was given, until it ends

lockVars == <<state, shared, exclusive>>
autoVars == <<autos, broken, kept>>
pageVars == <<first, used, leaks, faults>>
vars == <<lockVars, tables, rows, latch, log, todo, pc, want, seen,
          calls, dropped, got, autoVars, pageVars>>

Locks == INSTANCE RowLocks

RowUndo(r) == [undo |-> "row", arg |-> r]
TableUndo(n) == [undo |-> "table", arg |-> n]

(* The slot TableHeap::insert_tuple takes: the first free one.             *)
FreeRows == {r \in Rids : rows[r] = None}

(* Mutant: a slot that is taken.                                           *)
FirstSlot == CHOOSE r \in Rids : \A s \in Rids : r <= s

FirstFree == CHOOSE r \in FreeRows : \A s \in FreeRows : r <= s

LatchFree == latch = None

Entries == {<<n, tables[n]>> : n \in {m \in Names : tables[m] # None}}

(* load_existing_tables at the next start: tables_[name] = entry for every *)
(* row in the order of the scan, so the last row with a name decides.      *)
RowsOf(n) == {r \in Rids : rows[r] = n}

Last(R) == IF R = {} THEN None ELSE CHOOSE r \in R : \A s \in R : s <= r

Loaded == [n \in Names |-> Last(RowsOf(n))]

(* TableHeap::create: the first page of a new table.                       *)
NewHeap(n) ==
    /\ used # Pages
    /\ LET p == CHOOSE p \in Pages \ used : \A q \in Pages \ used : p <= q
       IN  used' = used \cup {p} /\ first' = [first EXCEPT ![n] = p]
    /\ UNCHANGED <<leaks, faults>>

(* A creation that fails before its entry is written loses the page it has *)
(* allocated: the pool has no frame for it; the entry is too long; or the  *)
(* pool refuses the catalog's page, or the next one, allocated as well.    *)
LosesPages ==
    /\ \E lost \in SUBSET (Pages \ used) :
         /\ Cardinality(lost) \in 1 .. 2
         /\ \A p \in lost, q \in Pages \ (used \cup lost) : p <= q
         /\ used' = used \cup lost
         /\ leaks' = leaks + Cardinality(lost)
    /\ UNCHANGED <<first, faults>>

Fault == faults < MaxFaults /\ faults' = faults + 1

(* Mutant: the pages of a dropped table stay allocated.                    *)
DropPagesNot(n) ==
    /\ first' = [first EXCEPT ![n] = None]
    /\ UNCHANGED <<used, leaks, faults>>

(* Table::drop_pages: the page is deleted, or is left because it is pinned.*)
DropPages(n) ==
    /\ first' = [first EXCEPT ![n] = None]
    /\ \/ used' = used \ {first[n]} /\ UNCHANGED <<leaks, faults>>
       \/ Fault /\ leaks' = leaks + 1 /\ UNCHANGED used

(* A page cannot be fetched: READ_PAGES_FAILED, or no row is deleted.      *)
PagesUnread == Fault /\ UNCHANGED <<first, used, leaks>>

(* Mutant: a row is not deleted although its page was read.                *)
DeletedRowNot(r) == rows

DeletedRow(r) == [rows EXCEPT ![r] = None]

(* TableHeap::delete_tuple where nobody looks at what it returns: it is    *)
(* false, and the row stays, if the page of the row cannot be fetched.     *)
DeleteRow(r) ==
    \/ rows' = DeletedRow(r) /\ UNCHANGED <<faults, kept>>
    \/ Fault /\ kept' = kept \cup {r} /\ UNCHANGED rows

Goto(t, where) == pc' = [pc EXCEPT ![t] = where]

-----------------------------------------------------------------------------
Init ==
    /\ Locks!Init
    /\ tables = [n \in Names |-> None]
    /\ rows = [r \in Rids |-> None]
    /\ first = [n \in Names |-> None] /\ used = {} /\ leaks = 0 /\ faults = 0
    /\ latch = None
    /\ log = [t \in Txns |-> <<>>] /\ todo = [t \in Txns |-> 0]
    /\ pc = [t \in Txns |-> "idle"]
    /\ want = [t \in Txns |-> {}] /\ seen = [t \in Txns |-> {}]
    /\ calls = [t \in Txns |-> 0] /\ autos = 0 /\ broken = FALSE /\ kept = {}
    /\ dropped = [t \in Txns |-> FALSE]
    /\ got = [t \in Txns |-> {}]

Begin(t) ==
    /\ Locks!Begin(t)
    /\ UNCHANGED <<tables, rows, latch, log, todo, pc, want, seen, calls, dropped, got, autoVars, pageVars>>

Calling(t) ==
    /\ pc[t] = "idle" /\ state[t] \in {"GROWING", "ABORTED"}
    /\ calls[t] < MaxCalls
    /\ LatchFree
    /\ calls' = [calls EXCEPT ![t] = @ + 1]

(* create_table: a name that is taken throws; otherwise the entry is       *)
(* written, and its row still has to be locked.                            *)
CreateTable(t, n) ==
    /\ Calling(t)
    /\ tables[n] = None /\ FreeRows # {}
    /\ rows' = [rows EXCEPT ![FirstFree] = n]
    /\ NewHeap(n)
    /\ want' = [want EXCEPT ![t] = {<<n, FirstFree>>}]
    /\ latch' = t
    /\ Goto(t, "create")
    /\ UNCHANGED <<lockVars, tables, log, todo, seen, dropped, got, autoVars>>

(* It throws before that, and has made a page already.                     *)
CreateFails(t) ==
    /\ Calling(t)
    /\ LosesPages
    /\ UNCHANGED <<lockVars, tables, rows, latch, log, todo, pc, want, seen, dropped, got, autoVars>>

AutoCall ==
    /\ autos < MaxAuto
    /\ LatchFree
    /\ autos' = autos + 1

(* The same without a transaction.                                         *)
CreateTableAuto(n) ==
    /\ AutoCall
    /\ tables[n] = None /\ FreeRows # {}
    /\ rows' = [rows EXCEPT ![FirstFree] = n]
    /\ NewHeap(n)
    /\ tables' = [tables EXCEPT ![n] = FirstFree]
    /\ UNCHANGED <<lockVars, latch, log, todo, pc, want, seen, calls, dropped, got, broken, kept>>

CreateFailsAuto ==
    /\ AutoCall
    /\ LosesPages
    /\ UNCHANGED <<lockVars, tables, rows, latch, log, todo, pc, want, seen, calls, dropped, got, broken, kept>>

(* The first phase of drop_table, get_table and all_tables: what are the   *)
(* rows?  A transaction that drops a table has no more use for the Table   *)
(* it was given before.                                                    *)
DropTable(t, n) ==
    /\ Calling(t)
    /\ tables[n] # None
    /\ want' = [want EXCEPT ![t] = {<<n, tables[n]>>}]
    /\ seen' = [seen EXCEPT ![t] = {<<n, tables[n]>>}]
    /\ got' = [got EXCEPT ![t] = {e \in @ : e[1] # n}]
    /\ Goto(t, "drop")
    /\ UNCHANGED <<lockVars, tables, rows, latch, log, todo, dropped, autoVars, pageVars>>

LookUp(t, es) ==
    /\ Calling(t)
    /\ es # {}
    /\ want' = [want EXCEPT ![t] = es]
    /\ seen' = [seen EXCEPT ![t] = es]
    /\ Goto(t, "look")
    /\ UNCHANGED <<lockVars, tables, rows, latch, log, todo, dropped, got, autoVars, pageVars>>

GetTable(t, n) == LookUp(t, {e \in Entries : e[1] = n})

AllTables(t) == LookUp(t, Entries)

(* lock_exclusive and lock_shared on the row of an entry.                  *)
Exclusively(t) == pc[t] \in {"create", "drop"}

Grant(t, r) ==
    /\ state[t] = "GROWING"
    /\ IF Exclusively(t)
       THEN IF r \in exclusive[t] THEN UNCHANGED lockVars ELSE Locks!GrantExclusive(t, r)
       ELSE IF r \in shared[t] \cup exclusive[t] THEN UNCHANGED lockVars
            ELSE Locks!GrantShared(t, r)

Refused(t, r) ==
    \/ state[t] = "ABORTED" /\ UNCHANGED lockVars
    \/ /\ r \notin exclusive[t]
       /\ IF Exclusively(t) THEN ~Locks!Alone(t, r) ELSE ~Locks!Unwritten(t, r)
       /\ Locks!Refuse(t)

(* Mutant: the row of the new entry is not locked.                         *)
CreateUnlocked(t) ==
    /\ pc[t] = "create"
    /\ \E e \in want[t] :
         /\ tables' = [tables EXCEPT ![e[1]] = e[2]]
         /\ log' = [log EXCEPT ![t] = @ \o <<RowUndo(e[2]), TableUndo(e[1])>>]
    /\ want' = [want EXCEPT ![t] = {}]
    /\ latch' = None
    /\ Goto(t, "idle")
    /\ UNCHANGED <<lockVars, rows, todo, seen, calls, dropped, got, autoVars, pageVars>>

(* create_table has its row's lock: the table enters the map.              *)
CreateLocked(t) ==
    /\ pc[t] = "create"
    /\ \E e \in want[t] :
         /\ Grant(t, e[2])
         /\ tables' = [tables EXCEPT ![e[1]] = e[2]]
         /\ log' = [log EXCEPT ![t] = @ \o <<RowUndo(e[2]), TableUndo(e[1])>>]
    /\ want' = [want EXCEPT ![t] = {}]
    /\ latch' = None
    /\ Goto(t, "idle")
    /\ UNCHANGED <<rows, todo, seen, calls, dropped, got, autoVars, pageVars>>

(* The exception gives the new heap up, but not its page.                  *)
GiveUpHeap(n) ==
    /\ first' = [first EXCEPT ![n] = None]
    /\ leaks' = leaks + 1
    /\ UNCHANGED used

(* Mutant: the exception leaves latch_ locked.                             *)
CreateRefusedLatched(t) ==
    /\ pc[t] = "create"
    /\ \E e \in want[t] :
         /\ Refused(t, e[2])
         /\ DeleteRow(e[2])
         /\ GiveUpHeap(e[1])
    /\ want' = [want EXCEPT ![t] = {}]
    /\ Goto(t, "idle")
    /\ UNCHANGED <<tables, latch, log, todo, seen, calls, dropped, got, autos, broken>>

(* It does not get the lock: insert_tuple takes the row back, create_table *)
(* throws.                                                                 *)
CreateRefused(t) ==
    /\ pc[t] = "create"
    /\ \E e \in want[t] :
         /\ Refused(t, e[2])
         /\ DeleteRow(e[2])
         /\ GiveUpHeap(e[1])
    /\ want' = [want EXCEPT ![t] = {}]
    /\ latch' = None
    /\ Goto(t, "idle")
    /\ UNCHANGED <<tables, log, todo, seen, calls, dropped, got, autos, broken>>

(* The others lock one row after the other ...                             *)
LockRow(t) ==
    /\ pc[t] \in {"drop", "look"}
    /\ \E e \in want[t] :
         /\ Grant(t, e[2])
         /\ want' = [want EXCEPT ![t] = @ \ {e}]
    /\ UNCHANGED <<tables, rows, latch, log, todo, pc, seen, calls, dropped, got, autoVars, pageVars>>

LockUpgrade(t) ==
    /\ pc[t] = "drop"
    /\ \E e \in want[t] : Locks!DropForUpgrade(t, e[2])
    /\ UNCHANGED <<tables, rows, latch, log, todo, pc, want, seen, calls, dropped, got, autoVars, pageVars>>

LockRefused(t) ==
    /\ pc[t] \in {"drop", "look"}
    /\ \E e \in want[t] : Refused(t, e[2])
    /\ want' = [want EXCEPT ![t] = {}]
    /\ seen' = [seen EXCEPT ![t] = {}]
    /\ Goto(t, "idle")
    /\ UNCHANGED <<tables, rows, latch, log, todo, calls, dropped, got, autoVars, pageVars>>

Locked(t, where) == pc[t] = where /\ want[t] = {} /\ LatchFree

(* Mutant: the map is not looked at a second time.                         *)
UnchangedAssumed(t) == TRUE

(* ... and then look whether the tables are still where they were.         *)
Unchanged(t) == seen[t] \subseteq Entries

LookDone(t) ==
    /\ Locked(t, "look")
    /\ got' = [got EXCEPT ![t] = @ \cup (IF Unchanged(t) THEN seen[t] ELSE {})]
    /\ seen' = [seen EXCEPT ![t] = {}]
    /\ Goto(t, "idle")
    /\ UNCHANGED <<lockVars, tables, rows, latch, log, todo, want, calls, dropped, autoVars, pageVars>>

(* tables_.erase.                                                          *)
Erased(n) == [tables EXCEPT ![n] = None]

(* The rest of drop_table, once the row is deleted: if a page cannot be    *)
(* read it throws, and the table stays in the map.                         *)
Dropping(n, breaks) ==
    \/ DropPages(n) /\ tables' = Erased(n) /\ broken' = (broken \/ breaks)
    \/ PagesUnread /\ UNCHANGED tables /\ broken' = TRUE

(* drop_table deletes the row without the transaction: there is no undo.   *)
(* If the row is not there, or its page cannot be read, nothing happens.   *)
DropDone(t) ==
    /\ Locked(t, "drop")
    /\ \E e \in seen[t] :
         \/ IF Unchanged(t) /\ rows[e[2]] # None THEN
                 /\ rows' = DeletedRow(e[2])
                 /\ Dropping(e[1], FALSE)
                 /\ dropped' = [dropped EXCEPT ![t] = TRUE]
            ELSE UNCHANGED <<rows, tables, dropped, pageVars, broken>>
         \/ Unchanged(t) /\ PagesUnread /\ UNCHANGED <<rows, tables, dropped, broken>>
    /\ seen' = [seen EXCEPT ![t] = {}]
    /\ Goto(t, "idle")
    /\ UNCHANGED <<lockVars, latch, log, todo, want, calls, got, autos, kept>>

(* Database::drop_table: no transaction, no lock.  Nothing keeps it from   *)
(* dropping a table that a transaction uses.                               *)
DropTableAuto(n) ==
    /\ AutoCall
    /\ tables[n] # None /\ rows[tables[n]] # None
    /\ \/ /\ rows' = DeletedRow(tables[n])
          /\ Dropping(n, \E t \in Txns : tables[n] \in shared[t] \cup exclusive[t])
       \/ PagesUnread /\ UNCHANGED <<rows, tables, broken>>
    /\ UNCHANGED <<lockVars, latch, log, todo, pc, want, seen, calls, dropped, got, kept>>

-----------------------------------------------------------------------------
Commit(t) ==
    /\ pc[t] = "idle" /\ Locks!Shrink(t)
    /\ Goto(t, "unlock")
    /\ got' = [got EXCEPT ![t] = {}]
    /\ UNCHANGED <<tables, rows, latch, log, todo, want, seen, calls, dropped, autoVars, pageVars>>

(* README.md:22: a transaction that has dropped a table is commit-only.    *)
Abort(t) ==
    /\ pc[t] = "idle" /\ ~dropped[t] /\ Locks!Shrink(t)
    /\ todo' = [todo EXCEPT ![t] = Len(log[t])]
    /\ Goto(t, "undo")
    /\ got' = [got EXCEPT ![t] = {}]
    /\ UNCHANGED <<tables, rows, latch, log, want, seen, calls, dropped, autoVars, pageVars>>

Record(t) == log[t][todo[t]]

(* rollback_create_table, with its assertion.                              *)
Rollback(t) == pc[t] = "undo" /\ todo[t] > 0 /\ Record(t).undo = "table"

UndoTable(t) ==
    /\ Rollback(t) /\ LatchFree
    /\ tables[Record(t).arg] # None
    /\ DropPages(Record(t).arg)
    /\ tables' = Erased(Record(t).arg)
    /\ todo' = [todo EXCEPT ![t] = @ - 1]
    /\ UNCHANGED <<lockVars, rows, latch, log, pc, want, seen, calls, dropped, got, autoVars>>

(* The exception leaves abort: the rest is not undone, the locks stay.     *)
UndoTableFails(t) ==
    /\ Rollback(t) /\ LatchFree
    /\ tables[Record(t).arg] # None
    /\ PagesUnread
    /\ broken' = TRUE
    /\ Goto(t, "failed")
    /\ UNCHANGED <<lockVars, tables, rows, latch, log, todo, want, seen, calls, dropped, got, autos, kept>>

(* DeleteUndoRecord on the catalog table: abort goes on if the row stays.  *)
UndoRow(t) ==
    /\ pc[t] = "undo" /\ todo[t] > 0 /\ Record(t).undo = "row"
    /\ DeleteRow(Record(t).arg)
    /\ todo' = [todo EXCEPT ![t] = @ - 1]
    /\ UNCHANGED <<lockVars, tables, latch, log, pc, want, seen, calls, dropped, got, autos, broken, first, used, leaks>>

Unlock(t) ==
    /\ pc[t] = "unlock" \/ (pc[t] = "undo" /\ todo[t] = 0)
    /\ Locks!ReleaseAll(t)
    /\ Goto(t, IF pc[t] = "unlock" THEN "committed" ELSE "aborted")
    /\ UNCHANGED <<tables, rows, latch, log, todo, want, seen, calls, dropped, got, autoVars, pageVars>>

End(t) ==
    /\ pc[t] \in {"committed", "aborted"}
    /\ Locks!End(t)
    /\ state'[t] = (IF pc[t] = "committed" THEN "COMMITTED" ELSE "ABORTED")
    /\ Goto(t, "done")
    /\ UNCHANGED <<tables, rows, latch, log, todo, want, seen, calls, dropped, got, autoVars, pageVars>>

CallStep(t) ==
    \/ CreateLocked(t) \/ CreateRefused(t)
    \/ LockRow(t) \/ LockUpgrade(t) \/ LockRefused(t)
    \/ LookDone(t) \/ DropDone(t)
    \/ UndoTable(t) \/ UndoTableFails(t) \/ UndoRow(t) \/ Unlock(t) \/ End(t)

Next ==
    \/ \E t \in Txns :
          \/ Begin(t) \/ AllTables(t) \/ CreateFails(t)
          \/ \E n \in Names : CreateTable(t, n) \/ GetTable(t, n) \/ DropTable(t, n)
          \/ CallStep(t) \/ Commit(t) \/ Abort(t)
    \/ \E n \in Names : CreateTableAuto(n) \/ DropTableAuto(n)
    \/ CreateFailsAuto

Spec == Init /\ [][Next]_vars

(* A thread that can go on does so; a wait for a row ends with a grant or  *)
(* after a second.  No fairness of latch_ is assumed.                      *)
FairSpec == Spec /\ \A t \in Txns : WF_vars(CallStep(t))

-----------------------------------------------------------------------------
(* Every table in the map has its first page, of its own and allocated;    *)
(* and every page that is allocated is a table's, or of a creation under   *)
(* way, or one of the leaks the code accepts: the pages of a creation that *)
(* failed after it had allocated them (catalog.cpp:50-57), for want of a   *)
(* frame, because of its entry, or refused its lock, and a page that was   *)
(* pinned during a drop.  Nothing else that drops, rollbacks and failures  *)
(* do to each other loses a page or gives it to two tables.                *)
PagesKept ==
    LET owned == {first[n] : n \in Names} \ {None}
    IN  /\ \A n \in Names : tables[n] # None => first[n] \in used
        /\ \A m, n \in Names : m # n /\ first[m] # None => first[m] # first[n]
        /\ Cardinality(used \ owned) = leaks

(* What follows is promised as long as Database::drop_table, which asks    *)
(* for no lock, has dropped no table that a transaction had locked, and no *)
(* drop was left half done because a page could not be read.               *)

(* Every table in the map has its entry in its row, while others roll      *)
(* back, drop and reuse rows: no table vanishes at the next start.         *)
MapBacked ==
    broken \/ \A n \in Names : tables[n] # None => rows[tables[n]] = n

(* With no transaction under way, load_existing_tables would find exactly  *)
(* the tables that are in the map, each once, and the rows that table.cpp: *)
(* 28 or undo.cpp:12 left behind: as long as there are none of those, the  *)
(* map after a restart is the map before it.                               *)
RestartSame ==
    (\A t \in Txns : (pc[t] = "idle" /\ log[t] = <<>>) \/ pc[t] = "done") =>
        \/ broken
        \/ /\ \A n \in Names : RowsOf(n) \ kept = {tables[n]} \ {None}
           /\ kept = {} => Loaded = tables

(* README.md:15 "The catalog metadata lock acquired during binding remains *)
(* held by the transaction while the query executes": a table that was     *)
(* returned to a transaction is not dropped under it.                      *)
UsedTableStays ==
    broken \/ \A t \in Txns : state[t] = "GROWING" => got[t] \subseteq Entries

(* catalog.cpp:120: the table whose creation is rolled back is in the map. *)
RollbackFindsTable ==
    broken \/ \A t \in Txns : Rollback(t) => tables[Record(t).arg] # None

(* Every call returns, although create_table waits for a row with latch_   *)
(* in its hand and whoever has the row may need latch_ to give it back.    *)
CallsReturn ==
    \A t \in Txns : pc[t] \in {"create", "drop", "look", "undo"} ~>
                       broken \/ pc[t] \notin {"create", "drop", "look", "undo"}
=============================================================================
