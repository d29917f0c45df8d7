# A TLA+ specification of Duck Duck DBMS

This directory specifies the storage, buffer, tuple, table, transaction,
catalog, query and execution layers of Duck Duck DBMS in TLA+, checks the specifications with TLC
on small instances, and proves the safety properties of the lock manager, the
buffer pool, the disk manager, the page, the codec of rows and schemas, the
comparison of values, the heap, the tables and the catalog, and two
refinements, with TLAPS for instances of any size. `PROJECT.json` lists
components, runs, mutants, the source lines every definition stands for,
hazards, findings and theorems. Source paths below are relative to `src/`.

    tlc -workers 2 -config LockManager.cfg MCLockManager     # any run
    tlapm LockManagerProofs.tla                              # any proof module

## 1. The system

Duck is a library (C++23). Threads of one process share a `Database`; the
layers call each other downwards only. There are no background threads, no
write-ahead log and no network: what makes it hard is that client threads run
concurrently through all layers, with a latch of its own in each, and that the
file is consistent only after a clean shutdown.

| component | state | operations | latches and waits |
|---|---|---|---|
| `DiskManager` | `capacity_`, `free_list_`, the file with its metadata page | open, `allocate_page`, `deallocate_page`, `read_page`, `write_page`, `flush_all` | `free_list_mutex`; `capacity_` is atomic |
| `BufferPoolManager`, `BufferReplacer`, `Page`, `PinnedPage` | page table, MRU list, free frames; per frame page id, pin count, dirty bit, data | `new_page`, `fetch_page`, `delete_page`, `unpin_page`, `flush_all` | `latch_` (shared mutex), one latch per frame |
| `SlottedPage` | slot array, free space offset, bytes | insert, update in place, delete, restore, compact | the caller's frame latch |
| `TableHeap`, `TableHeap::Scan` | the chain of pages; a scan's page and RID | insert with growth of the chain, get, update, delete, restore, scan, `all_pages`, `drop_page` | frame latches, one page at a time |
| `Table`, `Table::Scan`, undo records | none of its own | insert, get, update, delete, scan with row locks and undo records | waits for row locks without any latch |
| `LockManager`, `TransactionManager`, `Transaction` | request queue per row; lock sets, state and undo log per transaction | begin, `lock_shared`, `lock_exclusive` (upgrade), `unlock_all`, commit, abort | one `latch_`, a condition variable per row, one-second deadline |
| `Catalog`, `Database` | map of tables, catalog rows | create, drop, get, list tables, rollback of a creation, loading | `latch_` (shared mutex), row locks on catalog rows |
| `Binder`, planner, optimizer | none | names to columns, plan rewriting | the catalog's |
| `Executor`, operators, expressions | join blocks and positions, limit counters | `init`, `next`, `reset`, `evaluate` | the scan's row locks |
| `Value`, `Tuple`, `Schema`, `Column` | none | serialize, deserialize | none |
| SQL lexer, `main` | none | declarations and a demonstration | none |

Where it is hard, and which property would notice:

* **Row locks.** An upgrade gives its shared lock up, notifies nobody and waits;
  a missed notification shows only as a spurious timeout; a timed-out
  transaction keeps its locks; queue and lock sets are changed in different
  places (`NoMissedWakeup`, `HeldUnlessUpgrading`, `TableAgrees`,
  `NothingLeft`, `TransactionEnds`).
* **Buffer pool.** `fetch_page` gives `latch_` back between its look-up and the
  load; the read happens outside `latch_`; `unpin_page` takes a frame latch
  with `latch_` in its hand; pin counts are unsigned (`HandlesValid`,
  `PinsCounted`, `NoLostWrite`, `CallsReturn`).
* **File.** The header is written at shutdown only; a crash leaves it old,
  and one between its two writes leaves it torn (`IdsUnowned`, `StableKept`).
* **Heap.** Two inserters grow the chain at once; a scan lets go of the page
  between two pages (`ChainIntact`, `NoPageLeaked`, `ScanComplete`).
* **Transactions on tables.** The RID of an insert is known after the write, so
  the lock comes second; an update may move its tuple; undo runs backwards over
  rows others want (`UndoLocked`, `CommittedRows`, `RestoreFits`,
  `LockedRowsStay`).
* **Catalog.** Look up, wait, look again; `create_table` waits for a row lock
  with `latch_` held; creation, drop and rollback can fail half way, with the
  pages of the table in nobody's hands (`UsedTableStays`, `MapBacked`,
  `PagesKept`, `CallsReturn`).
* **Page and codec.** Deletes, restores and compactions in any order; a null
  bitmap, offsets that depend on all columns before, 16-bit lengths
  (`Layout`, `EmptyPageAccepts`, `RowsRoundTrip`, `SchemaRoundTrip`).
* **Queries.** A column is an offset plus an index by the time a predicate reads
  it; the right side of a join is reset for every left block, with everything
  below it; three-valued logic; numbers of different types; a lock that is
  refused looks like the end of a table (`ResultCorrect`, `OrderAgrees`).

`PROJECT.json` has the complete list of hazards, each at its line.

## 2. The modules

    RowLocks  <---implements---  LockManager  <--- LockManagerProofs
       ^  ^
       |  +---- instantiated by Catalog
       +------- instantiated by TxTable
    SlotMap   <---implements---  TablePage  <--- TablePageProofs
                                 (extends SlottedPage and TupleCodec)
    Values <--- TupleCodec
    Values <--- Comparisons <--- Expressions <--- Binder <--- Query
    TupleCodec, Comparisons <--- ValueProofs <--- TablePageProofs
    BufferPool <--- BufferPoolProofs
    DiskManager, TableHeap, TxTable, Catalog  <---  DiskManagerProofs,
                        TableHeapProofs, TxTableProofs, CatalogProofs

`<---` is EXTENDS. The proof modules add no variables and no actions.

| module | stands for | what a step is |
|---|---|---|
| `RowLocks` | what the transaction layer promises upwards | a grant, a refusal, an upgrade that lets go, a release |
| `LockManager` | `lock_manager.cpp`, `manager.cpp`, `transaction.hpp` | a call up to its wait; each time a sleeper gets `latch_` back; each of the three parts of commit and abort |
| `BufferPool` | `pool_manager.cpp`, `replacer.cpp`, `page.hpp`, `pinned_page.hpp`, and the client's pin–latch–use–unlatch–unpin | the part of a call between two latch operations |
| `DiskManager` | `disk_manager.cpp` | a section under the mutex, an atomic operation, each of the two writes of `flush_all`, a crash |
| `SlotMap`, `SlottedPage` | `slotted_page.cpp`: abstract slots and the bytes | one operation; the caller has the page latched |
| `Values` | `value.cpp`: types, widths, bytes of a value | operators only |
| `TupleCodec` | `tuple.cpp`, `schema.cpp`, `column.cpp` | operators only |
| `TablePage` | a page of `Table`: rows through `Tuple` on the bytes of a page | a step of `SlottedPage` |
| `TableHeap` | `table_heap.cpp` (insert, delete, scan) | what happens between latching and unlatching one page |
| `TxTable` | `table.cpp`, `undo.cpp`, `transaction.cpp`, update and restore of `table_heap.cpp` | a lock, a read, a change of one page, one undo record |
| `Catalog` | `catalog.cpp`, `database.cpp`, `Table::drop_pages`, `TableHeap::create` and `all_pages` | a section under `latch_`, a row lock, one undo record |
| `Comparisons` | `comparison.cpp` | operators only |
| `Expressions` | `logical.cpp`, `expression/column.cpp`, `constant.cpp` | operators only |
| `Binder` | `binder.cpp`, `select_query.cpp`, `query/expression.hpp`, the plan nodes, `optimizer.cpp`, `Executor::build` | operators only |
| `Query` | `query_engine.cpp`, `query_result.cpp`, the operators | a call of `execute`, `next` or `reset` |

Variables carry the names of the members they stand for (a comment says which),
and program positions inside a call are in `pc`. Variables marked *history* are
not in the code; they remember what a property needs (`acquired`, `latest`,
`base`, `owed`, `stable`, `got`, ...) and no guard reads them, with two
exceptions. In `Catalog`, `dropped` keeps a transaction that has dropped a table
from aborting, as README.md:22 of the repository says it must. In `BufferPool`,
`known` keeps clients from fetching or deleting a page id that nobody has given
them; and `DeletePage` leaves out, also with `RacingMisses = TRUE`, the deletion
of a page that another thread is about to bring in: the pool's callers delete a
page they could not link or the pages of a dropped table.

Abstractions that are shared by several modules:

* Queues and lists are sets where the code never looks at the order (lock
  requests, free frames); the MRU list is the order relation of the list.
* Tuples are values named after who wrote them in `TxTable` and `TableHeap`, and
  serialized rows in `TablePage`. Their sizes matter on the bytes only: in
  `TxTable` whether an updated tuple still fits is a free choice, and `room`
  tuples fit on a page; in `TableHeap` `RowsPerPage` do, and a page is the order
  of its tuples with the gaps that deletes leave, which is what `is_compacted`
  and the retry after `compact` depend on.
* `TxTable` and `Catalog` use `RowLocks`, so a wait is a guard that is not yet
  true; that a wait may end in a refusal at any time while it cannot be granted
  stands for the deadline. That this is sound is the refinement
  `ImplementsRowLocks`.
* In `TableHeap` the pool may refuse any page (`fetch_page` and `new_page` that
  return `nullptr`); `TxTable` assumes a pool in which a page that is needed can
  be had. The run `heap_recycle` takes one step of the pool back in.
* The `Catalog`'s rows are slots of one page, and a table has its first page. A
  page that cannot be read or deleted is a fault, the catalog's own page when a
  row is to be deleted included; `MaxFaults` bounds them. Creations that fail
  between `TableHeap::create` and the row lock, for want of a frame or because of
  their entry, are `CreateFails` and `CreateFailsAuto`: what they leave behind is
  pages, so they are bounded by `PageCount` and not by `MaxFaults`.
* Widths are parameters of `Values`: a byte has `Bits` bits, a long integer
  `LongBytes` bytes, an integer `IntBytes`, a double keeps `Mantissa` bits of an
  integer. With four-bit longs and a three-bit mantissa every boundary of the
  comparison is met by enumeration. Floating numbers are whole numbers or NaN
  where they are compared and bit patterns where they are stored.
* In `Query` a call of `next` is one step: the operators of one query belong to
  one thread, and what others may do to it meanwhile is to have a row or a
  catalog row locked, which is a parameter of the step. Plans are trees, so
  `Expressions`, `Binder` and `Query` use RECURSIVE operators; no module with a
  theorem reaches them.

## 3. The runs

Each passing run explores its whole state space. Deadlock is checked in
`locks`, `disk`, `page_layout` and the pool runs; the others bound the number of calls, and
stopping at the bound is no deadlock, so they say `CHECK_DEADLOCK FALSE`.
For every property of a passing run `PROJECT.json` names a mutant: an operator
that stands in the module right before the definition it would replace and
changes it as a plausible slip would; with it TLC finds the property violated.

| run | instance | shows |
|---|---|---|
| `locks` | 3 transactions, 2 rows | Compatible locks; queues and sets agree; no lost wake-up; a granted lock is kept; nothing is left behind; refinement of `RowLocks`; every transaction ends, also in a cycle of waits |
| `pool_safety` | 2 threads with up to 2 pins each, 3 pages, 2 frames, `RacingMisses = FALSE` | Pins are the holders; pinned pages stay; no write is lost over eviction and reload; refusal only when all is pinned |
| `pool_live` | 2 threads, 2 pages, 1 frame | Every call returns |
| `pool_race` | as `pool_safety` with `RacingMisses = TRUE`, 1 pin each | *violated:* two frames for one page |
| `disk` | 2 threads, 3 pages, cap 1, up to 2 crashes | Ids are handed out once over clean restarts; none is lost but by the cap; stable pages survive crashes |
| `page_layout` | a page of 16 bytes with rows of 3 to 5 bytes; for the codec schemas of up to 3 columns of 9 kinds, bytes of 2 bits | No overlap; the page is a map of slots to rows; compaction reclaims everything; an emptied page is used again; rows and schemas are read back |
| `heap` | 2 inserters, 1 scanner, 4 pages, 2 rows per page, 5 inserts | One chain; no leaked page; complete scans; inserts end |
| `heap_recycle` | 2 inserters, one page of another table | *violated:* a foreign page in the chain |
| `tx` | 2 transactions with 2 calls each, 1 page with 2 slots, room for 1 or 2 tuples | Undo records are covered by locks; rollback leaves no trace; restores fit; nobody changes a row that another has locked |
| `tx_moved` | 2 transactions with 1 call each, 2 pages with 1 slot | *violated:* a moved tuple without undo record |
| `catalog` | 2 transactions with 2 calls each, 1 call without one, 2 names, 2 rows, 2 pages, 1 fault | Map and rows agree; a restart loads the same tables and the rows left behind; used tables stay; rollback finds its table; no page is shared, and none lost but those of failed creations and of a pinned drop; calls return |
| `query` | 14400 queries over 2 tables of up to 3 rows, 4900 comparisons, blocks of 2 rows, 2 executions, 1 reset, any lock refused | Rejected exactly if not well-formed; the result is the reference answer; comparisons agree with the order of the values |

**Why the bounds are enough to be interesting.** Three transactions on two rows
are the least that have a cycle of waits, two upgraders of one row, and a third
that is granted in between. Two frames for three pages make every page leave
and come back, two pins per thread make the pool refuse. A free list cap of 1
overflows with the third page. Sixteen bytes hold at most three rows, so that
inserts find an empty slot, make a new one and fail, with and without
compaction. With bytes of two bits an `uint16_t` counts to 16 and the bitmap of
three columns has two bytes, so the 64 KiB limits and the second bitmap byte are
in reach. With two rows per page and five inserts the chain grows to three
pages, two threads grow it at once (the fourth page is the one given back), and one fills the page another has just
made. Two pages in `catalog` are two tables, a table and the leak of a failed
creation, or two leaks; with three pages, about twice the states, it finds no error either.
In `tx` the one page is full or not depending on `room`, so tuples are
refused and moved; two calls per transaction give every pair of operations.
Blocks of 2 and tables of 0 to 3 rows have empty, partial, full and several
blocks on both sides; the limit 2 ends at the edge of a block, and without a
reset the query is read past its end. The clauses of `MCQuery` have aliases, the
same table twice, names that clash, are missing or belong to a later join,
unqualified columns, `*`, no columns, constants that are not BOOL, and two joins
in a row; every combination of them is a workload. Bounds are named constants:
`MaxPins`, `PinModulus`, `Contents`, `MaxPages`, `MaxCrashes`, `MaxInserts`,
`MaxOps`, `MaxCalls`, `MaxAuto`, `MaxFaults`, `PageCount`, `MaxColumns`,
`MaxExecutes`, `MaxResets`.

**Exceptions that properties name.** Where the code has no defence, the property
says so instead of the model leaving the step out:

* `RowsRoundTrip`: `Spoilt` rows, that is a column `CHAR(0)` (written without
  bytes, passed over as if it had a length) and a `CHAR` that ends in zeros; and
  rows of more than 64 KiB, whose offsets `Tuple::compute_offsets` cuts to 16
  bits. And `Unchecked` values: `Tuple::serialize` states that a `VARBINARY` longer
  than its column declares, or of 64 KiB and more, throws (`tuple.cpp:169-175`), but
  the lines are inside the branch for `CHAR` and `VARCHAR` (line 156) and are never
  reached. `Declared` has the limits as they are written; the property says that a
  row is accepted if and only if each value is `Declared` or `Unchecked`, and that an
  overlong `VARBINARY` in a row of at most 64 KiB comes back as it was.
* `OrderAgrees`: a negative integer against a floating value, and an integer that
  a double cannot hold, which may come out equal to its neighbour.
* `ResultCorrect`: all rows are promised if no lock was refused (`refused`), and
  nothing of queries whose clauses are not BOOL, where an exception or a failed
  assertion ends the call.
* `Catalog`: `broken`, set by a drop that ignores a lock and by one that could
  not read the pages; `PagesKept` holds nevertheless. `leaks` counts the pages a
  failed creation has given up and a drop has found pinned, `kept` is the set of
  rows whose deletion failed unnoticed; `RestartSame` promises exactly the map and
  these rows, and the same tables as long as `kept` is empty.
* `StableKept`: `torn`; `CommittedRows`, `RestoreFits` and `LockedRowsStay`: `clash`.

**Fairness.** It is assumed only where a run checks liveness, and always of
threads that are inside a call:

* `LockManager!TimedSpec`: weak fairness of `GoesOn(t)`. `wait_for` returns
  after its second with or without the lock, so a sleeper either gets its lock
  or times out; commit and abort contain no wait. It also asks the client to
  end its transaction: the code promises nothing about a client that does not.
  Waking up and falling asleep again does not count as progress.
* `BufferPool!FairSpec`: strong fairness of `Continue(t)`, that is: the mutexes
  are starvation free, and a client lets go of the frame it has latched and of
  its pins (a `PinnedPage` does so at the end of its scope). The standard does
  not promise a fair mutex; without one no call of any lock-based code returns.
* `TableHeap!FairSpec`, `Catalog!FairSpec`: weak fairness of the steps inside a
  call; no page need ever be refused. In `Catalog` no fairness of `latch_` is assumed.

## 4. Findings

Three runs end in a counterexample; each is a disagreement of the code with
what the repository says of it.

1. `pool_race` (`src/buffer/pool_manager.cpp:29`). Two threads miss on the same
   page. Both call `swap_page`, which does not look the page up again; the page
   is in two frames, the page table knows the second, and what was written to
   the first is lost. With at most one miss per page at a time (`pool_safety`)
   the same property holds.
2. `heap_recycle` (`src/table/table_heap.cpp:90`). `insert_tuple` unpins its new
   page and later reads the page id from the frame. If the frame has been
   reused, it links a page of another table.
3. `tx_moved` (`src/table/table.cpp:82`). `update_tuple` has moved the tuple when
   it asks for the lock on the new row; if that is refused (a scan of another
   transaction has locked the free slot), there is no undo record for the
   deletion, and abort does not bring the row back.

Met while modelling and part of the models, without a run of their own:

* An upgrade that waits has given its shared lock up, so another transaction can
  write the row it has read (`lock_manager.cpp:45`); README.md:14 says strict
  2PL. `HeldUnlessUpgrading` states the exception, `RowLocks!DropForUpgrade` is
  the step.
* A transaction that timed out stays in `active_txs_` until its client calls
  abort (`TransactionEnds` includes that call).
* A page that is deallocated when the free list is at its cap is forgotten with
  a warning (`disk_manager.cpp:71`); README.md:27 says "throws". `NoPageLost`
  states the exception, `forgotten`.
* After a crash ids handed out since the last clean shutdown are handed out
  again, and a crash inside `flush_all` can put page 0 on the free list.
  `StableKept` is what remains true.
* An insert throws when others fill the page it has just linked
  (`table_heap.cpp:66`); `InsertReturns` allows it.
* Reuse of a slot another transaction has locked or is owed, which README.md:31
  names, and a restore that finds its space taken, are steps of `TxTable`;
  `clash` notes them, and `CommittedRows`, `RestoreFits` and `LockedRowsStay` are
  promised without.
* `Database::drop_table` takes no transaction and so no lock: it drops tables
  that transactions have locked (README.md:15 says the lock protects them), and a
  later rollback of their creation fails its assertion (`catalog.cpp:120`).
  `broken` notes the step; what `Catalog` promises of map and rows is promised
  without it.
* A drop whose pages cannot be read has deleted the catalog row and throws
  (`catalog.cpp:93-100`): the table stays in the map until the next start and then
  is gone with its pages. README.md:23 describes only pages that are pinned. The
  same failure in `rollback_create_table` leaves abort in the middle, with its
  locks held (`UndoTableFails`).
* Every creation that fails after `TableHeap::create` leaks the first page of the
  table (`catalog.cpp:50-57`), with a transaction or without: a name of more than
  128 bytes (`tuple.cpp:164`), an entry larger than a page (`table_heap.cpp:35`), a
  catalog page that is refused or a catalog that cannot grow (`table_heap.cpp:41`
  and `:75`), a refused row lock (`table.cpp:27`). If it was `new_page` that found no
  frame, the id it has allocated is lost as well (`pool_manager.cpp:81`).
* `TableHeap::delete_tuple` returns false when the page of the row is refused
  (`table_heap.cpp:175`), and neither `table.cpp:28` nor `undo.cpp:12` looks: the
  catalog row of a creation that was refused or rolled back stays. The map is right
  until the next start, which then loads a table whose first page is leaked or
  deallocated; if the name has been created again, the row that the scan meets last
  decides which one it is. `drop_table` does look, and drops nothing (`catalog.cpp:93`).
* The limits of a `VARBINARY` are never enforced (`tuple.cpp:169-175`, unreachable).
* `is_compacted` (`slotted_page.cpp:136`) does not see free space in front of the
  tuple of slot 0: a page with room may be passed over, and the chain grows.
* A refused row lock ends a scan like the end of the table (`table.cpp:117`), a
  refused page too (`table_heap.cpp:243`), and a refused lock on a catalog row is
  reported as a table that does not exist (`binder.cpp:23`).
* `bind` moves joins and predicate out of the query (`select_query.hpp:34`): a
  query that is executed again has lost its `JOIN` and `WHERE`. `asked` is what it
  held.
* The comparison of an integer with a floating value converts it to unsigned
  first (`comparison.cpp:69`): -1 is greater than 1.0.
* `Tuple` keeps the offsets of its columns in 16 bits (`tuple.cpp:116-133`) and
  nothing bounds the bytes of a row: the columns of one with more than 64 KiB
  are read from the wrong place. A table never has such a row, because
  `insert_tuple` refuses what does not fit on a page (`table_heap.cpp:35`).
  `RowsRoundTrip` is about shorter ones.
* A scan locks the next RID and may then return the tuple of a later one
  (`table.cpp:117`), without a lock on it.

## 5. The proofs

TLC checks an instance; TLAPS proves the same formulas for all values of the
constants that satisfy the assumptions of the modules. Every safety property
of the passing runs but `ResultCorrect` and `OrderAgrees` has a theorem, so have
both refinements, and what `OrderAgrees` asks of the sample values of a run is
proved of all values:

| module | proves, for | theorems (the property of the run) |
|---|---|---|
| `LockManagerProofs` | any transactions and rows | `TypeCorrect` (`TypeOK`, which no run checks), `LocksCompatible` (`Compatible`), `LockTableAgrees` (`TableAgrees`), `LocksHeld` (`HeldUnlessUpgrading`), `NoWakeupLost` (`NoMissedWakeup`), `EndedLeavesNothing` (`NothingLeft`), `TwoPhases`, `Refinement` (`ImplementsRowLocks`) |
| `BufferPoolProofs` | any threads, pages and frames, racing misses included | `PoolStructure` (`TableConsistent`), `PoolTypes` (`TypeOK`) |
| the same | any threads, pages and frames, `RacingMisses = FALSE` | `PinsAreHolders` (`PinsCounted`), `PinnedPagesStay` (`HandlesValid`), `WritesKept` (`NoLostWrite`), `RefusedWhenPinned` (`RefusedOnlyWhenPinned`) |
| `DiskManagerProofs` | any threads, pages, cap and crashes | `DiskTypes` (`TypeOK`), `IdsAreUnowned` (`IdsUnowned`), `PagesNotLost` (`NoPageLost`), `StablePagesKept` (`StableKept`) |
| `TablePageProofs` | any size of page, header and slot, any tuples | `PageLayout` (`Layout`), `CompactionReclaims` (`CompactReclaims`), `EmptiedPageAccepts` (`EmptyPageAccepts`), `PageIsSlotMap` (`ImplementsSlotMap`) |
| the same | any widths of bytes and numbers, any schema, any row | `RowsReadBack` (`RowsRoundTrip`), `SchemasReadBack` (`SchemaRoundTrip`); their lemmas are in `ValueProofs` |
| `ValueProofs` | any widths and mantissa, any two values | `ValuesInOrder` (`AgreesOn`, which `OrderAgrees` asks of two sample values) |
| `TableHeapProofs` | any threads, scanners, finite set of pages, rows per page | `ChainKept` (`ChainIntact`), `ScansAreComplete` (`ScanComplete`), `NoPageIsLeaked` (`NoPageLeaked`) |
| `TxTableProofs` | any transactions, pages, slots and number of calls | `UndoRowsLocked` (`UndoLocked`), `CommittedRowsKept` (`CommittedRows`), `RestoresFit` (`RestoreFits`), `LockedRowsKept` (`LockedRowsStay`) |
| `CatalogProofs` | any transactions, names, rows, pages and faults | `PagesAreKept` (`PagesKept`), `TablesHaveRows` (`MapBacked`), `RollbackHasTable` (`RollbackFindsTable`), `ReturnedTableStays` (`UsedTableStays`), `RestartFindsMap` (`RestartSame`) |

### The assumptions

* The named assumptions of the modules, which say what kind of value a constant
  is (`PoolAssumption`, `DiskAssumption`, `PageAssumption`, ...). TLC evaluates
  them in every run.
* `PinAssumption` of `BufferPool`: there are finitely many threads, and fewer
  than a pin count can count (2^32 in the code). A thread of the model pins a
  page once at a time, so the count does not wrap.
* `~RacingMisses` in the theorems about pins: no two threads miss on one page at the
  same time. Without it the four theorems are false, which is finding 1.
* `TableHeapProofs` is about `Spec`, in which the frame of a page just made is
  not given to another page; `RecycleSpec` is finding 2.
* `Storable` in `PageIsSlotMap`: the rows that are stored are rows that
  `serialize` accepts, none of the exceptions of section 3. That they are
  read back is proved.
* `CodecAssumption`: strings are sequences of bytes, a column has one of the ten
  types and a length of 16 bits, and there are no more types than numbers of 16
  bits. `ComparisonAssumption`: a double has a mantissa, NaN is not a number, and
  a 32-bit integer is narrower than a 64-bit one: `compare` casts both of two
  integers to int64 when neither is a UINT64, and a UINT32 has to survive it.
* The bounds that keep TLC's instances finite (`MaxOps`, `MaxCalls`, `MaxInserts`,
  `MaxPages`, `MaxCrashes`, `MaxFaults`, ...) are any natural numbers in the proofs.

### The arguments

**Row locks.** The invariant is

    IInv == TypeOK /\ PhaseOK /\ TableAgrees /\ Compatible /\ Blocked
            /\ HeldUnlessUpgrading

`Compatible` speaks of lock sets, but a grant is decided on the request queue;
so `TableAgrees` has to be carried along, and lemma `CanGrantMeaning` turns
`can_grant` on a queue into a statement on the lock sets (`Free`). With that
every other step is about sets of rows. `PhaseOK` ties positions to states:
without it a thread in `unlock` could still be waiting, or one in `settle` still
hold a lock. `Blocked` is `NoMissedWakeup` in terms of `Free`. The interesting
case is the upgrade: it removes a granted shared request and notifies nobody.
Nobody who is asleep can be waiting for just that: when the upgrade has to
wait, another transaction holds the row too, and a sleeper on that row that
was blocked by the upgrader's S wants X, so it is still blocked by that other
one; when it has not, X replaces S. There is one lemma per kind of step
(`TakeStep`, `SleepStep`, `TimeOutStep`, `UnlockAllStep`, `LocklessStep`,
`WakeAgainStep`), and `StepRefines` maps every step to a step of `RowLocks` or to
a stutter under the identity mapping on the lock sets and states.

**Buffer pool.** `PoolStructure` needs only `LocalsOK`, what a thread's locals are
inside a call, beside its own two parts: page table, frames' page ids, replacer
and the two sources of free frames describe one cache. `ReplacerSets` says what
`record` and `remove` do to the list, `InstallStep` and `DeleteStep` are the two
steps that rebuild the structure. That it also holds with racing misses says
that the race breaks the pinning and the data, not the cache's own tables.

The pins are proved on top of it, without racing misses:

    PinInv == IInv /\ Structure /\ HandlesValid /\ CallsOK /\ PinsCounted

`PinsCounted` and `HandlesValid` need each other: a frame is not taken away
because its count is not zero, and the count is right because a holder's frame
is still the one it has pinned. `Structure` is what ties them together: who has
`latch_` and the frame latches, that an id that is being made is nobody's
(`IdsOK`), and that the page table knows every page that is in a frame
(`MappedBack`), which is what a racing miss destroys. `Unheld` is the use of
it: a frame with count zero has no holder, nobody who reads into it and nobody
about to unpin it. `NoLostWrite` is then an invariant together with `PinInv`
(`DataInv`), and `RefusedOnlyWhenPinned` follows because the replacer's order
is total on the pages it tracks (`ListOK`), so that `find_lru` finds a victim if
there is one (`ListHasFirst`).

**File.** `DiskInv` has one part for runs without a crash and one for all:

    DiskInv == TypeOK /\ Len(freeList) <= FreeListCap + 1
               /\ CallsOK /\ CleanOK /\ StableOK

`CleanOK` says that while the database is open the ids below the capacity are
shared out between the owners, the free list and what was forgotten at the cap,
and while it is closed the metadata page has just that list. `StableOK` says
that no page of the last clean shutdown is on the free list in memory or in
the file, nor past either capacity. The two lists change at different times: this
is why both have to be in the invariant. `CallsOK` bounds the capacity by the
threads that have been counted and have not grown the file yet, for `TypeOK`.

**Page.** `PageInv` states the layout by offsets (`Within`, `Apart`) and that every
used slot reads as a tuple; `Layout` follows. What needs work is `compact`: the packed
tuples fit behind the slots because `PackedEnd` of slot i is the size of the page less
the bytes of the first i tuples (`PackedEndCounts`: the tuples are disjoint, so
their bytes are a set whose cardinality counts them), and that set lies behind
the old free space offset. `PackedSlotIs` finds for every byte behind the new
offset the one slot it belongs to: `CompactReclaims` is that, and it gives what
a packed slot reads as. Every step then is one of four things done to what the
slots read as, `Filled`, `Replaced`, `Emptied` or `SameReads` (`PageStep`), which
are the actions of `SlotMap` and a stutter. An emptied page is not
`IsCompacted` because the walk never gets away from the offset 0 of slot 1
(`EmptiedWalk`).

**Heap.** The pages of the heap are numbered from the first to the last:

    Inv == TypeOK /\ MakersOK
           /\ \E n \in Nat \ {0} : \E c \in Numbering(n) : Good(n, c)

`Good` says that `next_page` follows the numbers (`Linked`), that every
allocated page has a number or is the one a thread has just made (`Owned`),
that threads and scans stand on pages with a number (`Visited`), and that what
a scan owes is on its page from its slot on, or on a page with a higher number
(`Promised`). The only step that changes the numbering is the second look at
`next_page` under the latch, which finds the last page still last and gives the
new one the number n + 1; everything else keeps n and c. Compaction moves
tuples inside a page but leaves their slots alone, so `Promised` does not see it.
`ChainFromInv` shows that the numbering is the function `Nth` of the property.

**Transactions on tables.** `UndoLocked` is part of `TxInv`, with `CallsOK` and the
compatibility of the locks. `CommittedRows` and `RestoreFits` are about a state
far ahead: what the heap will be once rollbacks have run. The
invariant says it now:

* The undo log of a transaction, with the records its call under way still has
  to add (`Pending`) and without those abort has run, is `UndoLog(t)`.
* `Undoes` says of such a log that it is about rows its transaction has
  exclusively or has just written, that each of its records restores into a
  slot that is empty when its turn comes, and that row by row it leads from the
  heap to `base`. `Value` follows one row through a log: what it holds when the
  rollback has come to a position.
* `Fits` says the same of room: at whatever positions the rollbacks of all
  transactions are (`Positions`), no page has more tuples than fit. The order
  among the transactions does not matter because their rows are disjoint.

Both hold unless `clash` (`RollbackInv`), which is the reuse of a slot that
another transaction has locked or is owed. `LockedRowsStay` is the isolation that
two-phase locking is for, as a property of steps, and follows from the same
invariant (`RowChanges`): whoever changes a row has it exclusively, or puts a tuple
into a slot that nobody else has locked, or takes such a tuple back; and a row
with a tuple whose lock is still to come is nobody else's (`CallsUndisturbed`).

**Catalog.** `CatInv` needs only `latch_` and the undo logs: the heaps of the tables
in the map and of the one creation that has `latch_` are disjoint and
allocated, the rest are leaks: `PagesLost` says of a creation that fails early
that it adds as many pages to the allocated ones as to the leaks and touches no
table's. What holds unless `broken` (`UnlessBroken`) is a
system of six statements: a table in the map has its row (`Mapped`); a row that
is in use is a table's, or of the creation that has `latch_`, or the one whose
table a rollback has taken away already, or was left behind (`Known`); one that was
left behind is nobody's any more and never free again (`Left`); such a row and the records
that will take it back are nobody else's (`Creations`, `Rollbacks`); and a table that
was returned has its row locked by whoever got it (`Returned`). The undo log of
a transaction stays good because it has the rows in it exclusively.

**Rows and schemas.** A row is a bitmap and then field after field; a schema is
a count and then column after column. The first half of the argument is that the
bytes grow by one piece at a time (`Grows`, `Grown`), so that piece i lies between what
was written before it and what came after (`Lies`, `PartOf`). The second half is about
one piece: a number is read as it was written, signed or not, for any width
(`UnsignedBack`, and `SignedBack` for two's complement), a word is found at its
place (`WordFound`), a bit of the bitmap is the bit of its column and setting one
leaves the lower ones alone (`LowerBit`, `Places`). `OffsetsFound` joins them: the
running offset of `compute_offsets`, null columns included, is where the field
begins, and it is not cut because the row has at most 2^16 bytes. `RowBack` and
`SchemaBack` follow field by field. Powers of two are a function, `Pow2`, because the
provers know nothing of `^`; and every recursive function of the codec is shown
to satisfy its equation first (`Recursion`, `RecursionUpTo`).

**Comparison.** Two integers are compared as int64 after a look at the range
of the one that is unsigned; `IntegerRange` and `IntegralOrder` go through the
cases. Between an integer and a floating value the integer is rounded. What
makes this safe is `DoubleOrder`: rounding to the nearest double passes no double. For
an integer with e bits too many the two neighbours are multiples of 2^e; a
double is either a multiple of 2^e too, and then not strictly between them, or it
has a smaller exponent, and then is at most 2^(Mantissa + e - 1), which is not
above the lower one. So the result is right or "equal", and the converse for the
operands exchanged. Strings are in the order of a dictionary, which is total
(`StringOrder`, by the first place where they part).

Induction on a number is done with the least counterexample: `LeastNatural`
follows from the well-foundedness of < on the natural numbers, without a
theorem that takes a predicate. The recursive functions `PackedEnd`, `NextOffset`
and `Nth` are proved to exist before their equations are used.

### Only model-checked

* Liveness (`TransactionEnds`, the `CallsReturn` of `BufferPool` and `Catalog`, and
  `InsertReturns`): fairness and ENABLED are out of the provers' reach.
* `ResultCorrect` and `OrderAgrees` as invariants of `Query`: plans and expressions
  are trees, and the operators that walk them are RECURSIVE, which no proof may
  reach. `ResultCorrect` compares the executor with a reference definition over
  plans of any depth and tables of any length. `OrderAgrees` is `AgreesOn` of two of
  the sample values that the run enumerates, and `AgreesOn` is proved of any two.
* The three findings, which are counterexamples.

## 6. Not modelled

* I/O errors: `read_page` or `write_page` that throws in the middle of
  `swap_page`, a short write, wrong magic or version.
* Frames under `TableHeap`: the second unpin of a scan whose next page was refused
  (`table_heap.cpp:281`) and the missing `mark_dirty` of `restore_tuple` (line 184).
  The composition with `BufferPool` multiplies two state spaces of several hundred
  thousand states each and is out of TLC's reach at bounds where both happen.
* Calls of `Table` without a transaction, beside those of `Catalog`.
* Tables longer than a page in `Catalog`, and the wrap of a page id.
* Fractions of floating numbers, and rows that change during a query; the row
  locks of `TxTable` are what keeps them.
* `to_string` and other output, the SQL lexer (declarations) and `main` (a
  demonstration).

## 7. The order of the work, and what is left

The order was: row locks and their refinement (everything above stands on them),
the buffer pool, the file, the page, the heap, transactions on tables, the
catalog, the operators; then the codec on the page, expressions, binder and
whole queries, refused pages in the heap, and the pages of tables in the
catalog; then the proofs, in the order of the layers, and last the codec and the
comparison of values. What is left:

1. Failing reads and writes in the middle of `swap_page`, with the three hazards
   in `PROJECT.json` that no property covers.
2. A reference definition of a query's result that needs no recursion over the
   plan, such as one fixed shape of join and filter, about which the block
   nested-loop join could be proved.
3. Liveness stays with TLC.
