----------------------------- MODULE TableHeap -----------------------------
(***************************************************************************)
(* TableHeap: a chain of slotted pages that several threads insert into,   *)
(* delete from and scan.  What a thread does to a page between latching    *)
(* and unlatching it is one step.  All tuples have the same size and       *)
(* RowsPerPage of them fill a page, so a page is the sequence of the       *)
(* tuples from its end to its free space: the slot of each, or Gap if it   *)
(* was deleted (SlottedPage has the bytes).  The pool may refuse any page  *)
(* because all its frames are pinned.                                      *)
(*                                                                         *)
(* insert_tuple unlatches the last page of the chain to make a new page,   *)
(* latches it again and looks whether somebody else has linked one.  It    *)
(* has unpinned the new page by then, and asks the FRAME that had it for   *)
(* its id: shows is the id the frame has at that time.                     *)
(***************************************************************************)
EXTENDS Naturals, FiniteSets, Sequences, SequencesExt

CONSTANTS
    Threads,      \* threads that insert and delete
    Scanners,     \* threads that scan
    Pages,        \* page ids
    Others,       \* the ones that other tables own
    First,        \* first_page_id_
    None,         \* INVALID_PAGE_ID
    RowsPerPage,  \* tuples that fit on a page
    MaxInserts    \* bound on the inserts

ASSUME HeapAssumption ==
    /\ First \in Pages \ Others /\ None \notin Pages
    /\ Others \subseteq Pages /\ IsFiniteSet(Pages)
    /\ RowsPerPage \in Nat \ {0}
    /\ MaxInserts \in Nat

Slots == 1 .. RowsPerPage

VARIABLES
    own,      \* pages allocated for this heap and not deallocated
    next,     \* next_page_id in the header of a page
    places,   \* the tuples on a page, from its end
    pc,       \* where a thread is in insert_tuple
    page,     \* its local page_id
    created,  \* its local created_new_page
    mine,     \* the page it has made and not yet linked or given back
    shows,    \* the page id in the frame that next_page points to
    inserts,  \* inserts that have begun
    scan,     \* the state of a scan: [page, slot, at]
    owed      \* history: tuples that were there when the scan began, were
              \* not deleted since, and that the scan has not returned

threadVars == <<pc, page, created, mine, shows, inserts>>
vars == <<own, next, places, threadVars, scan, owed>>

Rid == Pages \X Slots

Gap == 0

Occupied(p) == {i \in Slots : i \in Range(places[p])}

Rids == {r \in Rid : r[2] \in Occupied(r[1])}

NoScan == [page |-> None, slot |-> 0, at |-> "none"]

-----------------------------------------------------------------------------
(* create made the first page.                                             *)
Init ==
    /\ own = {First}
    /\ next = [p \in Pages |-> None]
    /\ places = [p \in Pages |-> <<>>]
    /\ pc = [t \in Threads |-> "idle"]
    /\ page = [t \in Threads |-> None]
    /\ created = [t \in Threads |-> FALSE]
    /\ mine = [t \in Threads |-> None]
    /\ shows = [t \in Threads |-> None]
    /\ inserts = 0
    /\ scan = [s \in Scanners |-> NoScan]
    /\ owed = [s \in Scanners |-> {}]

InsertBegin(t) ==
    /\ pc[t] = "idle" /\ inserts < MaxInserts
    /\ inserts' = inserts + 1
    /\ pc' = [pc EXCEPT ![t] = "look"]
    /\ page' = [page EXCEPT ![t] = First]
    /\ created' = [created EXCEPT ![t] = FALSE]
    /\ UNCHANGED <<own, next, places, mine, shows, scan, owed>>

(* The tuples of a page in the order of their slots.                       *)
InOrder(p) ==
    CHOOSE q \in [1 .. Cardinality(Occupied(p)) -> Occupied(p)] :
        \A i, j \in DOMAIN q : i < j => q[i] < q[j]

(* SlottedPage::is_compacted: the tuples in the order of their slots, from *)
(* the first slot's to the one at the end of the page, have no gap between *)
(* them.  Deleted tuples in front of the first slot's are not noticed.     *)
IsCompacted(p) ==
    \/ places[p] = <<>>
    \/ 1 \in Occupied(p) /\ Reverse(InOrder(p)) = SubSeq(places[p], 1, Len(InOrder(p)))

(* The page after the attempts to insert: compacted if there was no room   *)
(* in front of its tuples and it did not count as compacted.               *)
Settled(p) ==
    IF Len(places[p]) < RowsPerPage \/ IsCompacted(p) THEN places[p]
    ELSE InOrder(p)

HasRoom(p) == Len(Settled(p)) < RowsPerPage

(* find_empty_slot and allocate_slot.                                      *)
FreeSlot(p) == Min(Slots \ Occupied(p))

(* The page is latched and the tuple fits, perhaps after a compaction.     *)
InsertHere(t) ==
    /\ pc[t] = "look"
    /\ HasRoom(page[t])
    /\ places' = [places EXCEPT ![page[t]] = Append(Settled(page[t]), FreeSlot(page[t]))]
    /\ pc' = [pc EXCEPT ![t] = "idle"]
    /\ page' = [page EXCEPT ![t] = None]
    /\ UNCHANGED <<own, next, created, mine, shows, inserts, scan, owed>>

(* fetch_page returns nullptr: nullopt.                                    *)
InsertRefused(t) ==
    /\ pc[t] = "look"
    /\ pc' = [pc EXCEPT ![t] = "idle"]
    /\ page' = [page EXCEPT ![t] = None]
    /\ UNCHANGED <<own, next, places, created, mine, shows, inserts, scan, owed>>

(* Where an attempt that failed leaves the page.                           *)
NoRoom(t) ==
    /\ pc[t] = "look" /\ ~HasRoom(page[t])
    /\ places' = [places EXCEPT ![page[t]] = Settled(page[t])]

(* Mutant: the walk starts over.                                           *)
InsertNextRestarts(t) ==
    /\ NoRoom(t) /\ next[page[t]] # None
    /\ page' = [page EXCEPT ![t] = First]
    /\ UNCHANGED <<own, next, pc, created, mine, shows, inserts, scan, owed>>

(* It does not, and there is a next page.                                  *)
InsertNext(t) ==
    /\ NoRoom(t) /\ next[page[t]] # None
    /\ page' = [page EXCEPT ![t] = next[page[t]]]
    /\ UNCHANGED <<own, next, pc, created, mine, shows, inserts, scan, owed>>

(* It is the last page: unlatch it and make a new one ...                  *)
InsertGrow(t) ==
    /\ NoRoom(t) /\ next[page[t]] = None
    /\ ~created[t]
    /\ pc' = [pc EXCEPT ![t] = "new"]
    /\ UNCHANGED <<own, next, page, created, mine, shows, inserts, scan, owed>>

(* ... unless this call has made a page already: it throws.                *)
InsertThrow(t) ==
    /\ NoRoom(t) /\ next[page[t]] = None
    /\ created[t]
    /\ pc' = [pc EXCEPT ![t] = "threw"]
    /\ UNCHANGED <<own, next, page, created, mine, shows, inserts, scan, owed>>

(* new_page, init, mark_dirty and the unpin at the end of the block.       *)
InsertNewPage(t) ==
    /\ pc[t] = "new"
    /\ \E p \in Pages \ (own \cup Others) :
         /\ own' = own \cup {p}
         /\ next' = [next EXCEPT ![p] = None]
         /\ places' = [places EXCEPT ![p] = <<>>]
         /\ mine' = [mine EXCEPT ![t] = p]
         /\ shows' = [shows EXCEPT ![t] = p]
    /\ created' = [created EXCEPT ![t] = TRUE]
    /\ pc' = [pc EXCEPT ![t] = "link"]
    /\ UNCHANGED <<page, inserts, scan, owed>>

(* new_page returns nullptr: it throws.                                    *)
InsertNoPage(t) ==
    /\ pc[t] = "new"
    /\ pc' = [pc EXCEPT ![t] = "threw"]
    /\ created' = [created EXCEPT ![t] = TRUE]
    /\ UNCHANGED <<own, next, places, page, mine, shows, inserts, scan, owed>>

(* Mutant: the page is linked without the second look.                     *)
MayLinkAlways(t) == TRUE

(* Re-check: did another thread link a next page meanwhile?                *)
MayLink(t) == next[page[t]] = None

(* Mutant: the page that was linked is deleted like one that was not.      *)
InsertLinkFallsThrough(t) ==
    /\ pc[t] = "link"
    /\ MayLink(t)
    /\ next' = [next EXCEPT ![page[t]] = shows[t]]
    /\ page' = [page EXCEPT ![t] = shows[t]]
    /\ pc' = [pc EXCEPT ![t] = "discard"]
    /\ UNCHANGED <<own, places, created, mine, shows, inserts, scan, owed>>

(* The new page becomes the next page of the last one ...                  *)
InsertLink(t) ==
    /\ pc[t] = "link"
    /\ MayLink(t)
    /\ next' = [next EXCEPT ![page[t]] = shows[t]]
    /\ page' = [page EXCEPT ![t] = shows[t]]
    /\ mine' = [mine EXCEPT ![t] = None]
    /\ shows' = [shows EXCEPT ![t] = None]
    /\ pc' = [pc EXCEPT ![t] = "look"]
    /\ UNCHANGED <<own, places, created, inserts, scan, owed>>

(* ... or, somebody else having been first, is not needed.                 *)
InsertLost(t) ==
    /\ pc[t] = "link"
    /\ ~MayLink(t)
    /\ page' = [page EXCEPT ![t] = next[page[t]]]
    /\ pc' = [pc EXCEPT ![t] = "discard"]
    /\ UNCHANGED <<own, next, places, created, mine, shows, inserts, scan, owed>>

(* Pages that a thread has pinned between two latchings, or a scan has.    *)
Pinned ==
    {page[t] : t \in {u \in Threads : pc[u] \in {"new", "link"}}}
    \cup {scan[s].page : s \in {u \in Scanners : scan[u].at \in {"rows", "turn", "ended"}}}

(* bpm_.delete_page of the page that was not needed.                       *)
Discarded(t) == own \ ({shows[t]} \ Pinned)

InsertDiscard(t) ==
    /\ pc[t] = "discard"
    /\ own' = Discarded(t)
    /\ mine' = [mine EXCEPT ![t] = None]
    /\ shows' = [shows EXCEPT ![t] = None]
    /\ pc' = [pc EXCEPT ![t] = "look"]
    /\ UNCHANGED <<next, places, page, created, inserts, scan, owed>>

(* delete_tuple of a tuple that is there.                                  *)
DeleteTuple(t, r) ==
    /\ pc[t] = "idle"
    /\ r \in Rids
    /\ places' = [places EXCEPT ![r[1]] = ReplaceAll(@, r[2], Gap)]
    /\ owed' = [s \in Scanners |-> owed[s] \ {r}]
    /\ UNCHANGED <<own, next, threadVars, scan>>

-----------------------------------------------------------------------------
(* scan(): the first page is pinned.                                       *)
ScanBegin(s) ==
    /\ scan[s].at = "none"
    /\ scan' = [scan EXCEPT ![s] = [page |-> First, slot |-> 1, at |-> "rows"]]
    /\ owed' = [owed EXCEPT ![s] = Rids]
    /\ UNCHANGED <<own, next, places, threadVars>>

(* Mutant: next_occupied_slot skips the slot itself, also if it is there.  *)
AheadSkipping(s) == {i \in Occupied(scan[s].page) : i > scan[s].slot}

(* has_slot and next_occupied_slot from the position of the scan.          *)
Ahead(s) == {i \in Occupied(scan[s].page) : i >= scan[s].slot}

(* Scan::next returns the first tuple that is left on the page ...         *)
ScanRow(s) ==
    /\ scan[s].at = "rows"
    /\ Ahead(s) # {}
    /\ LET i == Min(Ahead(s)) IN
       /\ scan' = [scan EXCEPT ![s].slot = i + 1]
       /\ owed' = [owed EXCEPT ![s] = @ \ {<<scan[s].page, i>>}]
    /\ UNCHANGED <<own, next, places, threadVars>>

(* ... or unlatches the page ...                                           *)
ScanTurn(s) ==
    /\ scan[s].at = "rows"
    /\ Ahead(s) = {}
    /\ scan' = [scan EXCEPT ![s].at = "turn"]
    /\ UNCHANGED <<own, next, places, threadVars, owed>>

(* ... and latches it again to go to the next page ...                     *)
ScanNextPage(s) ==
    /\ scan[s].at = "turn"
    /\ next[scan[s].page] # None
    /\ scan' = [scan EXCEPT ![s] = [page |-> next[@.page], slot |-> 1, at |-> "rows"]]
    /\ UNCHANGED <<own, next, places, threadVars, owed>>

(* ... which the pool may refuse: nullopt, as at the end, with the pin of  *)
(* the old page given back ...                                             *)
ScanRefused(s) ==
    /\ scan[s].at = "turn"
    /\ next[scan[s].page] # None
    /\ scan' = [scan EXCEPT ![s].at = "refused"]
    /\ UNCHANGED <<own, next, places, threadVars, owed>>

(* ... or to find that there is none: nullopt.                             *)
ScanEnd(s) ==
    /\ scan[s].at = "turn"
    /\ next[scan[s].page] = None
    /\ scan' = [scan EXCEPT ![s].at = "ended"]
    /\ UNCHANGED <<own, next, places, threadVars, owed>>

(* The frame of the page that a thread has made and unpinned is given to   *)
(* another page (BufferPoolManager::swap_page), not to the one the thread  *)
(* has pinned.                                                             *)
Recycle(t) ==
    /\ pc[t] \in {"link", "discard"}
    /\ \E p \in (own \cup Others) \ {page[t], mine[t]} :
         shows' = [shows EXCEPT ![t] = p]
    /\ UNCHANGED <<own, next, places, pc, page, created, mine, inserts, scan, owed>>

InsertStep(t) ==
    \/ InsertHere(t) \/ InsertNext(t) \/ InsertGrow(t) \/ InsertThrow(t)
    \/ InsertNewPage(t) \/ InsertNoPage(t) \/ InsertLink(t) \/ InsertLost(t) \/ InsertDiscard(t)

ScanStep(s) ==
    ScanRow(s) \/ ScanTurn(s) \/ ScanNextPage(s) \/ ScanRefused(s) \/ ScanEnd(s)

Next ==
    \/ \E t \in Threads :
          \/ InsertBegin(t) \/ InsertStep(t) \/ InsertRefused(t)
          \/ \E r \in Rids : DeleteTuple(t, r)
    \/ \E s \in Scanners : ScanBegin(s) \/ ScanStep(s)

(* No frame is recycled between its unpin and the use of its page id.      *)
Spec == Init /\ [][Next]_vars

(* Frames are recycled.                                                    *)
RecycleSpec == Init /\ [][Next \/ \E t \in Threads : Recycle(t)]_vars

(* A thread inside insert_tuple goes on; no page need ever be refused.     *)
FairSpec == Spec /\ \A t \in Threads : WF_vars(InsertStep(t))

-----------------------------------------------------------------------------
(* The pages of the heap form one chain: nobody's next page is the first   *)
(* page, a page that is not the heap's, or the next page of another page.  *)
ChainIntact ==
    \A p \in own :
        next[p] # None =>
            /\ next[p] \in own \ {First}
            /\ \A q \in own : next[q] = next[p] => q = p

(* The page at distance n from the first one.                              *)
Nth[n \in 0 .. Cardinality(Pages)] ==
    IF n = 0 THEN First
    ELSE IF Nth[n - 1] = None THEN None ELSE next[Nth[n - 1]]

Reachable == {Nth[n] : n \in 0 .. Cardinality(Pages)} \ {None}

(* Threads that grow the chain at the same time do not leak the page of    *)
(* the one that comes second, nor lose a page of the chain: an allocated   *)
(* page is in the chain or about to be linked or given back.               *)
NoPageLeaked ==
    own = Reachable \cup {mine[t] : t \in {u \in Threads : mine[u] # None}}

(* A scan that ends has returned every tuple that was there when it began  *)
(* and that nobody has deleted since, while others inserted, deleted and   *)
(* grew the chain.                                                         *)
ScanComplete == \A s \in Scanners : scan[s].at = "ended" => owed[s] = {}

(* An insert returns, or throws.                                           *)
InsertReturns == \A t \in Threads : pc[t] # "idle" ~> pc[t] \in {"idle", "threw"}
=============================================================================
