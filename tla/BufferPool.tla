----------------------------- MODULE BufferPool -----------------------------
(***************************************************************************)
(* BufferPoolManager with its BufferReplacer, the frames (Page) and the    *)
(* page allocation of the DiskManager below it, used by several threads    *)
(* the way TableHeap uses it: pin a page, latch it, read or write it,      *)
(* unlatch it, unpin it.                                                   *)
(*                                                                         *)
(* latch_ is a shared_mutex: fetch, swap, delete and flush take it         *)
(* exclusively, unpin takes it shared.  A call that needs a frame's latch  *)
(* after latch_ (find_cached_page, delete_page, unpin_page) is two steps,  *)
(* so that it can be seen waiting for the frame with latch_ in its hand.   *)
(* The read of swap_page happens after latch_ is released.                 *)
(*                                                                         *)
(* Frames are interchangeable and so are page ids: the two free lists are  *)
(* sets, and an allocation takes any of their members.                     *)
(***************************************************************************)
EXTENDS Naturals, FiniteSets

CONSTANTS
    Threads,       \* client threads
    Pages,         \* page ids, bounds the growth of the file
    Frames,        \* the frames_ array; its size is pool_capacity_
    None,          \* INVALID_PAGE_ID, INVALID_FRAME_ID and "no thread"
    MaxPins,       \* pages one thread has pinned at a time
    PinModulus,    \* stands for 2^32, the range of pin_count_
    Contents,      \* 0 .. Contents-1 are the page contents told apart
    RacingMisses   \* whether two threads may miss on one page at a time

ASSUME PoolAssumption ==
    /\ MaxPins \in Nat \ {0}
    /\ PinModulus \in Nat \ {0, 1}
    /\ Contents \in Nat \ {0}
    /\ RacingMisses \in BOOLEAN
    /\ None \notin Threads \cup Pages \cup Frames

(* A thread pins a page once at a time, so 2^32 pins are out of reach.     *)
ASSUME PinAssumption == IsFiniteSet(Threads) /\ Cardinality(Threads) < PinModulus

VARIABLES
    frameOf,     \* page_table_: the frame of a cached page, or None
    mru,         \* mru_pages_: <<p, q>> when p is not behind q in the list
    freeFrames,  \* free_frames_list_
    unused,      \* frames at or above pool_size_
    page,        \* Page::page_id_ of a frame
    pin,         \* Page::pin_count_
    dirty,       \* Page::is_dirty_
    data,        \* Page::data_
    frameLatch,  \* the thread that has Page::latch_
    latch,       \* the thread that has latch_ exclusively
    sharers,     \* the threads that have latch_ shared
    disk,        \* contents of the file, page by page
    freePages,   \* DiskManager::free_list_
    virgin,      \* page ids at or above DiskManager::capacity_
    pc,          \* where a thread is
    arg,         \* the page id its call is about
    target,      \* the frame its call is about
    fresh,       \* the call is new_page: the page is not read from the file
    held,        \* the pages a thread has pinned: records [page, frame, wrote]
    known,       \* history: page ids the clients have and have not deleted
    latest       \* history: what the clients last wrote into a page

poolVars   == <<frameOf, mru, freeFrames, unused>>
frameVars  == <<page, pin, dirty, data>>
diskVars   == <<disk, freePages, virgin>>
threadVars == <<pc, arg, target, fresh, held>>
vars == <<poolVars, frameVars, frameLatch, latch, sharers, diskVars, threadVars, known, latest>>

(* wrote: "no" (clean), "yes" (mark_dirty was called), "must" (a new page, *)
(* which every caller of new_page initialises before it unpins it).        *)
Handle == [page : Pages, frame : Frames, wrote : {"no", "yes", "must"}]

-----------------------------------------------------------------------------
(* The replacer: a list without duplicates is the order of its elements.   *)
(* Tracked are the keys of positions_, Removed and Recorded are remove and *)
(* record: a recorded page moves to the end of the list.                   *)
Tracked(o) == {p \in Pages : <<p, p>> \in o}

(* Mutant: the page stays in the list.                                     *)
RemovedNothing(o, p) == o

Removed(o, p) == {e \in o : e[1] # p /\ e[2] # p}

Recorded(o, p) ==
    Removed(o, p) \cup {<<q, p>> : q \in Tracked(o) \cup {p}}

(* Mutant: find_lru does not look at the pin count.                        *)
EvictableAny == {p \in Tracked(mru) : frameOf[p] # None}

Evictable == {p \in Tracked(mru) : frameOf[p] # None /\ pin[frameOf[p]] = 0}

(* find_lru: the first page of the list whose frame is not pinned.         *)
Lru == {p \in Evictable : \A q \in Evictable : <<p, q>> \in mru}

(* Mutant: find_next_frame does not look into free_frames_list_.           *)
NextFramesNotFreed ==
    IF unused # {} THEN unused ELSE {frameOf[p] : p \in Lru}

(* find_next_frame: a freed frame, a frame never used, the LRU victim.     *)
NextFrames ==
    IF freeFrames # {} THEN freeFrames
    ELSE IF unused # {} THEN unused
    ELSE {frameOf[p] : p \in Lru}

LatchFree == latch = None /\ sharers = {}

(* Some thread has missed on the page and is about to bring it in.         *)
MissPending(p) == \E u \in Threads : pc[u] = "swap" /\ arg[u] = p

HeldPages(t) == {h.page : h \in held[t]}

(* Mutant: inc_pin_count is forgotten on a hit.                            *)
PinnedOnce(f) == pin

(* inc_pin_count and dec_pin_count on an unsigned 32-bit counter.          *)
PinnedAgain(f) == [pin EXCEPT ![f] = (@ + 1) % PinModulus]

UnpinnedOnce(f) == [pin EXCEPT ![f] = (@ + PinModulus - 1) % PinModulus]

(* reset_memory and then inc_pin_count.                                    *)
PinFirst(f) == [pin EXCEPT ![f] = 1]

(* Mutant: the victim is not written back.                                 *)
FlushedNothing(f) == disk

(* flush_page of the frame's page if it is dirty.                          *)
Flushed(f) ==
    [p \in Pages |-> IF p = page[f] /\ dirty[f] THEN data[f] ELSE disk[p]]

(* free_list_.pop_back of DiskManager::allocate_page.                      *)
Taken(p) == freePages \ {p}

(* Mutant: the frame is put on the free list also if there is none.        *)
FreedAlways(f) == freeFrames \cup {f}

(* free_frames_list_.push_back of delete_page, if the page has a frame.    *)
Freed(f) == freeFrames \cup ({f} \ {None})

(* The call returns and its locals are gone.                               *)
Return(t) ==
    /\ pc' = [pc EXCEPT ![t] = "idle"]
    /\ arg' = [arg EXCEPT ![t] = None]
    /\ target' = [target EXCEPT ![t] = None]
    /\ fresh' = [fresh EXCEPT ![t] = FALSE]

-----------------------------------------------------------------------------
Init ==
    /\ frameOf = [p \in Pages |-> None]
    /\ mru = {}
    /\ freeFrames = {} /\ unused = Frames
    /\ page = [f \in Frames |-> None]
    /\ pin = [f \in Frames |-> 0]
    /\ dirty = [f \in Frames |-> FALSE]
    /\ data = [f \in Frames |-> 0]
    /\ frameLatch = [f \in Frames |-> None]
    /\ latch = None /\ sharers = {}
    /\ disk = [p \in Pages |-> 0]
    /\ freePages = {} /\ virgin = Pages
    /\ pc = [t \in Threads |-> "idle"]
    /\ arg = [t \in Threads |-> None]
    /\ target = [t \in Threads |-> None]
    /\ fresh = [t \in Threads |-> FALSE]
    /\ held = [t \in Threads |-> {}]
    /\ known = {}
    /\ latest = [p \in Pages |-> 0]

(* new_page: the id is allocated before any frame has been found.          *)
NewPage(t) ==
    /\ pc[t] = "idle" /\ Cardinality(held[t]) < MaxPins
    /\ \E p \in IF freePages # {} THEN freePages ELSE virgin :
         /\ freePages' = Taken(p)
         /\ virgin' = virgin \ {p}
         /\ arg' = [arg EXCEPT ![t] = p]
    /\ fresh' = [fresh EXCEPT ![t] = TRUE]
    /\ pc' = [pc EXCEPT ![t] = "swap"]
    /\ UNCHANGED <<poolVars, frameVars, frameLatch, latch, sharers, disk,
                   target, held, known, latest>>

(* fetch_page: find_cached_page takes latch_ and looks the page up ...     *)
FetchPage(t, p) ==
    /\ pc[t] = "idle" /\ Cardinality(held[t]) < MaxPins
    /\ p \in known \ HeldPages(t)
    /\ RacingMisses \/ ~MissPending(p)
    /\ LatchFree
    /\ latch' = t
    /\ arg' = [arg EXCEPT ![t] = p]
    /\ fresh' = [fresh EXCEPT ![t] = FALSE]
    /\ pc' = [pc EXCEPT ![t] = "find"]
    /\ UNCHANGED <<poolVars, frameVars, frameLatch, sharers, diskVars,
                   target, held, known, latest>>

(* ... pins the frame it finds ...                                         *)
FindHit(t) ==
    /\ pc[t] = "find"
    /\ LET f == frameOf[arg[t]] IN
       /\ f # None
       /\ frameLatch[f] = None
       /\ pin' = PinnedAgain(f)
       /\ held' = [held EXCEPT ![t] = @ \cup {[page |-> arg[t], frame |-> f, wrote |-> "no"]}]
    /\ mru' = Recorded(mru, arg[t])
    /\ latch' = None
    /\ Return(t)
    /\ UNCHANGED <<frameOf, freeFrames, unused, page, dirty, data, frameLatch,
                   sharers, diskVars, known, latest>>

(* Mutant: a miss is looked up again instead of being read in.             *)
FindMissSpins(t) ==
    /\ pc[t] = "find"
    /\ frameOf[arg[t]] = None
    /\ UNCHANGED vars

(* ... or gives latch_ back and goes on to swap_page, which does not look  *)
(* again whether the page has been brought in meanwhile.                   *)
FindMiss(t) ==
    /\ pc[t] = "find"
    /\ frameOf[arg[t]] = None
    /\ latch' = None
    /\ pc' = [pc EXCEPT ![t] = "swap"]
    /\ UNCHANGED <<poolVars, frameVars, frameLatch, sharers, diskVars,
                   arg, target, fresh, held, known, latest>>

(* swap_page up to the release of latch_: evict (and flush) what the frame *)
(* has and map the new page.  inc_pin_count follows.                       *)
Install(f, p) ==
    LET old == page[f] IN
    /\ frameLatch[f] = None
    /\ frameOf' = [q \in Pages |-> IF q = p THEN f
                                   ELSE IF q = old THEN None ELSE frameOf[q]]
    /\ mru' = Recorded(Removed(mru, old), p)
    /\ disk' = Flushed(f)
    /\ page' = [page EXCEPT ![f] = p]
    /\ data' = [data EXCEPT ![f] = 0]
    /\ dirty' = [dirty EXCEPT ![f] = FALSE]
    /\ freeFrames' = freeFrames \ {f}
    /\ unused' = unused \ {f}
    /\ UNCHANGED <<latch, sharers, freePages, virgin>>

(* For new_page that is all: the zeroed frame is handed out.               *)
SwapNew(t) ==
    /\ pc[t] = "swap" /\ fresh[t]
    /\ LatchFree
    /\ \E f \in NextFrames :
         /\ Install(f, arg[t])
         /\ pin' = PinFirst(f)
         /\ held' = [held EXCEPT ![t] =
               @ \cup {[page |-> arg[t], frame |-> f, wrote |-> "must"]}]
    /\ known' = known \cup {arg[t]}
    /\ latest' = [latest EXCEPT ![arg[t]] = 0]
    /\ Return(t)
    /\ UNCHANGED frameLatch

(* For fetch_page the frame's latch is kept for the read that follows.     *)
SwapFetch(t) ==
    /\ pc[t] = "swap" /\ ~fresh[t]
    /\ LatchFree
    /\ \E f \in NextFrames :
         /\ Install(f, arg[t])
         /\ pin' = PinFirst(f)
         /\ frameLatch' = [frameLatch EXCEPT ![f] = t]
         /\ target' = [target EXCEPT ![t] = f]
    /\ pc' = [pc EXCEPT ![t] = "read"]
    /\ UNCHANGED <<arg, fresh, held, known, latest>>

(* swap_page without a frame: nullptr.  An id that new_page allocated      *)
(* stays allocated, and nobody knows it.                                   *)
SwapFull(t) ==
    /\ pc[t] = "swap"
    /\ LatchFree
    /\ NextFrames = {}
    /\ Return(t)
    /\ UNCHANGED <<poolVars, frameVars, frameLatch, latch, sharers, diskVars,
                   held, known, latest>>

(* swap_page after latch_: the read, under the frame's latch.              *)
ReadIn(t) ==
    /\ pc[t] = "read"
    /\ LET f == target[t]
           p == arg[t]
       IN  /\ data' = [data EXCEPT ![f] = disk[p]]
           /\ frameLatch' = [frameLatch EXCEPT ![f] = None]
           /\ held' = [held EXCEPT ![t] =
                 @ \cup {[page |-> p, frame |-> f, wrote |-> "no"]}]
    /\ Return(t)
    /\ UNCHANGED <<poolVars, page, pin, dirty, latch, sharers, diskVars,
                   known, latest>>

(* delete_page: take latch_ and look the page up ...  Its callers delete a *)
(* page that no other thread is about to fetch (the page insert_tuple      *)
(* could not link, the pages of a dropped table).                          *)
DeletePage(t, p) ==
    /\ pc[t] = "idle"
    /\ p \in known
    /\ ~MissPending(p)
    /\ LatchFree
    /\ latch' = t
    /\ arg' = [arg EXCEPT ![t] = p]
    /\ pc' = [pc EXCEPT ![t] = "delete"]
    /\ UNCHANGED <<poolVars, frameVars, frameLatch, sharers, diskVars,
                   target, fresh, held, known, latest>>

(* ... refuse if it is pinned ...                                          *)
DeleteRefused(t) ==
    /\ pc[t] = "delete"
    /\ LET f == frameOf[arg[t]] IN f # None /\ frameLatch[f] = None /\ pin[f] > 0
    /\ latch' = None
    /\ Return(t)
    /\ UNCHANGED <<poolVars, frameVars, frameLatch, sharers, diskVars,
                   held, known, latest>>

(* ... otherwise free its frame, if it has one, and its id.                *)
DeleteDone(t) ==
    /\ pc[t] = "delete"
    /\ LET p == arg[t]
           f == frameOf[p]
       IN
       /\ f # None => frameLatch[f] = None /\ pin[f] = 0
       /\ frameOf' = [frameOf EXCEPT ![p] = None]
       /\ mru' = IF f # None THEN Removed(mru, p) ELSE mru
       /\ page' = [g \in Frames |-> IF g = f THEN None ELSE page[g]]
       /\ data' = [g \in Frames |-> IF g = f THEN 0 ELSE data[g]]
       /\ dirty' = [g \in Frames |-> IF g = f THEN FALSE ELSE dirty[g]]
       /\ freeFrames' = Freed(f)
       /\ freePages' = freePages \cup {p}
       /\ known' = known \ {p}
    /\ latch' = None
    /\ Return(t)
    /\ UNCHANGED <<unused, pin, frameLatch, sharers, disk, virgin,
                   held, latest>>

(* unpin_page by a PinnedPage: the page id is the one its frame has now.   *)
(* latch_ is taken shared ...                                              *)
UnpinPage(t, h) ==
    /\ pc[t] = "idle"
    /\ h \in held[t] /\ h.wrote # "must"
    /\ latch = None
    /\ sharers' = sharers \cup {t}
    /\ arg' = [arg EXCEPT ![t] = page[h.frame]]
    /\ fresh' = [fresh EXCEPT ![t] = (h.wrote = "yes")]
    /\ held' = [held EXCEPT ![t] = @ \ {h}]
    /\ pc' = [pc EXCEPT ![t] = "unpin"]
    /\ UNCHANGED <<poolVars, frameVars, frameLatch, latch, diskVars, target, known, latest>>

(* ... and the frame that now has this page loses one pin.                 *)
Unpinned(t) ==
    /\ pc[t] = "unpin"
    /\ LET p == arg[t]
           f == IF p = None THEN None ELSE frameOf[p]
       IN  \/ /\ f = None
              /\ UNCHANGED <<pin, dirty>>
           \/ /\ f # None
              /\ frameLatch[f] = None
              /\ dirty' = [dirty EXCEPT ![f] = @ \/ fresh[t]]
              /\ pin' = UnpinnedOnce(f)
    /\ sharers' = sharers \ {t}
    /\ Return(t)
    /\ UNCHANGED <<poolVars, page, data, frameLatch, latch, diskVars,
                   held, known, latest>>

(* flush_all: every dirty frame is written; it stays dirty.                *)
FlushAll(t) ==
    /\ pc[t] = "idle"
    /\ LatchFree
    /\ \E f \in Frames \ unused : dirty[f]
    /\ disk' = [p \in Pages |->
                  IF \E f \in Frames \ unused : dirty[f] /\ page[f] = p
                  THEN data[CHOOSE f \in Frames \ unused : dirty[f] /\ page[f] = p]
                  ELSE disk[p]]
    /\ UNCHANGED <<poolVars, frameVars, frameLatch, latch, sharers, freePages,
                   virgin, threadVars, known, latest>>

(* The caller of the pool latches a frame it has pinned ...                *)
LatchFrame(t, h) ==
    /\ pc[t] = "idle"
    /\ h \in held[t]
    /\ frameLatch[h.frame] = None
    /\ frameLatch' = [frameLatch EXCEPT ![h.frame] = t]
    /\ target' = [target EXCEPT ![t] = h.frame]
    /\ pc' = [pc EXCEPT ![t] = "use"]
    /\ UNCHANGED <<poolVars, frameVars, latch, sharers, diskVars, arg, fresh, held, known, latest>>

(* ... and writes it (mark_dirty on its PinnedPage), or only reads it; it  *)
(* unlatches the frame before it calls the pool again.                     *)
WriteFrame(t) ==
    /\ pc[t] = "use"
    /\ LET f == target[t]
           h == CHOOSE g \in held[t] : g.frame = f
           c == (data[f] + 1) % Contents
       IN  /\ data' = [data EXCEPT ![f] = c]
           /\ latest' = [latest EXCEPT ![h.page] = c]
           /\ held' = [held EXCEPT ![t] = (@ \ {h}) \cup {[h EXCEPT !.wrote = "yes"]}]
           /\ frameLatch' = [frameLatch EXCEPT ![f] = None]
    /\ Return(t)
    /\ UNCHANGED <<poolVars, page, pin, dirty, latch, sharers, diskVars,
                   known>>

ReadFrame(t) ==
    /\ pc[t] = "use"
    /\ frameLatch' = [frameLatch EXCEPT ![target[t]] = None]
    /\ Return(t)
    /\ UNCHANGED <<poolVars, frameVars, latch, sharers, diskVars,
                   held, known, latest>>

Call(t) ==
    \/ NewPage(t) \/ FlushAll(t)
    \/ \E p \in Pages : FetchPage(t, p) \/ DeletePage(t, p)
    \/ \E h \in held[t] : UnpinPage(t, h) \/ LatchFrame(t, h)

Continue(t) ==
    \/ FindHit(t) \/ FindMiss(t)
    \/ SwapNew(t) \/ SwapFetch(t) \/ SwapFull(t) \/ ReadIn(t)
    \/ DeleteRefused(t) \/ DeleteDone(t) \/ Unpinned(t)
    \/ WriteFrame(t) \/ ReadFrame(t)

Next == \E t \in Threads : Call(t) \/ Continue(t)

Spec == Init /\ [][Next]_vars

-----------------------------------------------------------------------------
Pcs == {"idle", "find", "swap", "read", "delete", "unpin", "use"}

TypeOK ==
    /\ frameOf \in [Pages -> Frames \cup {None}]
    /\ mru \in SUBSET (Pages \X Pages)
    /\ freeFrames \in SUBSET Frames /\ unused \in SUBSET Frames
    /\ page \in [Frames -> Pages \cup {None}]
    /\ pin \in [Frames -> 0 .. PinModulus - 1]
    /\ dirty \in [Frames -> BOOLEAN]
    /\ data \in [Frames -> 0 .. Contents - 1]
    /\ frameLatch \in [Frames -> Threads \cup {None}]
    /\ latch \in Threads \cup {None} /\ sharers \in SUBSET Threads
    /\ disk \in [Pages -> 0 .. Contents - 1]
    /\ freePages \in SUBSET Pages /\ virgin \in SUBSET Pages
    /\ pc \in [Threads -> Pcs]
    /\ arg \in [Threads -> Pages \cup {None}]
    /\ target \in [Threads -> Frames \cup {None}]
    /\ fresh \in [Threads -> BOOLEAN]
    /\ held \in [Threads -> SUBSET Handle]
    /\ known \in SUBSET Pages
    /\ latest \in [Pages -> 0 .. Contents - 1]

(* page_table_, the page ids in the frames, the replacer's list and the    *)
(* two lists of frames, which delete_page and swap_page change one after   *)
(* the other, describe one and the same cache.                             *)
TableConsistent ==
    /\ \A p \in Pages : frameOf[p] # None => page[frameOf[p]] = p
    /\ Tracked(mru) = {p \in Pages : frameOf[p] # None}
    /\ freeFrames \cap unused = {}
    /\ \A f \in freeFrames \cup unused : page[f] = None /\ ~dirty[f] /\ pin[f] = 0

(* A pinned page stays in the frame its holder was given: no eviction, no  *)
(* deletion and no second copy takes it away.                              *)
HandlesValid ==
    \A t \in Threads : \A h \in held[t] :
        page[h.frame] = h.page /\ frameOf[h.page] = h.frame

(* pin_count_ is the number of holders, the threads that are still reading *)
(* the page in or about to drop it included: it never wraps below zero.    *)
Holders(f) ==
    {t \in Threads : \/ \E h \in held[t] : h.frame = f
                     \/ pc[t] = "read" /\ target[t] = f
                     \/ pc[t] = "unpin" /\ arg[t] # None /\ frameOf[arg[t]] = f}

PinsCounted == \A f \in Frames : pin[f] = Cardinality(Holders(f))

(* What the clients last wrote into a page is in its frame while the page  *)
(* is cached and in the file otherwise, across evictions and reloads.      *)
NoLostWrite ==
    \A p \in known :
        LET f == frameOf[p] IN
        IF f = None THEN disk[p] = latest[p]
        ELSE IF \E t \in Threads : pc[t] = "read" /\ target[t] = f
        THEN disk[p] = latest[p]
        ELSE /\ data[f] = latest[p]
             /\ dirty[f] \/ disk[p] = latest[p]
                \/ \E t \in Threads :
                      \/ \E h \in held[t] : h.frame = f /\ h.wrote # "no"
                      \/ pc[t] = "unpin" /\ arg[t] = p /\ fresh[t]

(* The pool turns a caller away (nullptr) only when every frame is pinned. *)
RefusedOnlyWhenPinned ==
    [][\A t \in Threads :
          (pc[t] = "swap" /\ pc'[t] = "idle" /\ held'[t] = held[t]) =>
              \A f \in Frames : pin[f] > 0]_vars

(* Every call returns.  latch_ is starvation free and a client lets go of  *)
(* a frame it has latched; nobody is made to call anything.                *)
Fairness == \A t \in Threads : SF_vars(Continue(t))

FairSpec == Spec /\ Fairness

CallsReturn == \A t \in Threads : pc[t] # "idle" ~> pc[t] = "idle"
=============================================================================
