-------------------------- MODULE BufferPoolProofs --------------------------
(***************************************************************************)
(* For any number of threads, pages and frames, and whether or not two     *)
(* threads miss on one page at a time: the page table, the page ids of the *)
(* frames, the replacer and the lists of free frames stay consistent.      *)
(* What racing misses break is the pinning, the second half of this module *)
(* and about threads that never miss on one page at a time.                *)
(***************************************************************************)
EXTENDS BufferPool, FiniteSetTheorems, TLAPS

(* What a thread's locals are while it is inside a call.                   *)
LocalsOK ==
    \A t \in Threads :
        /\ pc[t] \in {"find", "swap", "read", "delete"} => arg[t] \in Pages
        /\ pc[t] \in {"read", "use"} => target[t] \in Frames
        /\ pc[t] = "use" => \E h \in held[t] : h.frame = target[t]

IInv == TypeOK /\ LocalsOK /\ TableConsistent

(* What a step needs to change for the structure to be at stake.           *)
structure == <<frameOf, mru, freeFrames, unused, page>>

-----------------------------------------------------------------------------
(* remove and record change the set of pages in the list as a list does.   *)
LEMMA ReplacerSets ==
    ASSUME NEW o \in SUBSET (Pages \X Pages), NEW p \in Pages, NEW old \in Pages \cup {None}
    PROVE  /\ Removed(o, old) \in SUBSET (Pages \X Pages)
           /\ Recorded(o, p) \in SUBSET (Pages \X Pages)
           /\ Tracked(Removed(o, old)) = Tracked(o) \ {old}
           /\ Tracked(Recorded(o, p)) = Tracked(o) \cup {p}
<1>1. Removed(o, old) \in SUBSET (Pages \X Pages)
  BY DEF Removed
<1>2. Recorded(o, p) \in SUBSET (Pages \X Pages)
  <2>1. Removed(o, p) \in SUBSET (Pages \X Pages)
    BY DEF Removed
  <2>2. \A q \in Tracked(o) \cup {p} : <<q, p>> \in Pages \X Pages
    BY DEF Tracked
  <2> QED  BY <2>1, <2>2 DEF Recorded
<1>3. ASSUME NEW q \in Pages, NEW x \in Pages \cup {None}
      PROVE  <<q, q>> \in Removed(o, x) <=> (<<q, q>> \in o /\ q # x)
  BY DEF Removed
<1>4. Tracked(Removed(o, old)) = Tracked(o) \ {old}
  BY <1>3 DEF Tracked
<1>5. ASSUME NEW q \in Pages
      PROVE  <<q, q>> \in Recorded(o, p) <=> (<<q, q>> \in o \/ q = p)
  <2>1. <<q, q>> \in {<<r, p>> : r \in Tracked(o) \cup {p}} <=> q = p
    BY DEF Tracked
  <2> QED  BY <1>3, <2>1 DEF Recorded
<1>6. Tracked(Recorded(o, p)) = Tracked(o) \cup {p}
  BY <1>5 DEF Tracked
<1> QED  BY <1>1, <1>2, <1>4, <1>6

(* Pin counts stay in the range of their type.                             *)
LEMMA PinRange ==
    ASSUME TypeOK, NEW f \in Frames
    PROVE  /\ PinnedAgain(f) \in [Frames -> 0 .. PinModulus - 1]
           /\ UnpinnedOnce(f) \in [Frames -> 0 .. PinModulus - 1]
           /\ PinFirst(f) \in [Frames -> 0 .. PinModulus - 1]
<1>1. pin \in [Frames -> 0 .. PinModulus - 1] /\ PinModulus \in Nat \ {0, 1}
  BY PoolAssumption DEF TypeOK
<1>2. pin[f] \in Nat
  BY <1>1
<1>3. \A n \in Nat : n % PinModulus \in 0 .. PinModulus - 1
  BY <1>1
<1>4. (pin[f] + 1) % PinModulus \in 0 .. PinModulus - 1
      /\ (pin[f] + PinModulus - 1) % PinModulus \in 0 .. PinModulus - 1
  BY <1>1, <1>2, <1>3
<1> QED  BY <1>1, <1>4 DEF PinnedAgain, UnpinnedOnce, PinFirst

(* The structure only depends on these variables: a step that leaves them  *)
(* and the pins and dirty bits of the free frames alone preserves it.      *)
LEMMA StructureFrame ==
    ASSUME TypeOK, TableConsistent, UNCHANGED structure,
           \A f \in freeFrames \cup unused : pin'[f] = pin[f] /\ dirty'[f] = dirty[f]
    PROVE  TableConsistent'
  BY DEF TableConsistent, structure, Tracked

(* Frames that the page table names are not free.                          *)
LEMMA MappedNotFree ==
    ASSUME TypeOK, TableConsistent, NEW p \in Pages, frameOf[p] # None
    PROVE  frameOf[p] \in Frames /\ frameOf[p] \notin freeFrames \cup unused
  BY PoolAssumption DEF TypeOK, TableConsistent

(* An empty pool is consistent.                                            *)
LEMMA InitIInv == Init => IInv
<1> SUFFICES ASSUME Init PROVE IInv
  OBVIOUS
<1>1. TypeOK
  BY PoolAssumption DEF Init, TypeOK, Pcs
<1>2. LocalsOK
  BY DEF Init, LocalsOK
<1>3. TableConsistent
  BY PoolAssumption DEF Init, TableConsistent, Tracked
<1> QED  BY <1>1, <1>2, <1>3 DEF IInv

(* swap_page under latch_, for any frame find_next_frame can return.       *)
LEMMA InstallStep ==
    ASSUME IInv, NEW p \in Pages, NEW f \in NextFrames, Install(f, p),
           pin' = PinFirst(f)
    PROVE  /\ f \in Frames
           /\ TableConsistent'
           /\ frameOf' \in [Pages -> Frames \cup {None}]
           /\ mru' \in SUBSET (Pages \X Pages)
           /\ freeFrames' \in SUBSET Frames /\ unused' \in SUBSET Frames
           /\ page' \in [Frames -> Pages \cup {None}]
           /\ pin' \in [Frames -> 0 .. PinModulus - 1]
           /\ dirty' \in [Frames -> BOOLEAN]
           /\ data' \in [Frames -> 0 .. Contents - 1]
           /\ disk' \in [Pages -> 0 .. Contents - 1]
<1> DEFINE old == page[f]
<1>1. f \in Frames
  BY PoolAssumption DEF IInv, TypeOK, NextFrames, Lru, Evictable, Tracked
<1>2. old \in Pages \cup {None}
  BY <1>1 DEF IInv, TypeOK
<1>3. /\ frameOf' = [q \in Pages |-> IF q = p THEN f
                                     ELSE IF q = old THEN None ELSE frameOf[q]]
      /\ mru' = Recorded(Removed(mru, old), p)
      /\ page' = [page EXCEPT ![f] = p]
      /\ dirty' = [dirty EXCEPT ![f] = FALSE]
      /\ pin' = PinFirst(f)
      /\ freeFrames' = freeFrames \ {f} /\ unused' = unused \ {f}
  BY DEF Install
<1>4. /\ mru' \in SUBSET (Pages \X Pages)
      /\ Tracked(mru') = (Tracked(mru) \ {old}) \cup {p}
  <2>1. /\ Removed(mru, old) \in SUBSET (Pages \X Pages)
        /\ Tracked(Removed(mru, old)) = Tracked(mru) \ {old}
    BY <1>2, ReplacerSets DEF IInv, TypeOK
  <2> QED  BY <1>3, <2>1, ReplacerSets
<1>5. /\ frameOf' \in [Pages -> Frames \cup {None}]
      /\ freeFrames' \in SUBSET Frames /\ unused' \in SUBSET Frames
      /\ page' \in [Frames -> Pages \cup {None}]
      /\ dirty' \in [Frames -> BOOLEAN]
  BY <1>1, <1>3 DEF IInv, TypeOK
<1>6. pin' \in [Frames -> 0 .. PinModulus - 1]
  BY <1>1, <1>3, PinRange DEF IInv
<1>7. /\ data' \in [Frames -> 0 .. Contents - 1]
      /\ disk' \in [Pages -> 0 .. Contents - 1]
  BY <1>1, PoolAssumption DEF IInv, TypeOK, Install, Flushed
<1>8. TableConsistent'
  <2>1. ASSUME NEW q \in Pages, frameOf'[q] # None PROVE page'[frameOf'[q]] = q
    <3>1. CASE q = p
      BY <1>1, <1>3, <3>1 DEF IInv, TypeOK
    <3>2. CASE q # p
      <4>1. q # old /\ frameOf'[q] = frameOf[q] /\ page[frameOf[q]] = q
        BY <1>3, <2>1, <3>2 DEF IInv, TableConsistent
      <4>2. frameOf[q] # f
        BY <4>1
      <4> QED  BY <1>3, <2>1, <4>1, <4>2 DEF IInv, TypeOK
    <3> QED  BY <3>1, <3>2
  <2>2. Tracked(mru)' = {q \in Pages : frameOf'[q] # None}
    <3>1. Tracked(mru)' = Tracked(mru')
      BY DEF Tracked
    <3>2. f # None
      BY <1>1, PoolAssumption
    <3>3. Tracked(mru) = {q \in Pages : frameOf[q] # None}
      BY DEF IInv, TableConsistent
    <3> QED  BY <1>3, <1>4, <3>1, <3>2, <3>3
  <2>3. \A g \in freeFrames' \cup unused' :
            page'[g] = None /\ ~dirty'[g] /\ pin'[g] = 0
    BY <1>1, <1>3 DEF IInv, TypeOK, TableConsistent, PinFirst
  <2> QED  BY <1>3, <2>1, <2>2, <2>3 DEF IInv, TableConsistent
<1> QED  BY <1>1, <1>4, <1>5, <1>6, <1>7, <1>8

(* delete_page once it knows that the page is not pinned.                  *)
LEMMA DeleteStep ==
    ASSUME IInv, NEW t \in Threads, DeleteDone(t)
    PROVE  IInv'
<1> DEFINE p == arg[t]
           f == frameOf[p]
<1>1. p \in Pages /\ f \in Frames \cup {None}
  BY DEF IInv, TypeOK, LocalsOK, DeleteDone
<1>2. /\ f # None => pin[f] = 0
      /\ frameOf' = [frameOf EXCEPT ![p] = None]
      /\ mru' = IF f # None THEN Removed(mru, p) ELSE mru
      /\ page' = [g \in Frames |-> IF g = f THEN None ELSE page[g]]
      /\ data' = [g \in Frames |-> IF g = f THEN 0 ELSE data[g]]
      /\ dirty' = [g \in Frames |-> IF g = f THEN FALSE ELSE dirty[g]]
      /\ freeFrames' = freeFrames \cup ({f} \ {None})
      /\ freePages' = freePages \cup {p} /\ known' = known \ {p}
      /\ latch' = None /\ Return(t)
      /\ UNCHANGED <<unused, pin, frameLatch, sharers, disk, virgin, held, latest>>
  BY DEF DeleteDone, Freed
<1> HIDE DEF p, f
<1>3. mru' \in SUBSET (Pages \X Pages) /\ Tracked(mru') = Tracked(mru) \ {p}
  <2>1. f = None => p \notin Tracked(mru)
    BY <1>1 DEF IInv, TableConsistent, f
  <2>2. mru \in SUBSET (Pages \X Pages)
    BY DEF IInv, TypeOK
  <2> QED  BY <1>1, <1>2, <2>1, <2>2, ReplacerSets
<1>4. TypeOK'
  <2>1. pc' \in [Threads -> Pcs] /\ arg' \in [Threads -> Pages \cup {None}]
        /\ target' \in [Threads -> Frames \cup {None}] /\ fresh' \in [Threads -> BOOLEAN]
    BY <1>2 DEF IInv, TypeOK, Return, Pcs
  <2>2. /\ page' \in [Frames -> Pages \cup {None}]
        /\ data' \in [Frames -> 0 .. Contents - 1]
        /\ dirty' \in [Frames -> BOOLEAN]
    <3>1. 0 \in 0 .. Contents - 1
      BY PoolAssumption
    <3>2. page' \in [Frames -> Pages \cup {None}]
      BY <1>2 DEF IInv, TypeOK
    <3>3. data' \in [Frames -> 0 .. Contents - 1]
      BY <1>2, <3>1 DEF IInv, TypeOK
    <3>4. dirty' \in [Frames -> BOOLEAN]
      BY <1>2 DEF IInv, TypeOK
    <3> QED  BY <3>2, <3>3, <3>4
  <2> QED  BY <1>1, <1>2, <1>3, <2>1, <2>2 DEF IInv, TypeOK
<1>5. LocalsOK'
  BY <1>2 DEF IInv, TypeOK, LocalsOK, Return
<1>6. TableConsistent'
  <2>1. f # None => f \notin freeFrames \cup unused /\ page[f] = p
    BY <1>1, MappedNotFree DEF IInv, TableConsistent, f
  <2>2. ASSUME NEW q \in Pages, frameOf'[q] # None PROVE page'[frameOf'[q]] = q
    <3>1. q # p /\ frameOf'[q] = frameOf[q] /\ page[frameOf[q]] = q
      BY <1>1, <1>2, <2>2 DEF IInv, TypeOK, TableConsistent
    <3>2. frameOf[q] # f /\ frameOf[q] \in Frames
      BY <2>1, <2>2, <3>1 DEF IInv, TypeOK
    <3> QED  BY <1>2, <3>1, <3>2
  <2>3. Tracked(mru)' = {q \in Pages : frameOf'[q] # None}
    <3>1. Tracked(mru)' = Tracked(mru')
      BY DEF Tracked
    <3> QED  BY <1>1, <1>2, <1>3, <3>1 DEF IInv, TypeOK, TableConsistent
  <2>4. \A g \in freeFrames' \cup unused' :
            page'[g] = None /\ ~dirty'[g] /\ pin'[g] = 0
    BY <1>1, <1>2 DEF IInv, TypeOK, TableConsistent
  <2> QED  BY <1>1, <1>2, <2>1, <2>2, <2>3, <2>4 DEF IInv, TableConsistent
<1> QED  BY <1>4, <1>5, <1>6 DEF IInv

(* Steps that move a thread and touch neither the pool nor a frame.        *)
LEMMA CallStep ==
    ASSUME IInv, NEW t \in Threads,
           \/ NewPage(t) \/ FlushAll(t) \/ FindMiss(t) \/ SwapFull(t)
           \/ DeleteRefused(t) \/ ReadFrame(t)
           \/ \E p \in Pages : FetchPage(t, p) \/ DeletePage(t, p)
           \/ \E h \in held[t] : UnpinPage(t, h) \/ LatchFrame(t, h)
    PROVE  IInv'
<1> USE DEF IInv
<1>1. UNCHANGED <<frameOf, mru, freeFrames, unused, page, pin, dirty, data>>
  BY DEF NewPage, FlushAll, FindMiss, SwapFull, DeleteRefused, ReadFrame, FetchPage,
         DeletePage, UnpinPage, LatchFrame, poolVars, frameVars
<1>2. TableConsistent'
  BY <1>1, StructureFrame DEF structure
<1>3. TypeOK' /\ LocalsOK'
  <2>1. CASE NewPage(t)
    <3>1. PICK p \in Pages : /\ freePages' = Taken(p) /\ virgin' = virgin \ {p}
                             /\ arg' = [arg EXCEPT ![t] = p]
      BY <2>1 DEF NewPage, TypeOK
    <3> QED  BY <1>1, <2>1, <3>1 DEF NewPage, Taken, TypeOK, LocalsOK, Pcs
  <2>2. CASE FlushAll(t)
    <3>1. disk' \in [Pages -> 0 .. Contents - 1]
      <4> SUFFICES ASSUME NEW p \in Pages,
                          \E f \in Frames \ unused : dirty[f] /\ page[f] = p
                   PROVE  data[CHOOSE f \in Frames \ unused : dirty[f] /\ page[f] = p]
                            \in 0 .. Contents - 1
        BY <2>2 DEF FlushAll, TypeOK
      <4> QED  BY DEF TypeOK
    <3> QED  BY <1>1, <2>2, <3>1 DEF FlushAll, threadVars, TypeOK, LocalsOK
  <2>3. CASE FindMiss(t)
    BY <1>1, <2>3 DEF FindMiss, diskVars, TypeOK, LocalsOK, Pcs
  <2>4. CASE SwapFull(t) \/ DeleteRefused(t)
    <3>1. /\ Return(t) /\ latch' \in Threads \cup {None}
          /\ UNCHANGED <<frameLatch, sharers, disk, freePages, virgin, held, known, latest>>
      BY <2>4 DEF SwapFull, DeleteRefused, diskVars, TypeOK
    <3>2. TypeOK'
      BY <1>1, <3>1 DEF Return, TypeOK, Pcs
    <3>3. LocalsOK'
      BY <3>1 DEF Return, TypeOK, LocalsOK
    <3> QED  BY <3>2, <3>3
  <2>5. CASE ReadFrame(t)
    BY <1>1, <2>5 DEF ReadFrame, Return, diskVars, TypeOK, LocalsOK, Pcs
  <2>6. ASSUME NEW p \in Pages, FetchPage(t, p) \/ DeletePage(t, p)
        PROVE  TypeOK' /\ LocalsOK'
    <3>1. /\ pc' = [pc EXCEPT ![t] = "find"] \/ pc' = [pc EXCEPT ![t] = "delete"]
          /\ arg' = [arg EXCEPT ![t] = p] /\ latch' = t
          /\ fresh' = [fresh EXCEPT ![t] = FALSE] \/ fresh' = fresh
          /\ UNCHANGED <<frameLatch, sharers, disk, freePages, virgin, target, held,
                         known, latest>>
      BY <2>6 DEF FetchPage, DeletePage, diskVars
    <3>2. TypeOK'
      BY <1>1, <3>1 DEF TypeOK, Pcs
    <3>3. LocalsOK'
      BY <3>1 DEF TypeOK, LocalsOK
    <3> QED  BY <3>2, <3>3
  <2>7. ASSUME NEW h \in held[t], UnpinPage(t, h) PROVE TypeOK' /\ LocalsOK'
    <3>1. h \in Handle /\ h.frame \in Frames
      BY DEF TypeOK, Handle
    <3>2. page[h.frame] \in Pages \cup {None} /\ (h.wrote = "yes") \in BOOLEAN
      BY <3>1 DEF TypeOK
    <3> QED  BY <1>1, <2>7, <3>1, <3>2 DEF UnpinPage, diskVars, TypeOK, LocalsOK, Pcs
  <2>8. ASSUME NEW h \in held[t], LatchFrame(t, h) PROVE TypeOK' /\ LocalsOK'
    <3>1. h \in Handle /\ h.frame \in Frames
      BY DEF TypeOK, Handle
    <3> QED  BY <1>1, <2>8, <3>1 DEF LatchFrame, diskVars, TypeOK, LocalsOK, Pcs
  <2> QED  BY <2>1, <2>2, <2>3, <2>4, <2>5, <2>6, <2>7, <2>8
<1> QED  BY <1>2, <1>3

(* Steps that change one frame that the page table names, or its contents. *)
LEMMA FrameStep ==
    ASSUME IInv, NEW t \in Threads,
           FindHit(t) \/ Unpinned(t) \/ ReadIn(t) \/ WriteFrame(t)
    PROVE  IInv'
<1> USE DEF IInv
<1>1. CASE FindHit(t)
  <2> DEFINE p == arg[t]
             f == frameOf[p]
             h == [page |-> p, frame |-> f, wrote |-> "no"]
  <2>1. /\ p \in Pages /\ f # None /\ f \in Frames /\ f \notin freeFrames \cup unused
        /\ h \in Handle
    BY <1>1, MappedNotFree DEF FindHit, LocalsOK, Handle
  <2>2. /\ pin' = PinnedAgain(f) /\ mru' = Recorded(mru, p) /\ latch' = None
        /\ held' = [held EXCEPT ![t] = @ \cup {h}] /\ Return(t)
        /\ UNCHANGED <<frameOf, freeFrames, unused, page, dirty, data, frameLatch,
                       sharers, disk, freePages, virgin, known, latest>>
    BY <1>1 DEF FindHit, diskVars
  <2> HIDE DEF p, f, h
  <2>3. /\ mru' \in SUBSET (Pages \X Pages)
        /\ Tracked(mru') = Tracked(mru) \cup {p}
        /\ pin' \in [Frames -> 0 .. PinModulus - 1]
    BY <2>1, <2>2, ReplacerSets, PinRange DEF TypeOK
  <2>4. TypeOK' /\ LocalsOK'
    <3>1. held' \in [Threads -> SUBSET Handle]
      BY <2>1, <2>2 DEF TypeOK
    <3>2. TypeOK'
      BY <2>2, <2>3, <3>1 DEF TypeOK, Return, Pcs
    <3>3. LocalsOK'
      BY <2>2 DEF TypeOK, LocalsOK, Return
    <3> QED  BY <3>2, <3>3
  <2>5. TableConsistent'
    <3>1. Tracked(mru)' = {q \in Pages : frameOf'[q] # None}
      <4>1. Tracked(mru)' = Tracked(mru')
        BY DEF Tracked
      <4>2. p \in Tracked(mru)
        BY <2>1 DEF TableConsistent, f
      <4> QED  BY <2>2, <2>3, <4>1, <4>2 DEF TableConsistent
    <3>2. \A g \in freeFrames \cup unused : pin'[g] = pin[g]
      BY <2>1, <2>2 DEF TypeOK, PinnedAgain
    <3> QED  BY <2>2, <3>1, <3>2 DEF TableConsistent
  <2> QED  BY <2>4, <2>5
<1>2. CASE Unpinned(t)
  <2> DEFINE f == frameOf[arg[t]]
  <2>1. /\ Return(t) /\ sharers' = sharers \ {t}
        /\ UNCHANGED <<frameOf, mru, freeFrames, unused, page, data, frameLatch, latch,
                       disk, freePages, virgin, held, known, latest>>
    BY <1>2 DEF Unpinned, poolVars, diskVars
  <2>2. \/ UNCHANGED <<pin, dirty>>
        \/ /\ arg[t] \in Pages /\ f # None
           /\ dirty' = [dirty EXCEPT ![f] = @ \/ fresh[t]]
           /\ pin' = UnpinnedOnce(f)
    BY <1>2 DEF Unpinned, TypeOK
  <2> HIDE DEF f
  <2>3. arg[t] \in Pages /\ f # None => f \in Frames /\ f \notin freeFrames \cup unused
    BY MappedNotFree DEF f
  <2>4. /\ pin' \in [Frames -> 0 .. PinModulus - 1]
        /\ dirty' \in [Frames -> BOOLEAN]
        /\ \A g \in freeFrames \cup unused : pin'[g] = pin[g] /\ dirty'[g] = dirty[g]
    <3>1. CASE UNCHANGED <<pin, dirty>>
      BY <3>1 DEF TypeOK
    <3>2. CASE /\ arg[t] \in Pages /\ f # None
               /\ dirty' = [dirty EXCEPT ![f] = @ \/ fresh[t]]
               /\ pin' = UnpinnedOnce(f)
      <4>1. (dirty[f] \/ fresh[t]) \in BOOLEAN
        OBVIOUS
      <4>2. dirty' \in [Frames -> BOOLEAN]
        BY <3>2, <4>1 DEF TypeOK
      <4>3. \A g \in freeFrames \cup unused : pin'[g] = pin[g] /\ dirty'[g] = dirty[g]
        BY <2>3, <3>2 DEF TypeOK, UnpinnedOnce
      <4> QED  BY <2>3, <3>2, <4>2, <4>3, PinRange
    <3> QED  BY <2>2, <3>1, <3>2
  <2>5. TypeOK'
    BY <2>1, <2>4 DEF TypeOK, Return, Pcs
  <2>6. LocalsOK'
    BY <2>1 DEF TypeOK, LocalsOK, Return
  <2>7. TableConsistent'
    BY <2>1, <2>4, StructureFrame DEF structure
  <2> QED  BY <2>5, <2>6, <2>7
<1>3. CASE ReadIn(t)
  <2>1. target[t] \in Frames /\ arg[t] \in Pages
    BY <1>3 DEF ReadIn, LocalsOK
  <2>2. [page |-> arg[t], frame |-> target[t], wrote |-> "no"] \in Handle
    BY <2>1 DEF Handle
  <2>3. TypeOK'
    <3>1. /\ data' \in [Frames -> 0 .. Contents - 1]
          /\ frameLatch' \in [Frames -> Threads \cup {None}]
      BY <1>3, <2>1 DEF ReadIn, TypeOK
    <3>2. held' \in [Threads -> SUBSET Handle]
      BY <1>3, <2>2 DEF ReadIn, TypeOK
    <3> QED  BY <1>3, <3>1, <3>2 DEF ReadIn, Return, poolVars, diskVars, TypeOK, Pcs
  <2>4. LocalsOK'
    BY <1>3 DEF ReadIn, Return, TypeOK, LocalsOK
  <2>5. TableConsistent'
    BY <1>3, StructureFrame DEF ReadIn, poolVars, structure
  <2> QED  BY <2>3, <2>4, <2>5
<1>4. CASE WriteFrame(t)
  <2> DEFINE f == target[t]
             h == CHOOSE g \in held[t] : g.frame = f
             c == (data[f] + 1) % Contents
  <2>1. f \in Frames /\ h \in held[t] /\ h \in Handle
    BY <1>4 DEF WriteFrame, LocalsOK, TypeOK
  <2>2. c \in 0 .. Contents - 1
    <3>1. data[f] \in Nat
      BY <2>1 DEF TypeOK
    <3> QED  BY <3>1, PoolAssumption
  <2>3. /\ data' = [data EXCEPT ![f] = c]
        /\ latest' = [latest EXCEPT ![h.page] = c]
        /\ held' = [held EXCEPT ![t] = (@ \ {h}) \cup {[h EXCEPT !.wrote = "yes"]}]
        /\ frameLatch' = [frameLatch EXCEPT ![f] = None]
        /\ Return(t)
        /\ UNCHANGED <<frameOf, mru, freeFrames, unused, page, pin, dirty, latch, sharers,
                       disk, freePages, virgin, known>>
    BY <1>4 DEF WriteFrame, poolVars, diskVars
  <2> HIDE DEF f, h, c
  <2>4. [h EXCEPT !.wrote = "yes"] \in Handle /\ h.page \in Pages
    BY <2>1 DEF Handle
  <2>5. TypeOK'
    <3>1. held' \in [Threads -> SUBSET Handle]
      BY <2>3, <2>4 DEF TypeOK
    <3>2. data' \in [Frames -> 0 .. Contents - 1] /\ latest' \in [Pages -> 0 .. Contents - 1]
      BY <2>2, <2>3, <2>4 DEF TypeOK
    <3> QED  BY <2>3, <3>1, <3>2 DEF TypeOK, Return, Pcs
  <2>6. LocalsOK'
    BY <2>3 DEF TypeOK, LocalsOK, Return
  <2>7. TableConsistent'
    BY <2>3, StructureFrame DEF structure
  <2> QED  BY <2>5, <2>6, <2>7
<1> QED  BY <1>1, <1>2, <1>3, <1>4

(* Both uses of swap_page.                                                 *)
LEMMA SwapStep ==
    ASSUME IInv, NEW t \in Threads, SwapNew(t) \/ SwapFetch(t)
    PROVE  IInv'
<1>1. arg[t] \in Pages
  BY DEF IInv, LocalsOK, SwapNew, SwapFetch
<1>2. CASE SwapNew(t)
  <2>1. PICK f \in NextFrames :
          /\ Install(f, arg[t]) /\ pin' = PinFirst(f)
          /\ held' = [held EXCEPT ![t] =
                @ \cup {[page |-> arg[t], frame |-> f, wrote |-> "must"]}]
    BY <1>2 DEF SwapNew
  <2>2. [page |-> arg[t], frame |-> f, wrote |-> "must"] \in Handle
    BY <1>1, <2>1, InstallStep DEF Handle
  <2>3. /\ known' = known \cup {arg[t]} /\ latest' = [latest EXCEPT ![arg[t]] = 0]
        /\ Return(t) /\ UNCHANGED <<frameLatch, latch, sharers, freePages, virgin>>
    BY <1>2, <2>1 DEF SwapNew, Install
  <2>4. held' \in [Threads -> SUBSET Handle] /\ latest' \in [Pages -> 0 .. Contents - 1]
    <3>1. 0 \in 0 .. Contents - 1
      BY PoolAssumption
    <3> QED  BY <1>1, <2>1, <2>2, <2>3, <3>1 DEF IInv, TypeOK
  <2>5. TypeOK'
    BY <1>1, <2>1, <2>3, <2>4, InstallStep DEF IInv, TypeOK, Return, Pcs
  <2>6. LocalsOK'
    BY <2>1, <2>3 DEF IInv, TypeOK, LocalsOK, Return
  <2> QED  BY <1>1, <2>1, <2>5, <2>6, InstallStep DEF IInv
<1>3. CASE SwapFetch(t)
  <2>1. PICK f \in NextFrames :
          /\ Install(f, arg[t]) /\ pin' = PinFirst(f)
          /\ frameLatch' = [frameLatch EXCEPT ![f] = t]
          /\ target' = [target EXCEPT ![t] = f]
    BY <1>3 DEF SwapFetch
  <2>2. f \in Frames
    BY <1>1, <2>1, InstallStep
  <2>3. /\ pc' = [pc EXCEPT ![t] = "read"]
        /\ UNCHANGED <<arg, fresh, held, known, latest, latch, sharers, freePages, virgin>>
    BY <1>3, <2>1 DEF SwapFetch, Install
  <2>4. /\ frameLatch' \in [Frames -> Threads \cup {None}]
        /\ target' \in [Threads -> Frames \cup {None}]
        /\ pc' \in [Threads -> Pcs]
    BY <2>1, <2>2, <2>3 DEF IInv, TypeOK, Pcs
  <2>5. TypeOK'
    BY <1>1, <2>1, <2>3, <2>4, InstallStep DEF IInv, TypeOK
  <2>6. LocalsOK'
    BY <1>1, <2>1, <2>2, <2>3 DEF IInv, TypeOK, LocalsOK
  <2> QED  BY <1>1, <2>1, <2>5, <2>6, InstallStep DEF IInv
<1> QED  BY <1>2, <1>3

(* Every step preserves the invariant.                                     *)
LEMMA NextIInv == IInv /\ [Next]_vars => IInv'
<1> SUFFICES ASSUME IInv, [Next]_vars PROVE IInv'
  OBVIOUS
<1>1. CASE UNCHANGED vars
  BY <1>1 DEF vars, poolVars, frameVars, diskVars, threadVars, IInv, TypeOK, LocalsOK,
              TableConsistent, Tracked
<1>2. ASSUME NEW t \in Threads, Call(t) PROVE IInv'
  BY <1>2, CallStep DEF Call
<1>3. ASSUME NEW t \in Threads, Continue(t) PROVE IInv'
  BY <1>3, CallStep, FrameStep, SwapStep, DeleteStep DEF Continue
<1> QED  BY <1>1, <1>2, <1>3 DEF Next

(* It holds in every reachable state.                                      *)
LEMMA PoolInvariant == Spec => []IInv
  BY InitIInv, NextIInv, PTL DEF Spec

-----------------------------------------------------------------------------
(* pool_manager.cpp, replacer.cpp: however the calls of the threads        *)
(* interleave, also when two of them bring in one page, the page table,    *)
(* the frames, the replacer and the free lists agree.                      *)
THEOREM PoolStructure == Spec => [](TypeOK /\ TableConsistent)
<1>1. IInv => TypeOK /\ TableConsistent
  BY DEF IInv
<1> QED  BY <1>1, PoolInvariant, PTL

(* The types of the pool's members.                                        *)
THEOREM PoolTypes == Spec => []TypeOK
  BY PoolStructure, PTL

-----------------------------------------------------------------------------
(* What the pool promises the holders of its pages, for any number of      *)
(* threads, pages and frames, as long as two threads do not miss on one    *)
(* page at a time: pin counts are right, a pinned page stays where it is,  *)
(* no write is lost, and a caller is turned away only by a pool whose      *)
(* frames are all pinned.  (With racing misses none of it holds.)          *)

(* Who has latch_ and the latches of the frames.                           *)
LatchesOK ==
    /\ \A t \in Threads : latch = t <=> pc[t] \in {"find", "delete"}
    /\ sharers = {t \in Threads : pc[t] = "unpin"}
    /\ latch # None => sharers = {}
    /\ \A t \in Threads : pc[t] \in {"read", "use"} => frameLatch[target[t]] = t

(* A page id is with the clients, free, or in the hands of one new_page.   *)
IdsOK ==
    /\ freePages \cap virgin = {} /\ known \cap (freePages \cup virgin) = {}
    /\ \A p \in Pages : frameOf[p] # None => p \in known
    /\ \A t \in Threads : pc[t] = "swap" /\ fresh[t] =>
                             arg[t] \notin known \cup freePages \cup virgin
    /\ \A t \in Threads : pc[t] \in {"find", "delete"} \/ (pc[t] = "swap" /\ ~fresh[t]) =>
                             arg[t] \in known
    /\ \A t \in Threads : pc[t] = "find" => ~fresh[t]

(* One miss on a page at a time, and the page is in no frame meanwhile.    *)
MissesOK ==
    /\ \A t, u \in Threads :
          pc[t] = "swap" /\ pc[u] \in {"swap", "find", "delete"} /\ arg[t] = arg[u] => t = u
    /\ \A t \in Threads : pc[t] = "swap" => frameOf[arg[t]] = None

(* The page table knows every page that is in a frame.                     *)
MappedBack == \A f \in Frames : page[f] # None => frameOf[page[f]] = f

(* A thread pins a page once, and the page it is about is not among those  *)
(* it has; what is being read in is clean.                                 *)
CallsOK ==
    \A t \in Threads :
        /\ \A g, h \in held[t] : g.frame = h.frame => g = h
        /\ pc[t] = "read" => page[target[t]] = arg[t] /\ ~dirty[target[t]]
        /\ pc[t] = "unpin" => arg[t] \in Pages /\ frameOf[arg[t]] # None
        /\ pc[t] \in {"find", "read", "unpin"} => \A h \in held[t] : h.page # arg[t]

Structure == LatchesOK /\ IdsOK /\ MissesOK /\ MappedBack

PinInv == IInv /\ Structure /\ HandlesValid /\ CallsOK /\ PinsCounted

-----------------------------------------------------------------------------
(* A frame without pins has no holder: nobody has pinned its page, reads   *)
(* it in or is about to unpin it.                                          *)
LEMMA Unheld ==
    ASSUME PinInv, NEW f \in Frames, pin[f] = 0, NEW t \in Threads
    PROVE  /\ \A h \in held[t] : h.frame # f
           /\ pc[t] = "read" => target[t] # f
           /\ pc[t] = "unpin" => frameOf[arg[t]] # f
<1>1. Holders(f) \in SUBSET Threads
  BY DEF Holders
<1>2. IsFiniteSet(Holders(f))
  BY <1>1, PinAssumption, FS_Subset
<1>3. Holders(f) = {}
  BY <1>2, FS_EmptySet DEF PinInv, PinsCounted
<1>4. pc[t] = "unpin" => arg[t] # None
  BY PoolAssumption DEF PinInv, CallsOK
<1> QED  BY <1>3, <1>4 DEF Holders

(* The frames find_next_frame returns have no pins.                        *)
LEMMA NextUnpinned ==
    ASSUME IInv, NEW f \in NextFrames
    PROVE  f \in Frames /\ pin[f] = 0
  BY PoolAssumption DEF IInv, TypeOK, TableConsistent, NextFrames, Lru, Evictable, Tracked

(* The step of one thread, as the lemmas below take it apart.              *)
ThreadStep(t) == Call(t) \/ Continue(t)

(* Latches: whoever needs latch_ finds it free, and nobody latches a frame *)
(* that another thread has latched.                                        *)
LEMMA LatchesStep ==
    ASSUME PinInv, NEW t \in Threads, ThreadStep(t)
    PROVE  LatchesOK'
<1> USE DEF LatchesOK
<1>0. TypeOK /\ LocalsOK /\ LatchesOK
  BY DEF PinInv, IInv, Structure
<1>1. CASE NewPage(t)
  BY <1>0, <1>1, PoolAssumption DEF NewPage, TypeOK
<1>2. CASE FlushAll(t)
  BY <1>0, <1>2, PoolAssumption DEF FlushAll, TypeOK, threadVars
<1>3. ASSUME NEW p \in Pages, FetchPage(t, p) PROVE LatchesOK'
  BY <1>0, <1>3, PoolAssumption DEF FetchPage, TypeOK, LatchFree
<1>4. ASSUME NEW p \in Pages, DeletePage(t, p) PROVE LatchesOK'
  BY <1>0, <1>4, PoolAssumption DEF DeletePage, TypeOK, LatchFree
<1>5. ASSUME NEW h \in held[t], UnpinPage(t, h) PROVE LatchesOK'
  BY <1>0, <1>5, PoolAssumption DEF UnpinPage, TypeOK
<1>6. ASSUME NEW h \in held[t], LatchFrame(t, h) PROVE LatchesOK'
  <2>1. h.frame \in Frames
    BY <1>0 DEF TypeOK, Handle
  <2> QED  BY <1>0, <1>6, <2>1, PoolAssumption DEF LatchFrame, TypeOK
<1>7. CASE FindHit(t)
  BY <1>0, <1>7, PoolAssumption DEF FindHit, Return, TypeOK
<1>8. CASE FindMiss(t)
  BY <1>0, <1>8, PoolAssumption DEF FindMiss, TypeOK
<1>9. CASE SwapNew(t)
  BY <1>0, <1>9, PoolAssumption DEF SwapNew, Install, Return, TypeOK
<1>10. CASE SwapFetch(t)
  <2>1. PICK f \in NextFrames : /\ Install(f, arg[t])
                                /\ frameLatch' = [frameLatch EXCEPT ![f] = t]
                                /\ target' = [target EXCEPT ![t] = f]
    BY <1>10 DEF SwapFetch
  <2>2. f \in Frames
    BY NextUnpinned DEF PinInv
  <2> QED  BY <1>0, <1>10, <2>1, <2>2, PoolAssumption DEF SwapFetch, Install, TypeOK
<1>11. CASE SwapFull(t)
  BY <1>0, <1>11, PoolAssumption DEF SwapFull, Return, TypeOK
<1>12. CASE ReadIn(t)
  BY <1>0, <1>12, PoolAssumption DEF ReadIn, Return, TypeOK, LocalsOK
<1>13. CASE DeleteRefused(t)
  BY <1>0, <1>13, PoolAssumption DEF DeleteRefused, Return, TypeOK
<1>14. CASE DeleteDone(t)
  BY <1>0, <1>14, PoolAssumption DEF DeleteDone, Return, TypeOK
<1>15. CASE Unpinned(t)
  BY <1>0, <1>15, PoolAssumption DEF Unpinned, Return, TypeOK
<1>16. CASE WriteFrame(t)
  BY <1>0, <1>16, PoolAssumption DEF WriteFrame, Return, TypeOK, LocalsOK
<1>17. CASE ReadFrame(t)
  BY <1>0, <1>17, PoolAssumption DEF ReadFrame, Return, TypeOK, LocalsOK
<1> QED
  BY <1>1, <1>2, <1>3, <1>4, <1>5, <1>6, <1>7, <1>8, <1>9, <1>10, <1>11, <1>12, <1>13,
     <1>14, <1>15, <1>16, <1>17 DEF ThreadStep, Call, Continue

(* Page ids: what new_page takes is nobody's, and what is cached or asked  *)
(* for is a client's.                                                      *)
LEMMA IdsStep ==
    ASSUME PinInv, NEW t \in Threads, ThreadStep(t)
    PROVE  IdsOK'
<1> USE DEF IdsOK
<1>0. TypeOK /\ LocalsOK /\ IdsOK /\ LatchesOK /\ MissesOK
  BY DEF PinInv, IInv, Structure
<1>1. CASE NewPage(t)
  <2>1. PICK p \in freePages \cup virgin :
           /\ freePages' = freePages \ {p} /\ virgin' = virgin \ {p}
           /\ arg' = [arg EXCEPT ![t] = p]
    BY <1>1 DEF NewPage, Taken
  <2> QED  BY <1>0, <1>1, <2>1 DEF NewPage, poolVars, TypeOK
<1>2. CASE FlushAll(t)
  BY <1>0, <1>2 DEF FlushAll, TypeOK, threadVars, poolVars
<1>3. ASSUME NEW p \in Pages, FetchPage(t, p) PROVE IdsOK'
  BY <1>0, <1>3 DEF FetchPage, TypeOK, diskVars, poolVars
<1>4. ASSUME NEW p \in Pages, DeletePage(t, p) PROVE IdsOK'
  BY <1>0, <1>4 DEF DeletePage, TypeOK, diskVars, poolVars
<1>5. ASSUME NEW h \in held[t], UnpinPage(t, h) PROVE IdsOK'
  BY <1>0, <1>5 DEF UnpinPage, TypeOK, diskVars, poolVars
<1>6. ASSUME NEW h \in held[t], LatchFrame(t, h) PROVE IdsOK'
  BY <1>0, <1>6 DEF LatchFrame, TypeOK, diskVars, poolVars
<1>7. CASE FindHit(t)
  BY <1>0, <1>7 DEF FindHit, Return, TypeOK, diskVars
<1>8. CASE FindMiss(t)
  <2>1. ~fresh[t]
    BY <1>0, <1>8 DEF FindMiss
  <2> QED  BY <1>0, <1>8 DEF FindMiss, TypeOK, diskVars, poolVars
<1>9. CASE SwapNew(t)
  <2>1. PICK f \in NextFrames : Install(f, arg[t])
    BY <1>9 DEF SwapNew
  <2> QED  BY <1>0, <1>9, <2>1 DEF SwapNew, Install, Return, TypeOK, LocalsOK, MissesOK
<1>10. CASE SwapFetch(t)
  <2>1. PICK f \in NextFrames : Install(f, arg[t])
    BY <1>10 DEF SwapFetch
  <2> QED  BY <1>0, <1>10, <2>1 DEF SwapFetch, Install, TypeOK
<1>11. CASE SwapFull(t)
  BY <1>0, <1>11 DEF SwapFull, Return, TypeOK, diskVars, poolVars
<1>12. CASE ReadIn(t)
  BY <1>0, <1>12 DEF ReadIn, Return, TypeOK, diskVars, poolVars
<1>13. CASE DeleteRefused(t)
  BY <1>0, <1>13 DEF DeleteRefused, Return, TypeOK, diskVars, poolVars
<1>14. CASE DeleteDone(t)
  BY <1>0, <1>14 DEF DeleteDone, Return, TypeOK, LocalsOK, LatchesOK, MissesOK
<1>15. CASE Unpinned(t)
  BY <1>0, <1>15 DEF Unpinned, Return, TypeOK, diskVars, poolVars
<1>16. CASE WriteFrame(t)
  BY <1>0, <1>16 DEF WriteFrame, Return, TypeOK, diskVars, poolVars
<1>17. CASE ReadFrame(t)
  BY <1>0, <1>17 DEF ReadFrame, Return, TypeOK, diskVars, poolVars
<1> QED
  BY <1>1, <1>2, <1>3, <1>4, <1>5, <1>6, <1>7, <1>8, <1>9, <1>10, <1>11, <1>12, <1>13,
     <1>14, <1>15, <1>16, <1>17 DEF ThreadStep, Call, Continue

(* Misses: this is where it matters that no second thread misses on a page.*)
LEMMA MissesStep ==
    ASSUME ~RacingMisses, PinInv, NEW t \in Threads, ThreadStep(t)
    PROVE  MissesOK'
<1> USE DEF MissesOK
<1>0. TypeOK /\ LocalsOK /\ IdsOK /\ LatchesOK /\ MissesOK
  BY DEF PinInv, IInv, Structure
<1>1. CASE NewPage(t)
  <2>1. PICK p \in freePages \cup virgin : arg' = [arg EXCEPT ![t] = p]
    BY <1>1 DEF NewPage
  <2> QED  BY <1>0, <1>1, <2>1 DEF NewPage, IdsOK, poolVars, TypeOK
<1>2. CASE FlushAll(t)
  BY <1>0, <1>2 DEF FlushAll, TypeOK, threadVars, poolVars
<1>3. ASSUME NEW p \in Pages, FetchPage(t, p) PROVE MissesOK'
  BY <1>0, <1>3 DEF FetchPage, MissPending, TypeOK, poolVars
<1>4. ASSUME NEW p \in Pages, DeletePage(t, p) PROVE MissesOK'
  BY <1>0, <1>4 DEF DeletePage, MissPending, TypeOK, poolVars
<1>5. ASSUME NEW h \in held[t], UnpinPage(t, h) PROVE MissesOK'
  BY <1>0, <1>5 DEF UnpinPage, TypeOK, poolVars
<1>6. ASSUME NEW h \in held[t], LatchFrame(t, h) PROVE MissesOK'
  BY <1>0, <1>6 DEF LatchFrame, TypeOK, poolVars
<1>7. CASE FindHit(t)
  BY <1>0, <1>7 DEF FindHit, Return, TypeOK
<1>8. CASE FindMiss(t)
  BY <1>0, <1>8 DEF FindMiss, LatchesOK, TypeOK, poolVars
<1>9. CASE SwapNew(t)
  <2>1. PICK f \in NextFrames : Install(f, arg[t])
    BY <1>9 DEF SwapNew
  <2> QED  BY <1>0, <1>9, <2>1 DEF SwapNew, Install, Return, TypeOK, LocalsOK
<1>10. CASE SwapFetch(t)
  <2>1. PICK f \in NextFrames : Install(f, arg[t])
    BY <1>10 DEF SwapFetch
  <2> QED  BY <1>0, <1>10, <2>1 DEF SwapFetch, Install, TypeOK, LocalsOK
<1>11. CASE SwapFull(t)
  BY <1>0, <1>11 DEF SwapFull, Return, TypeOK, poolVars
<1>12. CASE ReadIn(t)
  BY <1>0, <1>12 DEF ReadIn, Return, TypeOK, poolVars
<1>13. CASE DeleteRefused(t)
  BY <1>0, <1>13 DEF DeleteRefused, Return, TypeOK, poolVars
<1>14. CASE DeleteDone(t)
  BY <1>0, <1>14 DEF DeleteDone, Return, TypeOK, LocalsOK
<1>15. CASE Unpinned(t)
  BY <1>0, <1>15 DEF Unpinned, Return, TypeOK, poolVars
<1>16. CASE WriteFrame(t)
  BY <1>0, <1>16 DEF WriteFrame, Return, TypeOK, poolVars
<1>17. CASE ReadFrame(t)
  BY <1>0, <1>17 DEF ReadFrame, Return, TypeOK, poolVars
<1> QED
  BY <1>1, <1>2, <1>3, <1>4, <1>5, <1>6, <1>7, <1>8, <1>9, <1>10, <1>11, <1>12, <1>13,
     <1>14, <1>15, <1>16, <1>17 DEF ThreadStep, Call, Continue

(* Only swap_page and delete_page change which page is in which frame.     *)
LEMMA MappedStep ==
    ASSUME PinInv, NEW t \in Threads, ThreadStep(t)
    PROVE  MappedBack'
<1>0. TypeOK /\ LocalsOK /\ TableConsistent /\ MappedBack /\ MissesOK
  BY DEF PinInv, IInv, Structure
<1>1. CASE SwapNew(t) \/ SwapFetch(t)
  <2>1. PICK f \in NextFrames : Install(f, arg[t])
    BY <1>1 DEF SwapNew, SwapFetch
  <2>2. f \in Frames /\ arg[t] \in Pages /\ frameOf[arg[t]] = None
    BY <1>0, <1>1, NextUnpinned DEF PinInv, LocalsOK, MissesOK, SwapNew, SwapFetch
  <2> QED  BY <1>0, <2>1, <2>2, PoolAssumption DEF Install, MappedBack, TypeOK
<1>2. CASE DeleteDone(t)
  <2>1. arg[t] \in Pages
    BY <1>0, <1>2 DEF LocalsOK, DeleteDone
  <2> QED  BY <1>0, <1>2, <2>1, PoolAssumption DEF DeleteDone, MappedBack, TypeOK, TableConsistent
<1>3. CASE UNCHANGED <<frameOf, page>>
  BY <1>0, <1>3 DEF MappedBack
<1>4. SwapNew(t) \/ SwapFetch(t) \/ DeleteDone(t) \/ UNCHANGED <<frameOf, page>>
  BY DEF ThreadStep, Call, Continue, NewPage, FlushAll, FetchPage, DeletePage, UnpinPage,
         LatchFrame, FindHit, FindMiss, SwapFull, ReadIn, DeleteRefused, Unpinned, WriteFrame,
         ReadFrame, poolVars, frameVars
<1> QED  BY <1>1, <1>2, <1>3, <1>4

(* A page that is mapped is not moved by a step, unless its frame has no   *)
(* pins; the ids of frames with pins stay.                                 *)
LEMMA PinnedFramesStay ==
    ASSUME PinInv, NEW t \in Threads, ThreadStep(t), NEW f \in Frames, pin[f] # 0, page[f] # None
    PROVE  page'[f] = page[f] /\ frameOf'[page[f]] = f
<1>0. TypeOK /\ LocalsOK /\ TableConsistent /\ MappedBack /\ MissesOK
  BY DEF PinInv, IInv, Structure
<1>1. CASE SwapNew(t) \/ SwapFetch(t)
  <2>1. PICK g \in NextFrames : Install(g, arg[t])
    BY <1>1 DEF SwapNew, SwapFetch
  <2>2. /\ g \in Frames /\ pin[g] = 0
        /\ arg[t] \in Pages /\ frameOf[arg[t]] = None
    BY <1>0, <1>1, NextUnpinned DEF PinInv, LocalsOK, MissesOK, SwapNew, SwapFetch
  <2> QED  BY <1>0, <2>1, <2>2, PoolAssumption DEF Install, MappedBack, TypeOK
<1>2. CASE DeleteDone(t)
  <2>1. arg[t] \in Pages
    BY <1>0, <1>2 DEF LocalsOK, DeleteDone
  <2> QED  BY <1>0, <1>2, <2>1, PoolAssumption DEF DeleteDone, MappedBack, TypeOK
<1>3. CASE UNCHANGED <<frameOf, page>>
  BY <1>0, <1>3 DEF MappedBack
<1>4. SwapNew(t) \/ SwapFetch(t) \/ DeleteDone(t) \/ UNCHANGED <<frameOf, page>>
  BY DEF ThreadStep, Call, Continue, NewPage, FlushAll, FetchPage, DeletePage, UnpinPage,
         LatchFrame, FindHit, FindMiss, SwapFull, ReadIn, DeleteRefused, Unpinned, WriteFrame,
         ReadFrame, poolVars, frameVars
<1> QED  BY <1>1, <1>2, <1>3, <1>4

(* The handles a thread gets, and how they go: a new one is for the page   *)
(* its call was about and the frame the page table names.                  *)
LEMMA HandlesStep ==
    ASSUME PinInv, NEW t \in Threads, ThreadStep(t)
    PROVE  HandlesValid'
<1>0. /\ TypeOK /\ LocalsOK /\ TableConsistent /\ MappedBack /\ HandlesValid /\ CallsOK
      /\ PinsCounted
  BY DEF PinInv, IInv, Structure
<1>1. ASSUME NEW u \in Threads, NEW h \in held[u]
      PROVE  page'[h.frame] = h.page /\ frameOf'[h.page] = h.frame
  <2>1. h \in Handle /\ h.frame \in Frames /\ h.page \in Pages /\ page[h.frame] = h.page
    BY <1>0 DEF TypeOK, Handle, HandlesValid
  <2>2. pin[h.frame] # 0
    BY <2>1, Unheld
  <2> QED  BY <2>1, <2>2, PinnedFramesStay, PoolAssumption
<1>2. ASSUME NEW u \in Threads, NEW h \in held'[u], h \notin held[u]
      PROVE  page'[h.frame] = h.page /\ frameOf'[h.page] = h.frame
  <2>1. CASE FindHit(t)
    <3>1. u = t /\ h = [page |-> arg[t], frame |-> frameOf[arg[t]], wrote |-> "no"]
      BY <1>0, <1>2, <2>1 DEF FindHit, TypeOK
    <3> QED  BY <1>0, <2>1, <3>1 DEF FindHit, TableConsistent, LocalsOK
  <2>2. CASE SwapNew(t)
    <3>1. PICK f \in NextFrames :
            /\ Install(f, arg[t])
            /\ held' = [held EXCEPT ![t] =
                  @ \cup {[page |-> arg[t], frame |-> f, wrote |-> "must"]}]
      BY <2>2 DEF SwapNew
    <3>2. u = t /\ h = [page |-> arg[t], frame |-> f, wrote |-> "must"]
      BY <1>0, <1>2, <3>1 DEF TypeOK
    <3>3. f \in Frames /\ arg[t] \in Pages
      BY <1>0, <2>2, NextUnpinned DEF PinInv, LocalsOK, SwapNew
    <3> QED  BY <1>0, <3>1, <3>2, <3>3 DEF Install, TypeOK
  <2>3. CASE ReadIn(t)
    <3>1. u = t /\ h = [page |-> arg[t], frame |-> target[t], wrote |-> "no"]
      BY <1>0, <1>2, <2>3 DEF ReadIn, TypeOK
    <3>2. target[t] \in Frames /\ arg[t] \in Pages /\ page[target[t]] = arg[t]
      BY <1>0, <2>3 DEF ReadIn, LocalsOK, CallsOK
    <3> QED  BY <1>0, <2>3, <3>1, <3>2, PoolAssumption DEF ReadIn, poolVars, MappedBack
  <2>4. CASE WriteFrame(t)
    <3> DEFINE g == CHOOSE k \in held[t] : k.frame = target[t]
    <3>1. g \in held[t]
      BY <1>0, <2>4 DEF WriteFrame, LocalsOK
    <3>2. held' = [held EXCEPT ![t] = (@ \ {g}) \cup {[g EXCEPT !.wrote = "yes"]}]
      BY <2>4 DEF WriteFrame
    <3> HIDE DEF g
    <3>3. u = t /\ h = [g EXCEPT !.wrote = "yes"]
      BY <1>0, <1>2, <3>2 DEF TypeOK
    <3>4. g \in Handle
      BY <1>0, <3>1 DEF TypeOK
    <3>5. h.page = g.page /\ h.frame = g.frame
      BY <3>3, <3>4 DEF Handle
    <3> QED  BY <1>1, <3>1, <3>3, <3>5
  <2>5. CASE held'[u] \subseteq held[u]
    BY <1>2, <2>5
  <2>6. FindHit(t) \/ SwapNew(t) \/ ReadIn(t) \/ WriteFrame(t) \/ held'[u] \subseteq held[u]
    <3>1. ASSUME NEW g \in held[t], UnpinPage(t, g) PROVE held'[u] \subseteq held[u]
      BY <1>0, <3>1 DEF UnpinPage, TypeOK
    <3>2. \/ FindHit(t) \/ SwapNew(t) \/ ReadIn(t) \/ WriteFrame(t) \/ UNCHANGED held
          \/ \E g \in held[t] : UnpinPage(t, g)
      BY DEF ThreadStep, Call, Continue, NewPage, FlushAll, FetchPage, DeletePage,
             LatchFrame, FindMiss, SwapFetch, SwapFull, DeleteRefused, DeleteDone, Unpinned,
             ReadFrame, threadVars
    <3> QED  BY <3>1, <3>2
  <2> QED  BY <2>1, <2>2, <2>3, <2>4, <2>5, <2>6
<1> QED  BY <1>1, <1>2 DEF HandlesValid

(* Steps that change no pin, no handle and no mapping, and that neither    *)
(* begin nor end a read or an unpin.                                       *)
Quiet(t) ==
    \/ NewPage(t) \/ FlushAll(t) \/ FindMiss(t) \/ SwapFull(t) \/ DeleteRefused(t) \/ ReadFrame(t)
    \/ \E p \in Pages : FetchPage(t, p) \/ DeletePage(t, p)
    \/ \E h \in held[t] : LatchFrame(t, h)

(* What those steps leave as it is.                                        *)
LEMMA QuietEffect ==
    ASSUME IInv, NEW t \in Threads, Quiet(t)
    PROVE  /\ UNCHANGED <<frameOf, page, pin, dirty, held>>
           /\ pc[t] \notin {"read", "unpin"} /\ pc'[t] \notin {"read", "unpin"}
           /\ \A u \in Threads \ {t} : pc'[u] = pc[u] /\ arg'[u] = arg[u] /\ target'[u] = target[u]
<1>0. TypeOK
  BY DEF IInv
<1>1. CASE NewPage(t)
  BY <1>0, <1>1 DEF NewPage, poolVars, frameVars, TypeOK
<1>2. CASE FlushAll(t)
  BY <1>0, <1>2 DEF FlushAll, poolVars, frameVars, threadVars, TypeOK
<1>3. CASE FindMiss(t)
  BY <1>0, <1>3 DEF FindMiss, poolVars, frameVars, TypeOK
<1>4. CASE SwapFull(t) \/ DeleteRefused(t)
  BY <1>0, <1>4 DEF SwapFull, DeleteRefused, Return, poolVars, frameVars, TypeOK
<1>5. CASE ReadFrame(t)
  BY <1>0, <1>5 DEF ReadFrame, Return, poolVars, frameVars, TypeOK
<1>6. CASE \E p \in Pages : FetchPage(t, p) \/ DeletePage(t, p)
  BY <1>0, <1>6 DEF FetchPage, DeletePage, poolVars, frameVars, TypeOK
<1>7. CASE \E h \in held[t] : LatchFrame(t, h)
  BY <1>0, <1>7 DEF LatchFrame, poolVars, frameVars, TypeOK
<1> QED  BY <1>1, <1>2, <1>3, <1>4, <1>5, <1>6, <1>7 DEF Quiet

(* What a thread may rely on inside its call.                              *)
LEMMA CallsStep ==
    ASSUME PinInv, NEW t \in Threads, ThreadStep(t)
    PROVE  CallsOK'
<1> DEFINE Ok(u) ==
        /\ \A g, h \in held[u] : g.frame = h.frame => g = h
        /\ pc[u] = "read" => page[target[u]] = arg[u] /\ ~dirty[target[u]]
        /\ pc[u] = "unpin" => arg[u] \in Pages /\ frameOf[arg[u]] # None
        /\ pc[u] \in {"find", "read", "unpin"} => \A h \in held[u] : h.page # arg[u]
<1>0. /\ TypeOK /\ LocalsOK /\ TableConsistent /\ MappedBack /\ HandlesValid /\ CallsOK
      /\ LatchesOK /\ MissesOK
  BY DEF PinInv, IInv, Structure
<1>00. \A u \in Threads : Ok(u)
  BY <1>0 DEF CallsOK
<1>H. \A u \in Threads : \A h \in held[u] : h \in Handle /\ h.frame \in Frames /\ h.page \in Pages
  BY <1>0 DEF TypeOK, Handle
<1> SUFFICES \A u \in Threads : Ok(u)'
  BY DEF CallsOK
<1>1. CASE Quiet(t)
  <2>1. /\ UNCHANGED <<frameOf, page, pin, dirty, held>>
        /\ pc'[t] \notin {"read", "unpin"}
        /\ \A u \in Threads \ {t} : pc'[u] = pc[u] /\ arg'[u] = arg[u] /\ target'[u] = target[u]
    BY <1>1, QuietEffect DEF PinInv
  <2>2. pc'[t] = "find" => \A h \in held[t] : h.page # arg'[t]
    BY <1>0, <1>1 DEF Quiet, NewPage, FlushAll, FindMiss, SwapFull, DeleteRefused, ReadFrame,
                FetchPage, DeletePage, LatchFrame, HeldPages, Return, TypeOK, threadVars
  <2> QED  BY <1>00, <2>1, <2>2
<1>2. ASSUME NEW h \in held[t], UnpinPage(t, h) PROVE \A u \in Threads : Ok(u)'
  <2>1. page[h.frame] = h.page /\ frameOf[h.page] = h.frame /\ h.page \in Pages /\ h.frame # None
    BY <1>0, <1>H, PoolAssumption DEF HandlesValid
  <2>2. \A g \in held[t] \ {h} : g.page # h.page
    BY <1>0, <1>00, <2>1 DEF HandlesValid
  <2> QED  BY <1>0, <1>00, <1>2, <2>1, <2>2 DEF UnpinPage, poolVars, frameVars, TypeOK
<1>3. CASE FindHit(t)
  <2>1. arg[t] \in Pages /\ page[frameOf[arg[t]]] = arg[t]
    BY <1>0, <1>3 DEF FindHit, LocalsOK, TableConsistent
  <2>2. \A g \in held[t] : g.frame # frameOf[arg[t]]
    BY <1>0, <1>00, <1>3, <2>1 DEF FindHit, HandlesValid
  <2> QED  BY <1>0, <1>00, <1>3, <2>2 DEF FindHit, Return, TypeOK
<1>4. CASE SwapNew(t)
  <2>1. PICK f \in NextFrames :
          /\ Install(f, arg[t])
          /\ held' = [held EXCEPT ![t] =
                @ \cup {[page |-> arg[t], frame |-> f, wrote |-> "must"]}]
    BY <1>4 DEF SwapNew
  <2>2. f \in Frames /\ pin[f] = 0
    BY NextUnpinned DEF PinInv
  <2>3. /\ pc' = [pc EXCEPT ![t] = "idle"] /\ arg' = [arg EXCEPT ![t] = None]
        /\ target' = [target EXCEPT ![t] = None]
        /\ page' = [page EXCEPT ![f] = arg[t]]
        /\ dirty' = [dirty EXCEPT ![f] = FALSE]
    BY <1>4, <2>1 DEF SwapNew, Return, Install
  <2>4. \A u \in Threads : pc[u] # "unpin"
    BY <1>0, <1>4 DEF SwapNew, LatchFree, LatchesOK
  <2> QED  BY <1>0, <1>00, <2>1, <2>2, <2>3, <2>4, Unheld DEF TypeOK, LocalsOK
<1>5. CASE SwapFetch(t)
  <2>1. PICK f \in NextFrames : /\ Install(f, arg[t])
                                /\ target' = [target EXCEPT ![t] = f]
    BY <1>5 DEF SwapFetch
  <2>2. f \in Frames /\ pin[f] = 0
    BY NextUnpinned DEF PinInv
  <2>3. /\ pc' = [pc EXCEPT ![t] = "read"]
        /\ page' = [page EXCEPT ![f] = arg[t]]
        /\ dirty' = [dirty EXCEPT ![f] = FALSE]
        /\ UNCHANGED <<arg, held>>
    BY <1>5, <2>1 DEF SwapFetch, Install
  <2>4. \A u \in Threads : pc[u] # "unpin"
    BY <1>0, <1>5 DEF SwapFetch, LatchFree, LatchesOK
  <2>5. \A h \in held[t] : h.page # arg[t]
    BY <1>0, <1>5, <1>H, PoolAssumption DEF SwapFetch, MissesOK, HandlesValid
  <2> QED  BY <1>0, <1>00, <2>1, <2>2, <2>3, <2>4, <2>5, Unheld DEF TypeOK, LocalsOK
<1>6. CASE ReadIn(t)
  <2>1. \A g \in held[t] : g.frame # target[t]
    BY <1>0, <1>00, <1>6 DEF ReadIn, HandlesValid
  <2> QED  BY <1>0, <1>00, <1>6, <2>1 DEF ReadIn, Return, TypeOK, poolVars
<1>7. CASE DeleteDone(t)
  <2>1. \A u \in Threads : pc[u] # "unpin"
    BY <1>0, <1>7, PoolAssumption DEF DeleteDone, LatchesOK
  <2>2. \A u \in Threads : pc[u] = "read" => target[u] # frameOf[arg[t]]
    BY <1>0, <1>7, Unheld, PoolAssumption DEF DeleteDone, TypeOK, LocalsOK
  <2> QED  BY <1>0, <1>00, <1>7, <2>1, <2>2 DEF DeleteDone, Return, TypeOK, LocalsOK
<1>8. CASE Unpinned(t)
  <2>1. \A u \in Threads : pc[u] = "read" => dirty'[target[u]] = dirty[target[u]]
    BY <1>0, <1>8, PoolAssumption DEF Unpinned, LatchesOK, LocalsOK, TypeOK
  <2> QED  BY <1>0, <1>00, <1>8, <2>1 DEF Unpinned, Return, TypeOK, poolVars
<1>9. CASE WriteFrame(t)
  <2> DEFINE g == CHOOSE k \in held[t] : k.frame = target[t]
  <2>1. g \in held[t]
    BY <1>0, <1>9 DEF WriteFrame, LocalsOK
  <2>2. held' = [held EXCEPT ![t] = (@ \ {g}) \cup {[g EXCEPT !.wrote = "yes"]}]
    BY <1>9 DEF WriteFrame
  <2> HIDE DEF g
  <2>3. [g EXCEPT !.wrote = "yes"].frame = g.frame
    BY <1>H, <2>1 DEF Handle
  <2>4. /\ pc' = [pc EXCEPT ![t] = "idle"] /\ arg' = [arg EXCEPT ![t] = None]
        /\ target' = [target EXCEPT ![t] = None] /\ UNCHANGED <<frameOf, page, dirty>>
    BY <1>9 DEF WriteFrame, Return, poolVars
  <2>5. \A h \in held'[t] : h = [g EXCEPT !.wrote = "yes"] \/ (h \in held[t] /\ h.frame # g.frame)
    BY <1>0, <1>00, <2>1, <2>2 DEF TypeOK
  <2>6. \A h, k \in held'[t] : h.frame = k.frame => h = k
    BY <1>00, <2>3, <2>5
  <2> QED  BY <1>0, <1>00, <2>2, <2>4, <2>6 DEF TypeOK
<1> QED
  BY <1>1, <1>2, <1>3, <1>4, <1>5, <1>6, <1>7, <1>8, <1>9
  DEF ThreadStep, Call, Continue, Quiet

(* Holders are threads, so there are fewer of them than pin counts.        *)
LEMMA HoldersBounded ==
    ASSUME NEW H \in SUBSET Threads
    PROVE  IsFiniteSet(H) /\ Cardinality(H) \in 0 .. PinModulus - 1
<1>1. IsFiniteSet(H) /\ Cardinality(H) <= Cardinality(Threads)
  BY PinAssumption, FS_Subset
<1>2. Cardinality(H) \in Nat /\ Cardinality(Threads) \in Nat
  BY <1>1, PinAssumption, FS_CardinalityType
<1> QED  BY <1>1, <1>2, PinAssumption, PoolAssumption

(* One more holder, one more pin.                                          *)
LEMMA CountUp ==
    ASSUME TypeOK, PinsCounted, NEW t \in Threads, NEW f \in Frames, t \notin Holders(f)
    PROVE  PinnedAgain(f)[f] = Cardinality(Holders(f) \cup {t})
<1>1. Holders(f) \in SUBSET Threads /\ Holders(f) \cup {t} \in SUBSET Threads
  BY DEF Holders
<1>2. Cardinality(Holders(f) \cup {t}) = pin[f] + 1
  BY <1>1, HoldersBounded, FS_AddElement DEF PinsCounted
<1>3. pin[f] + 1 \in 0 .. PinModulus - 1
  BY <1>1, <1>2, HoldersBounded
<1>4. (pin[f] + 1) % PinModulus = pin[f] + 1
  BY <1>3, PoolAssumption
<1> QED  BY <1>2, <1>4 DEF PinnedAgain, TypeOK

(* One holder less, one pin less: the counter does not wrap below zero.    *)
LEMMA CountDown ==
    ASSUME TypeOK, PinsCounted, NEW t \in Threads, NEW f \in Frames, t \in Holders(f)
    PROVE  UnpinnedOnce(f)[f] = Cardinality(Holders(f) \ {t})
<1>1. Holders(f) \in SUBSET Threads /\ Holders(f) \ {t} \in SUBSET Threads
  BY DEF Holders
<1>2. Cardinality(Holders(f) \ {t}) = pin[f] - 1
  BY <1>1, HoldersBounded, FS_RemoveElement DEF PinsCounted
<1>3. pin[f] - 1 \in 0 .. PinModulus - 1
  BY <1>1, <1>2, HoldersBounded
<1>4. (pin[f] + PinModulus - 1) % PinModulus = pin[f] - 1
  <2>1. pin[f] \in Int /\ PinModulus \in Nat \ {0}
    BY <1>3, PoolAssumption DEF TypeOK
  <2>2. pin[f] + PinModulus - 1 = (pin[f] - 1) + PinModulus
    BY <2>1
  <2> QED  BY <1>3, <2>1, <2>2
<1> QED  BY <1>2, <1>4 DEF UnpinnedOnce, TypeOK

(* pin_count_ follows the holders through every step.                      *)
LEMMA PinsStep ==
    ASSUME PinInv, NEW t \in Threads, ThreadStep(t)
    PROVE  PinsCounted'
<1>0. /\ TypeOK /\ LocalsOK /\ TableConsistent /\ MappedBack /\ HandlesValid /\ CallsOK
      /\ LatchesOK /\ MissesOK /\ PinsCounted
  BY DEF PinInv, IInv, Structure
<1>H. \A u \in Threads : \A h \in held[u] : h \in Handle /\ h.frame \in Frames /\ h.page \in Pages
  BY <1>0 DEF TypeOK, Handle
<1>S. ASSUME UNCHANGED pin, \A f \in Frames : Holders(f)' = Holders(f) PROVE PinsCounted'
  BY <1>0, <1>S DEF PinsCounted
<1>1. CASE Quiet(t)
  <2>1. /\ UNCHANGED <<frameOf, pin, held>>
        /\ pc[t] \notin {"read", "unpin"} /\ pc'[t] \notin {"read", "unpin"}
        /\ \A u \in Threads \ {t} : pc'[u] = pc[u] /\ arg'[u] = arg[u] /\ target'[u] = target[u]
    BY <1>1, QuietEffect DEF PinInv
  <2> QED  BY <1>S, <2>1 DEF Holders
<1>2. ASSUME NEW h \in held[t], UnpinPage(t, h) PROVE PinsCounted'
  <2>1. page[h.frame] = h.page /\ frameOf[h.page] = h.frame /\ h.page # None
    BY <1>0, <1>H, PoolAssumption DEF HandlesValid
  <2>2. ASSUME NEW f \in Frames, NEW u \in Threads PROVE (u \in Holders(f)') <=> u \in Holders(f)
    <3>1. CASE u # t
      BY <1>0, <1>2, <3>1 DEF UnpinPage, poolVars, Holders, TypeOK
    <3>2. CASE u = t
      BY <1>0, <1>2, <2>1, <3>2 DEF UnpinPage, poolVars, Holders, TypeOK, CallsOK
    <3> QED  BY <3>1, <3>2
  <2>3. \A f \in Frames : Holders(f)' = Holders(f)
    BY <2>2 DEF Holders
  <2> QED  BY <1>2, <1>S, <2>3 DEF UnpinPage, frameVars
<1>3. CASE FindHit(t)
  <2>1. PICK f \in Frames : f = frameOf[arg[t]] /\ page[f] = arg[t]
    BY <1>0, <1>3, PoolAssumption DEF FindHit, LocalsOK, TableConsistent, TypeOK
  <2>2. t \notin Holders(f)
    BY <1>0, <1>3, <2>1 DEF FindHit, Holders, HandlesValid, CallsOK
  <2>3. ASSUME NEW g \in Frames, NEW u \in Threads
        PROVE  (u \in Holders(g)') <=> (u \in Holders(g) \/ (u = t /\ g = f))
    <3> DEFINE h == [page |-> arg[t], frame |-> f, wrote |-> "no"]
    <3>1. /\ held' = [held EXCEPT ![t] = @ \cup {h}]
          /\ pc[t] = "find" /\ pc' = [pc EXCEPT ![t] = "idle"]
          /\ arg' = [arg EXCEPT ![t] = None] /\ target' = [target EXCEPT ![t] = None]
          /\ UNCHANGED frameOf
      BY <1>3, <2>1 DEF FindHit, Return
    <3>2. h.frame = f
      OBVIOUS
    <3> HIDE DEF h
    <3> QED  BY <1>0, <3>1, <3>2 DEF Holders, TypeOK
  <2>4. Holders(f)' = Holders(f) \cup {t} /\ \A g \in Frames \ {f} : Holders(g)' = Holders(g)
    BY <2>1, <2>3 DEF Holders
  <2>5. pin' = PinnedAgain(f)
    BY <1>3, <2>1 DEF FindHit
  <2>6. pin'[f] = Cardinality(Holders(f)')
    BY <1>0, <2>1, <2>2, <2>4, <2>5, CountUp
  <2>7. \A g \in Frames \ {f} : pin'[g] = pin[g]
    BY <1>0, <2>5 DEF PinnedAgain, TypeOK
  <2> QED  BY <1>0, <2>4, <2>6, <2>7 DEF PinsCounted
<1>4. CASE SwapNew(t) \/ SwapFetch(t)
  <2>1. PICK f \in NextFrames : /\ Install(f, arg[t]) /\ pin' = PinFirst(f)
                                /\ SwapNew(t) => held' = [held EXCEPT ![t] =
                                      @ \cup {[page |-> arg[t], frame |-> f, wrote |-> "must"]}]
                                /\ SwapFetch(t) => target' = [target EXCEPT ![t] = f]
    BY <1>4 DEF SwapNew, SwapFetch
  <2>2. f \in Frames /\ pin[f] = 0
    BY NextUnpinned DEF PinInv
  <2>3. \A u \in Threads : pc[u] # "unpin"
    BY <1>0, <1>4 DEF SwapNew, SwapFetch, LatchFree, LatchesOK
  <2>4. \A u \in Threads : pc'[u] # "unpin"
    BY <1>0, <1>4, <2>3 DEF SwapNew, SwapFetch, Return, TypeOK
  <2>5. ASSUME NEW g \in Frames, NEW u \in Threads
        PROVE  (u \in Holders(g)') <=> (u \in Holders(g) \/ (u = t /\ g = f))
    <3>1. CASE SwapNew(t)
      <4> DEFINE h == [page |-> arg[t], frame |-> f, wrote |-> "must"]
      <4>1. /\ held' = [held EXCEPT ![t] = @ \cup {h}]
            /\ pc[t] = "swap" /\ pc' = [pc EXCEPT ![t] = "idle"]
            /\ target' = [target EXCEPT ![t] = None]
        BY <2>1, <3>1 DEF SwapNew, Return
      <4>2. h.frame = f
        OBVIOUS
      <4> HIDE DEF h
      <4> QED  BY <1>0, <2>3, <2>4, <4>1, <4>2 DEF Holders, TypeOK
    <3>2. CASE SwapFetch(t)
      BY <1>0, <2>1, <2>3, <2>4, <3>2 DEF SwapFetch, Holders, TypeOK
    <3> QED  BY <1>4, <3>1, <3>2
  <2>6. Holders(f)' = {t}
    BY <2>2, <2>5, Unheld DEF Holders
  <2>7. \A g \in Frames \ {f} : Holders(g)' = Holders(g)
    BY <2>5 DEF Holders
  <2>8. Cardinality(Holders(f)') = 1
    BY <2>6, FS_Singleton
  <2> QED  BY <1>0, <2>1, <2>2, <2>7, <2>8 DEF PinsCounted, PinFirst, TypeOK
<1>5. CASE ReadIn(t)
  <2>1. ASSUME NEW f \in Frames, NEW u \in Threads PROVE (u \in Holders(f)') <=> u \in Holders(f)
    <3> DEFINE h == [page |-> arg[t], frame |-> target[t], wrote |-> "no"]
    <3>1. /\ held' = [held EXCEPT ![t] = @ \cup {h}]
          /\ pc[t] = "read" /\ pc' = [pc EXCEPT ![t] = "idle"]
          /\ arg' = [arg EXCEPT ![t] = None] /\ target' = [target EXCEPT ![t] = None]
          /\ UNCHANGED frameOf
      BY <1>5 DEF ReadIn, Return, poolVars
    <3>2. h.frame = target[t]
      OBVIOUS
    <3> HIDE DEF h
    <3> QED  BY <1>0, <3>1, <3>2 DEF Holders, TypeOK
  <2>2. \A f \in Frames : Holders(f)' = Holders(f)
    BY <2>1 DEF Holders
  <2> QED  BY <1>5, <1>S, <2>2 DEF ReadIn
<1>6. CASE DeleteDone(t)
  <2>1. \A u \in Threads : pc[u] # "unpin" /\ pc'[u] # "unpin"
    BY <1>0, <1>6, PoolAssumption DEF DeleteDone, Return, LatchesOK, TypeOK
  <2>2. ASSUME NEW f \in Frames, NEW u \in Threads PROVE (u \in Holders(f)') <=> u \in Holders(f)
    BY <1>0, <1>6, <2>1 DEF DeleteDone, Return, Holders, TypeOK
  <2>3. \A f \in Frames : Holders(f)' = Holders(f)
    BY <2>2 DEF Holders
  <2> QED  BY <1>6, <1>S, <2>3 DEF DeleteDone
<1>7. CASE Unpinned(t)
  <2>1. PICK f \in Frames :
          f = frameOf[arg[t]] /\ arg[t] \in Pages /\ page[f] = arg[t] /\ arg[t] # None
    BY <1>0, <1>7, PoolAssumption DEF Unpinned, CallsOK, TableConsistent, TypeOK
  <2>2. pin' = UnpinnedOnce(f)
    BY <1>7, <2>1, PoolAssumption DEF Unpinned
  <2>3. t \in Holders(f) /\ \A h \in held[t] : h.frame # f
    BY <1>0, <1>7, <2>1 DEF Unpinned, Holders, HandlesValid, CallsOK
  <2>4. ASSUME NEW g \in Frames, NEW u \in Threads
        PROVE  (u \in Holders(g)') <=> (u \in Holders(g) /\ ~(u = t /\ g = f))
    <3>1. CASE u # t
      BY <1>0, <1>7, <3>1 DEF Unpinned, Return, poolVars, Holders, TypeOK
    <3>2. CASE u = t
      BY <1>0, <1>7, <2>1, <2>3, <3>2 DEF Unpinned, Return, poolVars, Holders, TypeOK
    <3> QED  BY <3>1, <3>2
  <2>5. Holders(f)' = Holders(f) \ {t} /\ \A g \in Frames \ {f} : Holders(g)' = Holders(g)
    BY <2>1, <2>4 DEF Holders
  <2>6. pin'[f] = Cardinality(Holders(f)')
    BY <1>0, <2>1, <2>2, <2>3, <2>5, CountDown
  <2>7. \A g \in Frames \ {f} : pin'[g] = pin[g]
    BY <1>0, <2>2 DEF UnpinnedOnce, TypeOK
  <2> QED  BY <1>0, <2>5, <2>6, <2>7 DEF PinsCounted
<1>8. CASE WriteFrame(t)
  <2> DEFINE g == CHOOSE k \in held[t] : k.frame = target[t]
  <2>1. g \in held[t]
    BY <1>0, <1>8 DEF WriteFrame, LocalsOK
  <2>2. held' = [held EXCEPT ![t] = (@ \ {g}) \cup {[g EXCEPT !.wrote = "yes"]}]
    BY <1>8 DEF WriteFrame
  <2> HIDE DEF g
  <2>3. [g EXCEPT !.wrote = "yes"].frame = g.frame
    BY <1>H, <2>1 DEF Handle
  <2>4. /\ pc' = [pc EXCEPT ![t] = "idle"] /\ arg' = [arg EXCEPT ![t] = None]
        /\ target' = [target EXCEPT ![t] = None] /\ UNCHANGED <<frameOf, pin>> /\ pc[t] = "use"
    BY <1>8 DEF WriteFrame, Return, poolVars
  <2>5. ASSUME NEW f \in Frames, NEW u \in Threads PROVE (u \in Holders(f)') <=> u \in Holders(f)
    BY <1>0, <2>1, <2>2, <2>3, <2>4 DEF Holders, TypeOK
  <2>6. \A f \in Frames : Holders(f)' = Holders(f)
    BY <2>5 DEF Holders
  <2> QED  BY <1>S, <2>4, <2>6
<1> QED
  BY <1>1, <1>2, <1>3, <1>4, <1>5, <1>6, <1>7, <1>8
  DEF ThreadStep, Call, Continue, Quiet

-----------------------------------------------------------------------------
(* An empty pool.                                                          *)
LEMMA InitPinInv == Init => PinInv
<1> SUFFICES ASSUME Init PROVE PinInv
  OBVIOUS
<1>1. Structure
  BY PoolAssumption DEF Init, Structure, LatchesOK, IdsOK, MissesOK, MappedBack
<1>2. HandlesValid /\ CallsOK
  BY DEF Init, HandlesValid, CallsOK
<1>3. \A f \in Frames : Holders(f) = {}
  BY DEF Init, Holders
<1>4. PinsCounted
  BY <1>3, FS_EmptySet DEF Init, PinsCounted
<1> QED  BY <1>1, <1>2, <1>4, InitIInv DEF PinInv

(* Every step preserves the invariant.                                     *)
LEMMA NextPinInv ==
    ASSUME ~RacingMisses, PinInv, [Next]_vars
    PROVE  PinInv'
<1>1. IInv'
  BY NextIInv DEF PinInv
<1>2. ASSUME NEW t \in Threads, ThreadStep(t) PROVE PinInv'
  BY <1>1, <1>2, LatchesStep, IdsStep, MissesStep, MappedStep, HandlesStep, CallsStep, PinsStep
  DEF PinInv, Structure
<1>3. CASE UNCHANGED vars
  <2>1. Structure' /\ HandlesValid' /\ CallsOK'
    BY <1>3 DEF vars, poolVars, frameVars, diskVars, threadVars, PinInv, Structure, LatchesOK,
                IdsOK, MissesOK, MappedBack, HandlesValid, CallsOK
  <2>2. PinsCounted'
    BY <1>3 DEF vars, poolVars, frameVars, threadVars, PinInv, PinsCounted, Holders
  <2> QED  BY <1>1, <2>1, <2>2 DEF PinInv
<1> QED  BY <1>2, <1>3 DEF Next, ThreadStep

(* Without two threads that miss on one page at the same time, the pins    *)
(* are counted in every state.                                             *)
LEMMA PinInvariant ==
    ASSUME ~RacingMisses
    PROVE  Spec => []PinInv
<1>1. PinInv /\ [Next]_vars => PinInv'
  BY NextPinInv
<1> QED  BY <1>1, InitPinInv, PTL DEF Spec

(* pool_manager.cpp:39, page.hpp: pin_count_ is the number of holders.     *)
THEOREM PinsAreHolders ==
    ASSUME ~RacingMisses
    PROVE  Spec => []PinsCounted
<1>1. PinInv => PinsCounted
  BY DEF PinInv
<1> QED  BY <1>1, PinInvariant, PTL

(* A pinned page stays in its frame.                                       *)
THEOREM PinnedPagesStay ==
    ASSUME ~RacingMisses
    PROVE  Spec => []HandlesValid
<1>1. PinInv => HandlesValid
  BY DEF PinInv
<1> QED  BY <1>1, PinInvariant, PTL

-----------------------------------------------------------------------------
(* A thread reads the page in; a thread has written the page and not told  *)
(* the frame yet.                                                          *)
Reading(f) == \E t \in Threads : pc[t] = "read" /\ target[t] = f

Unsaved(p, f) ==
    \E t \in Threads : \/ \E h \in held[t] : h.frame = f /\ h.wrote # "no"
                       \/ pc[t] = "unpin" /\ arg[t] = p /\ fresh[t]

(* NoLostWrite, of one page.                                               *)
PageKept(p) ==
    IF frameOf[p] = None \/ Reading(frameOf[p]) THEN disk[p] = latest[p]
    ELSE /\ data[frameOf[p]] = latest[p]
         /\ dirty[frameOf[p]] \/ disk[p] = latest[p] \/ Unsaved(p, frameOf[p])

(* NoLostWrite says PageKept of every page that is known.                  *)
LEMMA NoLostWriteByPage == NoLostWrite <=> \A p \in known : PageKept(p)
  BY DEF NoLostWrite, PageKept, Reading, Unsaved

(* A step that leaves the page, its frame and those who work on it alone.  *)
LEMMA PageKeptFrame ==
    ASSUME NEW p \in Pages, NEW f, f = frameOf[p], PageKept(p),
           frameOf'[p] = f, disk'[p] = disk[p], latest'[p] = latest[p],
           f # None => /\ data'[f] = data[f]
                       /\ dirty[f] => dirty'[f]
                       /\ Reading(f)' <=> Reading(f)
                       /\ Unsaved(p, f) => Unsaved(p, f)'
    PROVE  PageKept(p)'
<1>1. CASE f = None \/ Reading(f)
  BY <1>1 DEF PageKept, Reading
<1>2. CASE f # None /\ ~Reading(f)
  <2>1. Reading(f)' <=> Reading(frameOf[p])'
    BY DEF Reading
  <2>2. Unsaved(p, f)' <=> Unsaved(p, frameOf[p])'
    BY DEF Unsaved
  <2> QED  BY <1>2, <2>1, <2>2 DEF PageKept
<1> QED  BY <1>1, <1>2

DataInv == PinInv /\ NoLostWrite

(* swap_page writes the dirty victim back before it gives its frame away,  *)
(* and touches no other page.                                              *)
LEMMA InstallKeeps ==
    ASSUME DataInv, NEW f \in NextFrames, NEW p \in Pages, Install(f, p), frameOf[p] = None,
           NEW q \in known, q # p,
           latest'[q] = latest[q],
           NEW t \in Threads,
           \A u \in Threads \ {t} : /\ pc'[u] = pc[u] /\ arg'[u] = arg[u] /\ fresh'[u] = fresh[u]
                                    /\ target'[u] = target[u],
           \A u \in Threads : held[u] \subseteq held'[u],
           pc[t] = "swap", pc'[t] # "read" \/ target'[t] = f
    PROVE  PageKept(q)'
<1>0. /\ TypeOK /\ LocalsOK /\ TableConsistent /\ MappedBack /\ LatchesOK /\ CallsOK
      /\ PageKept(q) /\ q \in Pages
  BY NoLostWriteByPage DEF DataInv, PinInv, IInv, Structure, TypeOK
<1>1. f \in Frames /\ pin[f] = 0
  BY NextUnpinned DEF DataInv, PinInv
<1>2. CASE frameOf[q] = f
  <2>1. page[f] = q
    BY <1>0, <1>1, <1>2, PoolAssumption DEF TableConsistent
  <2>2. ~Reading(f) /\ ~Unsaved(q, f)
    BY <1>0, <1>1, <1>2, Unheld DEF DataInv, Reading, Unsaved
  <2>3. frameOf'[q] = None /\ disk'[q] = IF dirty[f] THEN data[f] ELSE disk[q]
    BY <1>0, <1>1, <2>1 DEF Install, Flushed, TypeOK
  <2>4. f # None
    BY <1>1, PoolAssumption
  <2>5. disk'[q] = latest[q]
    BY <1>0, <1>2, <2>2, <2>3, <2>4 DEF PageKept
  <2> QED  BY <2>3, <2>5 DEF PageKept
<1>3. CASE frameOf[q] # f
  <2> DEFINE g == frameOf[q]
  <2>1. page[f] # q
    BY <1>0, <1>1, <1>3, PoolAssumption DEF MappedBack, TypeOK
  <2>2. frameOf'[q] = g /\ disk'[q] = disk[q]
    BY <1>0, <1>1, <2>1 DEF Install, Flushed, TypeOK
  <2>3. g # None => g \in Frames /\ data'[g] = data[g] /\ dirty'[g] = dirty[g]
    BY <1>0, <1>1, <1>3 DEF Install, TypeOK
  <2>4. PICK k : k = frameOf[q]
    OBVIOUS
  <2>5. Reading(k)' <=> Reading(k)
    BY <1>1, <1>3, <2>4 DEF Reading
  <2>6. Unsaved(q, k) => Unsaved(q, k)'
    BY DEF Unsaved
  <2> QED  BY <1>0, <2>2, <2>3, <2>4, <2>5, <2>6, PageKeptFrame
<1> QED  BY <1>2, <1>3

(* What the clients wrote survives every step.                             *)
LEMMA DataStep ==
    ASSUME DataInv, NEW t \in Threads, ThreadStep(t)
    PROVE  NoLostWrite'
<1>0. /\ TypeOK /\ LocalsOK /\ TableConsistent /\ MappedBack /\ HandlesValid /\ CallsOK
      /\ LatchesOK /\ MissesOK /\ IdsOK /\ IInv /\ PinInv
  BY DEF DataInv, PinInv, IInv, Structure
<1>K. \A p \in known : p \in Pages /\ PageKept(p)
  BY <1>0, NoLostWriteByPage DEF DataInv, TypeOK
<1>H. \A u \in Threads : \A h \in held[u] : h \in Handle /\ h.frame \in Frames /\ h.page \in Pages
  BY <1>0 DEF TypeOK, Handle
<1>N. NoLostWrite' <=> \A p \in known' : PageKept(p)'
  BY DEF NoLostWrite, PageKept, Reading, Unsaved
<1> SUFFICES ASSUME NEW p \in known' PROVE PageKept(p)'
  BY <1>N
<1>1. CASE Quiet(t) /\ ~FlushAll(t)
  <2>1. /\ UNCHANGED <<frameOf, page, pin, dirty, held>>
        /\ pc[t] \notin {"read", "unpin"} /\ pc'[t] \notin {"read", "unpin"}
        /\ \A u \in Threads \ {t} : pc'[u] = pc[u] /\ arg'[u] = arg[u] /\ target'[u] = target[u]
    BY <1>0, <1>1, QuietEffect
  <2>2. UNCHANGED <<known, disk, latest, data>> /\ \A u \in Threads \ {t} : fresh'[u] = fresh[u]
    BY <1>0, <1>1 DEF Quiet, NewPage, FindMiss, SwapFull, DeleteRefused, ReadFrame, FetchPage,
                      DeletePage, LatchFrame, Return, diskVars, frameVars, TypeOK
  <2>3. PICK f : f = frameOf[p]
    OBVIOUS
  <2>4. (Reading(f)' <=> Reading(f)) /\ (Unsaved(p, f) => Unsaved(p, f)')
    BY <2>1, <2>2 DEF Reading, Unsaved
  <2> QED  BY <1>K, <2>1, <2>2, <2>3, <2>4, PageKeptFrame
<1>2. CASE FlushAll(t)
  <2>1. /\ UNCHANGED <<frameOf, dirty, data, held, known, latest, pc, arg, target, fresh, page>>
        /\ disk' = [q \in Pages |->
                      IF \E f \in Frames \ unused : dirty[f] /\ page[f] = q
                      THEN data[CHOOSE f \in Frames \ unused : dirty[f] /\ page[f] = q]
                      ELSE disk[q]]
    BY <1>2 DEF FlushAll, poolVars, frameVars, threadVars
  <2>2. p \in Pages /\ PageKept(p)
    BY <1>K, <2>1
  <2>3. CASE \E f \in Frames \ unused : dirty[f] /\ page[f] = p
    <3>1. PICK f \in Frames \ unused :
             dirty[f] /\ page[f] = p /\ f = CHOOSE g \in Frames \ unused : dirty[g] /\ page[g] = p
      BY <2>3
    <3>2. frameOf[p] = f /\ f # None
      BY <1>0, <2>2, <3>1, PoolAssumption DEF MappedBack
    <3>3. ~Reading(f)
      BY <1>0, <3>1 DEF Reading, CallsOK
    <3>4. disk'[p] = data[f]
      BY <2>1, <2>2, <2>3, <3>1
    <3> QED  BY <2>1, <2>2, <3>2, <3>3, <3>4 DEF PageKept, Reading
  <2>4. CASE ~ \E f \in Frames \ unused : dirty[f] /\ page[f] = p
    <3>1. disk'[p] = disk[p]
      BY <2>1, <2>2, <2>4
    <3> QED  BY <2>1, <2>2, <3>1 DEF PageKept, Reading, Unsaved
  <2> QED  BY <2>3, <2>4
<1>3. ASSUME NEW h \in held[t], UnpinPage(t, h) PROVE PageKept(p)'
  <2>1. page[h.frame] = h.page /\ frameOf[h.page] = h.frame
    BY <1>0 DEF HandlesValid
  <2>2. /\ UNCHANGED <<frameOf, page, dirty, data, disk, known, latest, target>>
        /\ held' = [held EXCEPT ![t] = @ \ {h}]
        /\ pc[t] = "idle" /\ pc' = [pc EXCEPT ![t] = "unpin"]
        /\ arg' = [arg EXCEPT ![t] = h.page]
        /\ fresh' = [fresh EXCEPT ![t] = (h.wrote = "yes")] /\ h.wrote # "must"
    BY <1>3, <2>1 DEF UnpinPage, poolVars, frameVars, diskVars
  <2>3. PICK f : f = frameOf[p]
    OBVIOUS
  <2>4. p \in Pages /\ PageKept(p)
    BY <1>K, <2>2
  <2>5. Reading(f)' <=> Reading(f)
    BY <1>0, <2>2 DEF Reading, TypeOK
  <2>6. ASSUME f # None, Unsaved(p, f) PROVE Unsaved(p, f)'
    <3>1. CASE h.frame = f /\ h.wrote # "no"
      <4>1. h.wrote = "yes" /\ h.page = p
        BY <1>0, <1>H, <2>1, <2>2, <2>3, <2>4, <3>1, <2>6 DEF Handle, TableConsistent
      <4> QED  BY <1>0, <2>2, <4>1 DEF Unsaved, TypeOK
    <3>2. CASE ~(h.frame = f /\ h.wrote # "no")
      BY <1>0, <2>2, <2>6, <3>2 DEF Unsaved, TypeOK
    <3> QED  BY <3>1, <3>2
  <2> QED  BY <2>2, <2>3, <2>4, <2>5, <2>6, PageKeptFrame
<1>4. CASE FindHit(t)
  <2>1. /\ UNCHANGED <<frameOf, page, dirty, data, disk, known, latest>>
        /\ pc[t] = "find" /\ pc' = [pc EXCEPT ![t] = "idle"]
        /\ \A u \in Threads : held[u] \subseteq held'[u]
        /\ \A u \in Threads \ {t} : arg'[u] = arg[u] /\ target'[u] = target[u] /\ fresh'[u] = fresh[u]
    BY <1>0, <1>4 DEF FindHit, Return, diskVars, TypeOK
  <2>2. PICK f : f = frameOf[p]
    OBVIOUS
  <2>3. (Reading(f)' <=> Reading(f)) /\ (Unsaved(p, f) => Unsaved(p, f)')
    BY <1>0, <2>1 DEF Reading, Unsaved, TypeOK
  <2> QED  BY <1>K, <2>1, <2>2, <2>3, PageKeptFrame
<1>5. CASE SwapNew(t)
  <2>1. PICK f \in NextFrames :
          /\ Install(f, arg[t])
          /\ held' = [held EXCEPT ![t] =
                @ \cup {[page |-> arg[t], frame |-> f, wrote |-> "must"]}]
    BY <1>5 DEF SwapNew
  <2>2. f \in Frames /\ arg[t] \in Pages /\ frameOf[arg[t]] = None /\ pin[f] = 0
    BY <1>0, <1>5, NextUnpinned DEF LocalsOK, MissesOK, SwapNew
  <2>3. /\ pc[t] = "swap" /\ pc' = [pc EXCEPT ![t] = "idle"]
        /\ known' = known \cup {arg[t]} /\ latest' = [latest EXCEPT ![arg[t]] = 0]
        /\ \A u \in Threads : held[u] \subseteq held'[u]
        /\ \A u \in Threads \ {t} : /\ pc'[u] = pc[u] /\ arg'[u] = arg[u]
                                    /\ target'[u] = target[u] /\ fresh'[u] = fresh[u]
    BY <1>0, <1>5, <2>1 DEF SwapNew, Return, TypeOK
  <2>4. CASE p = arg[t]
    <3>1. frameOf'[p] = f /\ data'[f] = 0 /\ latest'[p] = 0
      BY <1>0, <2>1, <2>2, <2>3, <2>4 DEF Install, TypeOK
    <3>2. ~Reading(f)'
      BY <1>0, <2>2, <2>3, Unheld DEF Reading, TypeOK
    <3>3. Unsaved(p, f)'
      <4> DEFINE h == [page |-> arg[t], frame |-> f, wrote |-> "must"]
      <4>1. h \in held'[t] /\ h.frame = f /\ h.wrote # "no"
        BY <1>0, <2>1 DEF TypeOK
      <4> HIDE DEF h
      <4> QED  BY <4>1 DEF Unsaved
    <3>4. f # None
      BY <2>2, PoolAssumption
    <3> QED  BY <3>1, <3>2, <3>3, <3>4 DEF PageKept, Reading, Unsaved
  <2>5. CASE p # arg[t]
    <3>1. p \in known /\ latest'[p] = latest[p]
      BY <1>0, <2>3, <2>5 DEF TypeOK
    <3>2. pc'[t] # "read"
      BY <1>0, <2>3 DEF TypeOK
    <3> QED  BY <2>1, <2>2, <2>3, <2>5, <3>1, <3>2, InstallKeeps
  <2> QED  BY <2>4, <2>5
<1>6. CASE SwapFetch(t)
  <2>1. PICK f \in NextFrames : Install(f, arg[t]) /\ target' = [target EXCEPT ![t] = f]
    BY <1>6 DEF SwapFetch
  <2>2. f \in Frames /\ arg[t] \in Pages /\ frameOf[arg[t]] = None
    BY <1>0, <1>6, NextUnpinned DEF LocalsOK, MissesOK, SwapFetch
  <2>3. /\ pc[t] = "swap" /\ pc' = [pc EXCEPT ![t] = "read"] /\ target'[t] = f /\ pc'[t] = "read"
        /\ UNCHANGED <<arg, fresh, held, known, latest>>
        /\ \A u \in Threads \ {t} : pc'[u] = pc[u] /\ target'[u] = target[u]
    BY <1>0, <1>6, <2>1 DEF SwapFetch, TypeOK
  <2>4. CASE p = arg[t]
    <3>1. page[f] # p
      BY <1>0, <2>2, <2>4, PoolAssumption DEF MappedBack, TypeOK
    <3>2. frameOf'[p] = f /\ disk'[p] = disk[p] /\ disk[p] = latest[p]
      BY <1>0, <1>K, <2>1, <2>2, <2>3, <2>4, <3>1 DEF Install, Flushed, TypeOK, PageKept
    <3>3. Reading(f)'
      BY <2>3 DEF Reading
    <3> QED  BY <2>3, <3>2, <3>3 DEF PageKept, Reading
  <2>5. CASE p # arg[t]
    BY <2>1, <2>2, <2>3, <2>5, InstallKeeps
  <2> QED  BY <2>4, <2>5
<1>7. CASE ReadIn(t)
  <2>1. /\ target[t] \in Frames /\ arg[t] \in Pages /\ page[target[t]] = arg[t]
        /\ frameOf[arg[t]] = target[t] /\ pc[t] = "read"
    BY <1>0, <1>7, PoolAssumption DEF ReadIn, LocalsOK, CallsOK, MappedBack
  <2>2. /\ data' = [data EXCEPT ![target[t]] = disk[arg[t]]]
        /\ pc' = [pc EXCEPT ![t] = "idle"]
        /\ UNCHANGED <<frameOf, page, dirty, disk, known, latest>>
        /\ \A u \in Threads : held[u] \subseteq held'[u]
        /\ \A u \in Threads \ {t} : /\ pc'[u] = pc[u] /\ arg'[u] = arg[u]
                                    /\ target'[u] = target[u] /\ fresh'[u] = fresh[u]
    BY <1>0, <1>7 DEF ReadIn, Return, poolVars, diskVars, TypeOK
  <2>3. p \in Pages /\ PageKept(p)
    BY <1>K, <2>2
  <2>4. CASE p = arg[t]
    <3>1. Reading(frameOf[p])
      BY <2>1, <2>4 DEF Reading
    <3>2. disk[p] = latest[p]
      BY <2>3, <3>1 DEF PageKept
    <3> QED  BY <1>0, <2>1, <2>2, <2>4, <3>2 DEF PageKept, TypeOK
  <2>5. CASE p # arg[t]
    <3>1. PICK f : f = frameOf[p]
      OBVIOUS
    <3>2. f # None => f # target[t] /\ f \in Frames
      BY <1>0, <2>1, <2>3, <2>5, <3>1 DEF TableConsistent, TypeOK
    <3>3. f # None => (Reading(f)' <=> Reading(f)) /\ (Unsaved(p, f) => Unsaved(p, f)')
      BY <1>0, <2>1, <2>2, <3>2 DEF Reading, Unsaved, TypeOK
    <3>4. f # None => data'[f] = data[f]
      BY <1>0, <2>2, <3>2 DEF TypeOK
    <3> QED  BY <2>2, <2>3, <3>1, <3>3, <3>4, PageKeptFrame
  <2> QED  BY <2>4, <2>5
<1>8. CASE DeleteDone(t)
  <2>1. /\ arg[t] \in Pages /\ pc[t] = "delete" /\ known' = known \ {arg[t]}
        /\ frameOf' = [frameOf EXCEPT ![arg[t]] = None]
        /\ data' = [g \in Frames |-> IF g = frameOf[arg[t]] THEN 0 ELSE data[g]]
        /\ dirty' = [g \in Frames |-> IF g = frameOf[arg[t]] THEN FALSE ELSE dirty[g]]
        /\ pc' = [pc EXCEPT ![t] = "idle"]
        /\ UNCHANGED <<disk, held, latest>>
        /\ \A u \in Threads \ {t} : /\ pc'[u] = pc[u] /\ arg'[u] = arg[u]
                                    /\ target'[u] = target[u] /\ fresh'[u] = fresh[u]
    BY <1>0, <1>8 DEF DeleteDone, Return, LocalsOK, TypeOK
  <2>2. p \in Pages /\ PageKept(p) /\ p # arg[t]
    BY <1>K, <2>1
  <2>3. PICK f : f = frameOf[p]
    OBVIOUS
  <2>4. f # None => f # frameOf[arg[t]] /\ f \in Frames
    BY <1>0, <2>1, <2>2, <2>3 DEF TableConsistent, TypeOK
  <2>5. f # None => (Reading(f)' <=> Reading(f)) /\ (Unsaved(p, f) => Unsaved(p, f)')
    BY <1>0, <2>1 DEF Reading, Unsaved, TypeOK
  <2>6. frameOf'[p] = f /\ (f # None => data'[f] = data[f] /\ dirty'[f] = dirty[f])
    BY <1>0, <2>1, <2>2, <2>3, <2>4 DEF TypeOK
  <2> QED  BY <2>1, <2>2, <2>3, <2>5, <2>6, PageKeptFrame
<1>9. CASE Unpinned(t)
  <2>1. /\ arg[t] \in Pages /\ frameOf[arg[t]] \in Frames /\ pc[t] = "unpin" /\ arg[t] # None
        /\ frameOf[arg[t]] # None
    BY <1>0, <1>9, PoolAssumption DEF Unpinned, CallsOK, TypeOK
  <2>2. /\ dirty' = [dirty EXCEPT ![frameOf[arg[t]]] = @ \/ fresh[t]]
        /\ pc' = [pc EXCEPT ![t] = "idle"]
        /\ UNCHANGED <<frameOf, data, disk, held, known, latest>>
        /\ \A u \in Threads \ {t} : /\ pc'[u] = pc[u] /\ arg'[u] = arg[u]
                                    /\ target'[u] = target[u] /\ fresh'[u] = fresh[u]
    BY <1>0, <1>9, <2>1 DEF Unpinned, Return, poolVars, diskVars, TypeOK
  <2>3. p \in Pages /\ PageKept(p)
    BY <1>K, <2>2
  <2>4. PICK f : f = frameOf[p]
    OBVIOUS
  <2>5. Reading(f)' <=> Reading(f)
    BY <1>0, <2>1, <2>2 DEF Reading, TypeOK
  <2>6. f # None => (dirty[f] => dirty'[f])
    BY <1>0, <2>1, <2>2, <2>3, <2>4 DEF TypeOK
  <2>7. CASE f # None /\ p = arg[t] /\ fresh[t] /\ ~Reading(f)
    <3>1. dirty'[f]
      BY <1>0, <2>1, <2>2, <2>4, <2>7 DEF TypeOK
    <3>2. ~Reading(frameOf[p])'
      BY <2>2, <2>4, <2>5, <2>7 DEF Reading
    <3> QED  BY <2>2, <2>3, <2>4, <2>7, <3>1, <3>2 DEF PageKept
  <2>8. CASE f = None \/ Reading(f)
    BY <2>2, <2>3, <2>4, <2>5, <2>8 DEF PageKept, Reading
  <2>9. CASE ~(p = arg[t] /\ fresh[t])
    <3>1. Unsaved(p, f) => Unsaved(p, f)'
      BY <1>0, <2>2, <2>9 DEF Unsaved, TypeOK
    <3> QED  BY <2>2, <2>3, <2>4, <2>5, <2>6, <3>1, PageKeptFrame
  <2> QED  BY <2>7, <2>8, <2>9
<1>10. CASE WriteFrame(t)
  <2> DEFINE g == CHOOSE k \in held[t] : k.frame = target[t]
             c == (data[target[t]] + 1) % Contents
             w == [g EXCEPT !.wrote = "yes"]
  <2>1. g \in held[t] /\ g.frame = target[t] /\ target[t] \in Frames /\ pc[t] = "use"
    BY <1>0, <1>10 DEF WriteFrame, LocalsOK
  <2>2. /\ held' = [held EXCEPT ![t] = (@ \ {g}) \cup {w}]
        /\ data' = [data EXCEPT ![target[t]] = c]
        /\ latest' = [latest EXCEPT ![g.page] = c]
        /\ pc' = [pc EXCEPT ![t] = "idle"]
        /\ UNCHANGED <<frameOf, dirty, disk, known>>
        /\ \A u \in Threads \ {t} : /\ pc'[u] = pc[u] /\ arg'[u] = arg[u]
                                    /\ target'[u] = target[u] /\ fresh'[u] = fresh[u]
    BY <1>0, <1>10 DEF WriteFrame, Return, poolVars, diskVars, TypeOK
  <2> HIDE DEF g, c
  <2>3. w.frame = target[t] /\ w.wrote = "yes"
    BY <1>H, <2>1 DEF Handle
  <2> HIDE DEF w
  <2>4. page[target[t]] = g.page /\ frameOf[g.page] = target[t] /\ g.page \in Pages
    BY <1>0, <1>H, <2>1 DEF HandlesValid
  <2>5. p \in Pages /\ PageKept(p)
    BY <1>K, <2>2
  <2>6. PICK f : f = frameOf[p]
    OBVIOUS
  <2>7. CASE p = g.page
    <3>1. f = target[t] /\ f # None
      BY <2>1, <2>4, <2>6, <2>7, PoolAssumption
    <3>2. ~Reading(f)'
      BY <1>0, <2>1, <2>2, <3>1 DEF Reading, LatchesOK, TypeOK
    <3>3. Unsaved(p, f)'
      BY <1>0, <2>2, <2>3, <3>1 DEF Unsaved, TypeOK
    <3>4. data'[f] = c /\ latest'[p] = c
      BY <1>0, <2>1, <2>2, <2>4, <2>7, <3>1 DEF TypeOK
    <3> QED  BY <2>2, <2>6, <3>1, <3>2, <3>3, <3>4 DEF PageKept, Reading, Unsaved
  <2>8. CASE p # g.page
    <3>1. f # None => f # target[t] /\ f \in Frames
      BY <1>0, <2>4, <2>5, <2>6, <2>8 DEF TableConsistent, TypeOK
    <3>2. f # None => (Reading(f)' <=> Reading(f)) /\ (Unsaved(p, f) => Unsaved(p, f)')
      BY <1>0, <2>1, <2>2, <3>1 DEF Reading, Unsaved, TypeOK
    <3>3. (f # None => data'[f] = data[f]) /\ latest'[p] = latest[p]
      BY <1>0, <2>2, <2>4, <2>5, <2>8, <3>1 DEF TypeOK
    <3> QED  BY <2>2, <2>5, <2>6, <3>2, <3>3, PageKeptFrame
  <2> QED  BY <2>7, <2>8
<1> QED
  BY <1>1, <1>2, <1>3, <1>4, <1>5, <1>6, <1>7, <1>8, <1>9, <1>10
  DEF ThreadStep, Call, Continue, Quiet

(* The written contents survive every step of the pool.                    *)
LEMMA NextDataInv ==
    ASSUME ~RacingMisses, DataInv, [Next]_vars
    PROVE  DataInv'
<1>1. PinInv'
  BY NextPinInv DEF DataInv
<1>2. ASSUME NEW t \in Threads, ThreadStep(t) PROVE NoLostWrite'
  BY <1>2, DataStep
<1>3. ASSUME UNCHANGED vars PROVE NoLostWrite'
  BY <1>3 DEF vars, poolVars, frameVars, diskVars, threadVars, DataInv, NoLostWrite
<1>4. CASE Next
  BY <1>1, <1>2, <1>4 DEF DataInv, Next, ThreadStep
<1> QED  BY <1>1, <1>3, <1>4 DEF DataInv

(* pool_manager.cpp: what was written into a page is in its frame while it *)
(* is cached and in the file otherwise.                                    *)
THEOREM WritesKept ==
    ASSUME ~RacingMisses
    PROVE  Spec => []NoLostWrite
<1>1. Init => DataInv
  <2>1. Init => NoLostWrite
    BY DEF Init, NoLostWrite
  <2> QED  BY <2>1, InitPinInv DEF DataInv
<1>2. DataInv /\ [Next]_vars => DataInv'
  BY NextDataInv
<1>3. DataInv => NoLostWrite
  BY DEF DataInv
<1> QED  BY <1>1, <1>2, <1>3, PTL DEF Spec

-----------------------------------------------------------------------------
(* Every set of naturals with a member has a least one.                    *)
LEMMA LeastNatural ==
    ASSUME NEW S \in SUBSET Nat, S # {}
    PROVE  \E m \in S : \A n \in S : m <= n
<1>1. PICK m \in S : \A n \in S : ~(<<n, m>> \in OpToRel(<, Nat))
  BY NatLessThanWellFounded, WFMin, Zenon
<1>2. \A n \in S : ~(n < m)
  BY <1>1 DEF OpToRel
<1> QED  BY <1>2

(* The replacer's list is one: finitely many pages in a total order.       *)
ListOK(o) ==
    /\ IsFiniteSet(Tracked(o))
    /\ \A e \in o : e[1] \in Tracked(o) /\ e[2] \in Tracked(o)
    /\ \A p, q \in Tracked(o) : <<p, q>> \in o \/ <<q, p>> \in o
    /\ \A p, q, r \in Tracked(o) : <<p, q>> \in o /\ <<q, r>> \in o => <<p, r>> \in o

(* So some page of any of its pages comes first: find_lru finds a victim   *)
(* if there is one.                                                        *)
LEMMA ListHasFirst ==
    ASSUME NEW o \in SUBSET (Pages \X Pages), ListOK(o), NEW E \in SUBSET Tracked(o), E # {}
    PROVE  \E p \in E : \A q \in E : <<p, q>> \in o
<1> DEFINE Before(p) == {q \in E : <<q, p>> \in o}
           Ranks == {Cardinality(Before(p)) : p \in E}
<1>1. IsFiniteSet(E)
  BY FS_Subset DEF ListOK
<1>2. \A p \in E : IsFiniteSet(Before(p)) /\ Cardinality(Before(p)) \in Nat
  <2> TAKE p \in E
  <2>1. Before(p) \in SUBSET E
    OBVIOUS
  <2>2. IsFiniteSet(Before(p))
    BY <1>1, <2>1, FS_Subset
  <2> QED  BY <2>2, FS_CardinalityType
<1>3. PICK p \in E : \A q \in E : Cardinality(Before(p)) <= Cardinality(Before(q))
  <2>1. Ranks \in SUBSET Nat /\ Ranks # {}
    BY <1>2
  <2>2. PICK m \in Ranks : \A n \in Ranks : m <= n
    BY <2>1, LeastNatural
  <2> QED  BY <2>2
<1>4. ASSUME NEW q \in E, <<p, q>> \notin o PROVE FALSE
  <2>1. <<q, p>> \in o /\ <<q, q>> \in o /\ <<p, p>> \in o
    BY <1>4 DEF ListOK, Tracked
  <2>2. Before(q) \in SUBSET Before(p)
    BY <2>1 DEF ListOK
  <2>3. p \in Before(p) /\ p \notin Before(q)
    BY <1>4, <2>1
  <2>4. Cardinality(Before(q)) <= Cardinality(Before(p))
        /\ (Cardinality(Before(p)) = Cardinality(Before(q)) => Before(p) = Before(q))
    BY <1>2, <2>2, FS_Subset
  <2> HIDE DEF Before
  <2> QED  BY <1>2, <1>3, <2>3, <2>4
<1> QED  BY <1>4

(* remove and record keep it a list.                                       *)
LEMMA ListStep ==
    ASSUME NEW o \in SUBSET (Pages \X Pages), ListOK(o), NEW p \in Pages, NEW old \in Pages \cup {None}
    PROVE  ListOK(Removed(o, old)) /\ ListOK(Recorded(o, p))
<1>1. ASSUME NEW x PROVE \A e : e \in Removed(o, x) <=> e \in o /\ e[1] # x /\ e[2] # x
  BY DEF Removed
<1>2. \A e : e \in Recorded(o, p) <=> \/ e \in Removed(o, p)
                                     \/ \E q \in Tracked(o) \cup {p} : e = <<q, p>>
  BY DEF Recorded
<1>3. Tracked(Removed(o, old)) = Tracked(o) \ {old} /\ Tracked(Recorded(o, p)) = Tracked(o) \cup {p}
  BY ReplacerSets
<1>4. IsFiniteSet(Tracked(o) \ {old}) /\ IsFiniteSet(Tracked(o) \cup {p})
  BY FS_RemoveElement, FS_AddElement DEF ListOK
<1>5. ListOK(Removed(o, old))
  BY <1>1, <1>3, <1>4 DEF ListOK
<1>6. ListOK(Recorded(o, p))
  <2>1. \A q, r \in Tracked(o) \cup {p} :
           <<q, r>> \in Recorded(o, p) <=> r = p \/ (q # p /\ <<q, r>> \in o)
    BY <1>1, <1>2
  <2>2. \A e \in Recorded(o, p) : e[1] \in Tracked(o) \cup {p} /\ e[2] \in Tracked(o) \cup {p}
    BY <1>1, <1>2 DEF ListOK
  <2>3. \A q \in (Tracked(o) \cup {p}) \ {p} : q \in Tracked(o)
    OBVIOUS
  <2> QED  BY <1>3, <1>4, <2>1, <2>2, <2>3 DEF ListOK
<1> QED  BY <1>5, <1>6

(* A frame without a page is on the free list or was never used.           *)
EmptyFramesFree == \A f \in Frames : page[f] = None => f \in freeFrames \cup unused

ListInv == PinInv /\ ListOK(mru) /\ EmptyFramesFree

(* The order of the list is changed by record and remove only.             *)
LEMMA NextListInv ==
    ASSUME ~RacingMisses, ListInv, [Next]_vars
    PROVE  ListInv'
<1>0. PinInv' /\ TypeOK /\ LocalsOK /\ ListOK(mru) /\ EmptyFramesFree /\ IInv
  BY NextPinInv DEF ListInv, PinInv, IInv
<1>L. mru \in SUBSET (Pages \X Pages)
  BY <1>0 DEF TypeOK
<1>1. ASSUME NEW t \in Threads, ThreadStep(t) PROVE ListOK(mru')
  <2>1. CASE SwapNew(t) \/ SwapFetch(t)
    <3>1. PICK f \in NextFrames : mru' = Recorded(Removed(mru, page[f]), arg[t])
      BY <2>1 DEF SwapNew, SwapFetch, Install
    <3>2. page[f] \in Pages \cup {None} /\ arg[t] \in Pages
      BY <1>0, <2>1, NextUnpinned DEF TypeOK, LocalsOK, SwapNew, SwapFetch
    <3>3. Removed(mru, page[f]) \in SUBSET (Pages \X Pages) /\ ListOK(Removed(mru, page[f]))
      BY <1>0, <1>L, <3>2, ListStep, ReplacerSets
    <3> QED  BY <3>1, <3>2, <3>3, ListStep
  <2>2. CASE FindHit(t)
    BY <1>0, <1>L, <2>2, ListStep DEF FindHit, LocalsOK
  <2>3. CASE DeleteDone(t)
    BY <1>0, <1>L, <2>3, ListStep DEF DeleteDone, LocalsOK
  <2>4. CASE UNCHANGED mru
    BY <1>0, <2>4
  <2>5. SwapNew(t) \/ SwapFetch(t) \/ FindHit(t) \/ DeleteDone(t) \/ UNCHANGED mru
    BY <1>1 DEF ThreadStep, Call, Continue, NewPage, FlushAll, FetchPage, DeletePage, UnpinPage,
         LatchFrame, FindMiss, SwapFull, ReadIn, DeleteRefused, Unpinned, WriteFrame,
         ReadFrame, poolVars
  <2> QED  BY <2>1, <2>2, <2>3, <2>4, <2>5
<1>2. ASSUME NEW t \in Threads, ThreadStep(t) PROVE EmptyFramesFree'
  <2>1. CASE SwapNew(t) \/ SwapFetch(t)
    <3>1. PICK f \in NextFrames : Install(f, arg[t]) /\ arg[t] # None
      BY <1>0, <2>1, PoolAssumption DEF SwapNew, SwapFetch, LocalsOK
    <3> QED  BY <1>0, <3>1 DEF Install, EmptyFramesFree, TypeOK
  <2>2. CASE DeleteDone(t)
    BY <1>0, <2>2, PoolAssumption DEF DeleteDone, EmptyFramesFree, Freed, TypeOK
  <2>3. CASE UNCHANGED <<page, freeFrames, unused>>
    BY <1>0, <2>3 DEF EmptyFramesFree
  <2>4. SwapNew(t) \/ SwapFetch(t) \/ DeleteDone(t) \/ UNCHANGED <<page, freeFrames, unused>>
    BY <1>2 DEF ThreadStep, Call, Continue, NewPage, FlushAll, FetchPage, DeletePage, UnpinPage,
         LatchFrame, FindHit, FindMiss, SwapFull, ReadIn, DeleteRefused, Unpinned, WriteFrame,
         ReadFrame, poolVars, frameVars
  <2> QED  BY <2>1, <2>2, <2>3, <2>4
<1>3. ASSUME UNCHANGED vars PROVE ListOK(mru') /\ EmptyFramesFree'
  BY <1>0, <1>3 DEF vars, poolVars, frameVars, EmptyFramesFree
<1>4. ListOK(mru') /\ EmptyFramesFree'
  <2>1. CASE Next
    BY <1>1, <1>2, <2>1 DEF Next, ThreadStep
  <2> QED  BY <1>3, <2>1
<1>5. ListOK(mru)'
  BY <1>4 DEF ListOK, Tracked
<1> QED  BY <1>0, <1>4, <1>5 DEF ListInv

(* replacer.cpp:29, pool_manager.cpp:98: a caller gets nullptr only if     *)
(* every frame of the pool is pinned.                                      *)
THEOREM RefusedWhenPinned ==
    ASSUME ~RacingMisses
    PROVE  Spec => RefusedOnlyWhenPinned
<1>1. Init => ListInv
  <2>1. Init => ListOK(mru)
    <3> SUFFICES ASSUME Init PROVE ListOK(mru)
      OBVIOUS
    <3>1. Tracked(mru) = {}
      BY DEF Init, Tracked
    <3> QED  BY <3>1, FS_EmptySet DEF Init, ListOK
  <2> QED  BY <2>1, InitPinInv DEF ListInv, EmptyFramesFree, Init
<1>2. ListInv /\ [Next]_vars => ListInv'
  BY NextListInv
<1>3. ListInv /\ [Next]_vars =>
        [\A t \in Threads : (pc[t] = "swap" /\ pc'[t] = "idle" /\ held'[t] = held[t]) =>
              \A f \in Frames : pin[f] > 0]_vars
  <2> SUFFICES ASSUME ListInv, NEW t \in Threads, ThreadStep(t), NEW u \in Threads,
                      pc[u] = "swap", pc'[u] = "idle", held'[u] = held[u], NEW f \in Frames
               PROVE  pin[f] > 0
    BY DEF Next, ThreadStep
  <2>0. /\ TypeOK /\ LocalsOK /\ TableConsistent /\ MappedBack /\ MissesOK /\ HandlesValid /\ PinInv
        /\ ListOK(mru) /\ EmptyFramesFree
    BY DEF ListInv, PinInv, IInv, Structure
  <2>1. SwapNew(t) \/ SwapFull(t)
    BY <2>0 DEF ThreadStep, Call, Continue, NewPage, FlushAll, FetchPage, DeletePage, UnpinPage,
         LatchFrame, FindHit, FindMiss, SwapFetch, ReadIn, DeleteRefused, DeleteDone, Unpinned,
         WriteFrame, ReadFrame, Return, threadVars, TypeOK
  <2>2. u = t
    BY <2>0, <2>1 DEF SwapNew, SwapFull, Return, TypeOK
  <2>3. SwapFull(t)
    <3> SUFFICES ASSUME SwapNew(t) PROVE FALSE
      BY <2>1
    <3>1. PICK g \in NextFrames : held' = [held EXCEPT ![t] =
             @ \cup {[page |-> arg[t], frame |-> g, wrote |-> "must"]}]
      BY DEF SwapNew
    <3>2. [page |-> arg[t], frame |-> g, wrote |-> "must"] \in held[t]
      BY <2>0, <2>2, <3>1 DEF TypeOK
    <3>3. pc[t] = "swap" /\ frameOf[arg[t]] = g /\ frameOf[arg[t]] = None
      BY <2>0, <3>2 DEF SwapNew, HandlesValid, MissesOK
    <3> QED  BY <2>0, <3>3, NextUnpinned, PoolAssumption DEF PinInv
  <2>4. freeFrames = {} /\ unused = {} /\ Lru = {}
    BY <2>3 DEF SwapFull, NextFrames
  <2>5. Evictable = {}
    <3>1. Evictable \in SUBSET Tracked(mru) /\ mru \in SUBSET (Pages \X Pages)
      BY <2>0 DEF Evictable, TypeOK
    <3> QED  BY <2>0, <2>4, <3>1, ListHasFirst DEF Lru
  <2>6. page[f] # None
    BY <2>0, <2>4 DEF EmptyFramesFree
  <2>7. page[f] \in Tracked(mru) /\ frameOf[page[f]] = f
    BY <2>0, <2>6, PoolAssumption DEF MappedBack, TypeOK, TableConsistent
  <2>8. pin[f] # 0
    BY <2>5, <2>7, PoolAssumption DEF Evictable
  <2> QED  BY <2>0, <2>8 DEF TypeOK
<1> QED  BY <1>1, <1>2, <1>3, PTL DEF Spec, RefusedOnlyWhenPinned

=============================================================================
