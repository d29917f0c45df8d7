---------------------------- MODULE DiskManager ----------------------------
(***************************************************************************)
(* DiskManager: allocation and deallocation of page ids by several         *)
(* threads, page writes, and the life of the file across clean shutdowns   *)
(* and crashes.  Page 0 is the metadata page: a header with the capacity   *)
(* and the length of the free list, and then the list.  Both are written   *)
(* by flush_all only, that is when a new file is made and when the         *)
(* DiskManager is destroyed.                                               *)
(*                                                                         *)
(* A crash is the death of the process: what pwrite has written stays.     *)
(* One between the two writes of flush_all can leave a header with a list  *)
(* it does not describe, whose entries may be 0: allocate_page then hands  *)
(* out the metadata page.  What writing that page does is not followed.    *)
(***************************************************************************)
EXTENDS Integers, Sequences, SequencesExt, FiniteSets

CONSTANTS
    Threads,       \* threads that allocate and deallocate
    MaxPages,      \* bound on the page ids the file can grow to
    FreeListCap,   \* 1024 in the code: a longer list takes no more pages
    MaxCrashes     \* bound on the crashes in one behaviour

ASSUME DiskAssumption ==
    /\ IsFiniteSet(Threads)
    /\ MaxPages \in Nat \ {0}
    /\ FreeListCap \in Nat
    /\ MaxCrashes \in Nat

VARIABLES
    phase,      \* "down", "up", or "closing" between the two writes of flush_all
    capacity,   \* capacity_
    freeList,   \* free_list_
    header,     \* DiskHeader in the file: [capacity, size]
    list,       \* the free list in the file
    written,    \* pages the file has been extended to hold
    pc,         \* "grow": allocate_page found the free list empty
    owned,      \* page ids allocated by the layers above and not given back
    crashes,    \* crashes so far
    torn,       \* history: a crash came between the two writes of flush_all
    stable,     \* history: pages owned at the last clean shutdown before a
                \* crash and not given back since
    forgotten   \* history: pages given back while the free list was too long

history == <<crashes, torn, stable, forgotten>>
vars == <<phase, capacity, freeList, header, list, written, pc, owned, history>>

PageIDs == 1 .. MaxPages

(* What a free list of n entries reads as, from a file whose list region   *)
(* may be shorter than the header says: bytes never written are zero.      *)
ReadList(n) == [i \in 1 .. n |-> IF i <= Len(list) THEN list[i] ELSE 0]

(* pwrite of the list overwrites a prefix of the region.                   *)
Overwritten(new) == new \o SubSeq(list, Len(new) + 1, Len(list))

-----------------------------------------------------------------------------
Init ==
    /\ phase = "down"
    /\ capacity = 0
    /\ freeList = <<>>
    /\ header = [capacity |-> 0, size |-> 0]
    /\ list = <<>>
    /\ written = {}
    /\ pc = [t \in Threads |-> "idle"]
    /\ owned = {}
    /\ crashes = 0
    /\ torn = FALSE
    /\ stable = {}
    /\ forgotten = {}

(* Mutant: the constructor does not allocate page 0 for the metadata.      *)
OpenNewAtZero ==
    /\ phase = "down" /\ written = {}
    /\ phase' = "up"
    /\ capacity' = 0
    /\ freeList' = <<>>
    /\ header' = [capacity |-> 0, size |-> 0]
    /\ UNCHANGED <<list, written, pc, owned, history>>

(* The constructor on a file that is shorter than one page: the header is  *)
(* made anew and flushed.                                                  *)
OpenNew ==
    /\ phase = "down" /\ written = {}
    /\ phase' = "up"
    /\ capacity' = 1
    /\ freeList' = <<>>
    /\ header' = [capacity |-> 1, size |-> 0]
    /\ UNCHANGED <<list, written, pc, owned, history>>

(* Mutant: init_header does not read the free list back.                   *)
OpenForgetful ==
    /\ phase = "down" /\ written # {}
    /\ phase' = "up"
    /\ capacity' = header.capacity
    /\ freeList' = <<>>
    /\ UNCHANGED <<header, list, written, pc, owned, history>>

(* The constructor on an existing file: init_header.                       *)
OpenExisting ==
    /\ phase = "down" /\ written # {}
    /\ phase' = "up"
    /\ capacity' = header.capacity
    /\ freeList' = ReadList(header.size)
    /\ UNCHANGED <<header, list, written, pc, owned, history>>

(* allocate_page with something in the free list: its last entry.          *)
AllocateFree(t) ==
    /\ phase = "up" /\ pc[t] = "idle"
    /\ freeList # <<>>
    /\ owned' = owned \cup {Last(freeList)}
    /\ freeList' = Front(freeList)
    /\ UNCHANGED <<phase, capacity, header, list, written, pc, history>>

(* allocate_page with an empty list: the mutex is released (MaxPages       *)
(* bounds the calls) ...                                                   *)
AllocateEmpty(t) ==
    /\ phase = "up" /\ pc[t] = "idle"
    /\ freeList = <<>>
    /\ capacity + Cardinality({u \in Threads : pc[u] = "grow"}) <= MaxPages
    /\ pc' = [pc EXCEPT ![t] = "grow"]
    /\ UNCHANGED <<phase, capacity, freeList, header, list, written, owned, history>>

(* ... and capacity_.fetch_add makes the new id.                           *)
AllocateGrow(t) ==
    /\ phase = "up" /\ pc[t] = "grow"
    /\ owned' = owned \cup {capacity}
    /\ capacity' = capacity + 1
    /\ pc' = [pc EXCEPT ![t] = "idle"]
    /\ UNCHANGED <<phase, freeList, header, list, written, history>>

(* deallocate_page's test against the cap.                                 *)
TooLong == Len(freeList) > FreeListCap

(* Mutant: deallocate_page writes the header, but not the list.            *)
DeallocateFlushed(t, p) ==
    /\ phase = "up" /\ pc[t] = "idle"
    /\ p \in owned
    /\ owned' = owned \ {p}
    /\ stable' = stable \ {p}
    /\ freeList' = IF TooLong THEN freeList ELSE Append(freeList, p)
    /\ forgotten' = IF TooLong THEN forgotten \cup {p} ELSE forgotten
    /\ header' = [header EXCEPT !.size = Len(freeList')]
    /\ UNCHANGED <<phase, capacity, list, written, pc, crashes, torn>>

(* deallocate_page by the owner of the page.  A list that is too long      *)
(* makes it print a warning and forget the page.                           *)
Deallocate(t, p) ==
    /\ phase = "up" /\ pc[t] = "idle"
    /\ p \in owned
    /\ owned' = owned \ {p}
    /\ stable' = stable \ {p}
    /\ freeList' = IF TooLong THEN freeList ELSE Append(freeList, p)
    /\ forgotten' = IF TooLong THEN forgotten \cup {p} ELSE forgotten
    /\ UNCHANGED <<phase, capacity, header, list, written, pc, crashes, torn>>

(* write_page of an allocated page; an id past the capacity throws.        *)
WritePage(p) ==
    /\ phase = "up"
    /\ p \in owned /\ p < capacity
    /\ written' = written \cup {p}
    /\ UNCHANGED <<phase, capacity, freeList, header, list, pc, owned, history>>

(* Mutant: the destructor leaves the header as it was.                     *)
CloseStaleHeader ==
    /\ phase = "up"
    /\ \A t \in Threads : pc[t] = "idle"
    /\ owned \ {0} \subseteq written
    /\ phase' = "closing"
    /\ UNCHANGED <<capacity, freeList, header, list, written, pc, owned, history>>

(* The destructor, after every thread has returned and the buffer pool has *)
(* written its dirty pages: flush_all writes the header ...                *)
CloseHeader ==
    /\ phase = "up"
    /\ \A t \in Threads : pc[t] = "idle"
    /\ owned \ {0} \subseteq written
    /\ header' = [capacity |-> capacity, size |-> Len(freeList)]
    /\ phase' = "closing"
    /\ UNCHANGED <<capacity, freeList, list, written, pc, owned, history>>

(* ... and then the list; the process ends.                                *)
CloseList ==
    /\ phase = "closing"
    /\ list' = Overwritten(freeList)
    /\ phase' = "down"
    /\ stable' = IF crashes = 0 THEN owned ELSE stable
    /\ UNCHANGED <<capacity, freeList, header, written, pc, owned,
                   crashes, torn, forgotten>>

(* The process dies.  What the layers above find again after a restart are *)
(* the pages that had reached the file.                                    *)
Crash ==
    /\ phase \in {"up", "closing"}
    /\ crashes < MaxCrashes
    /\ crashes' = crashes + 1
    /\ torn' = (torn \/ phase = "closing")
    /\ phase' = "down"
    /\ pc' = [t \in Threads |-> "idle"]
    /\ owned' = owned \cap written
    /\ UNCHANGED <<capacity, freeList, header, list, written, stable, forgotten>>

Next ==
    \/ OpenNew \/ OpenExisting \/ CloseHeader \/ CloseList \/ Crash
    \/ \E t \in Threads :
         \/ AllocateFree(t) \/ AllocateEmpty(t) \/ AllocateGrow(t)
         \/ \E p \in PageIDs : Deallocate(t, p)
    \/ \E p \in PageIDs : WritePage(p)

Spec == Init /\ [][Next]_vars

-----------------------------------------------------------------------------
TypeOK ==
    /\ phase \in {"down", "up", "closing"}
    /\ capacity \in 0 .. MaxPages + 1
    /\ freeList \in Seq(0 .. MaxPages)
    /\ header \in [capacity : 0 .. MaxPages + 1, size : 0 .. FreeListCap + 1]
    /\ list \in Seq(0 .. MaxPages)
    /\ written \in SUBSET PageIDs
    /\ pc \in [Threads -> {"idle", "grow"}]
    /\ owned \in SUBSET (PageIDs \cup {0})
    /\ crashes \in 0 .. MaxCrashes
    /\ torn \in BOOLEAN
    /\ stable \in SUBSET PageIDs
    /\ forgotten \in SUBSET PageIDs

(* README.md:27 "deallocated pages are correctly recycled across process   *)
(* restarts": as long as every shutdown is a clean one, the id             *)
(* allocate_page hands out next, from the free list or by growing the      *)
(* file, is nobody's, is handed out once and is not the metadata page.     *)
IdsUnowned ==
    (phase = "up" /\ crashes = 0) =>
        /\ \A i \in 1 .. Len(freeList) : freeList[i] \notin owned \cup {0}
        /\ \A i, j \in 1 .. Len(freeList) : freeList[i] = freeList[j] => i = j
        /\ \A p \in owned \cup Range(freeList) : p < capacity

(* Nothing but a deallocation into a list that is too long (the warning of *)
(* disk_manager.cpp:72) costs a page: every other id below the capacity is *)
(* owned by somebody or in the free list, also after clean restarts.       *)
NoPageLost ==
    (phase = "up" /\ crashes = 0) =>
        \A p \in 1 .. capacity - 1 : p \in owned \cup forgotten \cup Range(freeList)

(* The metadata page is written by a clean shutdown only, so a crash and   *)
(* all the sessions after it work from an old one.  The pages that were in *)
(* use when it was written, and still are, are safe all the same: they are *)
(* neither free nor past the capacity, unless the crash tore flush_all.    *)
StableKept ==
    (phase = "up" /\ ~torn) =>
        \A p \in stable : p \notin Range(freeList) /\ p < capacity
=============================================================================
