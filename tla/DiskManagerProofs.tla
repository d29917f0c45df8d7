-------------------------- MODULE DiskManagerProofs --------------------------
(***************************************************************************)
(* The disk manager's allocation, for any number of threads, pages and     *)
(* crashes: what is handed out is nobody's, what is given back is not      *)
(* lost, and a crash does not reach the pages of the last clean shutdown.  *)
(***************************************************************************)
EXTENDS DiskManager, FiniteSetTheorems, SequenceTheorems, TLAPS

Growers == {u \in Threads : pc[u] = "grow"}

(* Calls are under way only while the database is open, and those that     *)
(* will grow the file have been counted against its bound.                 *)
CallsOK ==
    /\ phase # "up" => \A t \in Threads : pc[t] = "idle"
    /\ phase = "up" => capacity + Cardinality(Growers) <= MaxPages + 1

(* The ids below the capacity are shared out between the owners and the    *)
(* free list.                                                              *)
SharedOut ==
    /\ capacity >= 1
    /\ \A i \in 1 .. Len(freeList) : freeList[i] \notin owned \cup {0}
    /\ \A i, j \in 1 .. Len(freeList) : freeList[i] = freeList[j] => i = j
    /\ \A i \in 1 .. Len(freeList) : freeList[i] < capacity
    /\ 0 \notin owned
    /\ \A p \in owned : p < capacity
    /\ \A p \in 1 .. capacity - 1 :
          p \in owned \/ p \in forgotten \/ \E i \in 1 .. Len(freeList) : freeList[i] = p

HeaderCurrent == header = [capacity |-> capacity, size |-> Len(freeList)]

(* Without a crash the file is the last session's state.                   *)
CleanOK ==
    crashes = 0 =>
        /\ phase # "down" \/ written # {} => SharedOut
        /\ phase = "down" /\ written # {} => HeaderCurrent /\ ReadList(header.size) = freeList
        /\ phase = "down" /\ written = {} => owned = {}

(* No page of the last clean shutdown is free, in memory or in the file.   *)
StableOK ==
    /\ stable \subseteq written
    /\ phase = "closing" => HeaderCurrent /\ owned \ {0} \subseteq written
    /\ ~torn /\ phase # "down" =>
          \A p \in stable : p < capacity /\ \A i \in 1 .. Len(freeList) : freeList[i] # p
    /\ ~torn /\ phase # "closing" =>
          \A p \in stable : p < header.capacity /\ \A i \in 1 .. header.size : ReadList(header.size)[i] # p

(* The invariant that every step of the disk manager keeps.                *)
DiskInv ==
    /\ TypeOK
    /\ Len(freeList) <= FreeListCap + 1
    /\ CallsOK
    /\ CleanOK
    /\ StableOK

-----------------------------------------------------------------------------
(* What pop_back of a non-empty list takes and leaves.                     *)
LEMMA PopBack ==
    ASSUME NEW S, NEW s \in Seq(S), s # <<>>
    PROVE  /\ Last(s) = s[Len(s)] /\ Len(s) \in 1 .. Len(s)
           /\ Front(s) \in Seq(S) /\ Len(Front(s)) = Len(s) - 1
           /\ \A i \in 1 .. Len(s) - 1 : Front(s)[i] = s[i]
<1>1. Len(s) \in Nat /\ Len(s) >= 1
  BY EmptySeq
<1>2. \A i \in 1 .. Len(s) - 1 : s[i] \in S
  BY <1>1, ElementOfSeq
<1>3. /\ Front(s) \in Seq(S) /\ Len(Front(s)) = Len(s) - 1
      /\ \A i \in 1 .. Len(s) - 1 : Front(s)[i] = s[i]
  <2>1. PICK n \in Nat : n = Len(s) - 1
    BY <1>1
  <2>2. 1 \in Int /\ n \in Int /\ \A i \in 1 .. n : s[i] \in S
    BY <1>2, <2>1
  <2>3. /\ SubSeq(s, 1, n) \in Seq(S) /\ Len(SubSeq(s, 1, n)) = IF 1 <= n THEN n - 1 + 1 ELSE 0
        /\ \A i \in 1 .. n - 1 + 1 : SubSeq(s, 1, n)[i] = s[1 + i - 1]
    BY <2>2, SubSeqProperties
  <2>4. n - 1 + 1 = n /\ \A i \in 1 .. n : 1 + i - 1 = i
    BY <2>2
  <2> QED  BY <2>1, <2>3, <2>4 DEF Front
<1> QED  BY <1>1, <1>3 DEF Last

(* What init_header reads of the list region, and what is in it after it   *)
(* has been written.                                                       *)
LEMMA ListRegion ==
    ASSUME TypeOK, NEW n \in Nat, NEW s \in Seq(0 .. MaxPages)
    PROVE  /\ ReadList(n) \in Seq(0 .. MaxPages) /\ Len(ReadList(n)) = n
           /\ Overwritten(s) \in Seq(0 .. MaxPages)
           /\ Len(Overwritten(s)) >= Len(s)
           /\ \A i \in 1 .. Len(s) : Overwritten(s)[i] = s[i]
<1>1. list \in Seq(0 .. MaxPages) /\ MaxPages \in Nat
  BY DiskAssumption DEF TypeOK
<1>2. ReadList(n) \in [1 .. n -> 0 .. MaxPages]
  <2> SUFFICES ASSUME NEW i \in 1 .. n
               PROVE  (IF i <= Len(list) THEN list[i] ELSE 0) \in 0 .. MaxPages
    BY DEF ReadList
  <2>1. CASE i <= Len(list)
    <3>1. i \in 1 .. Len(list)
      BY <1>1, <2>1
    <3> QED  BY <1>1, <2>1, <3>1
  <2> QED  BY <1>1, <2>1
<1>3. ReadList(n) \in Seq(0 .. MaxPages) /\ Len(ReadList(n)) = n
  <2>1. ReadList(n) \in Seq(0 .. MaxPages)
    BY <1>2, SeqDef
  <2> QED  BY <1>2, <2>1, LenProperties
<1>4. SubSeq(list, Len(s) + 1, Len(list)) \in Seq(0 .. MaxPages)
  BY <1>1
<1> QED  BY <1>3, <1>4 DEF Overwritten

(* Starting a call that will grow the file counts one more, finishing it   *)
(* one less.                                                               *)
LEMMA CountGrowers ==
    ASSUME TypeOK, NEW t \in Threads
    PROVE  /\ IsFiniteSet(Growers) /\ Cardinality(Growers) \in Nat
           /\ (pc[t] = "idle" /\ pc' = [pc EXCEPT ![t] = "grow"]) =>
                 Cardinality(Growers') = Cardinality(Growers) + 1
           /\ (pc[t] = "grow" /\ pc' = [pc EXCEPT ![t] = "idle"]) =>
                 Cardinality(Growers') = Cardinality(Growers) - 1
<1>1. IsFiniteSet(Growers) /\ Cardinality(Growers) \in Nat
  <2>1. Growers \in SUBSET Threads
    BY DEF Growers
  <2> QED  BY <2>1, DiskAssumption, FS_Subset, FS_CardinalityType
<1>2. ASSUME pc[t] = "idle", pc' = [pc EXCEPT ![t] = "grow"]
      PROVE  Cardinality(Growers') = Cardinality(Growers) + 1
  <2>1. Growers' = Growers \cup {t} /\ t \notin Growers
    BY <1>2 DEF Growers, TypeOK
  <2> QED  BY <1>1, <2>1, FS_AddElement
<1>3. ASSUME pc[t] = "grow", pc' = [pc EXCEPT ![t] = "idle"]
      PROVE  Cardinality(Growers') = Cardinality(Growers) - 1
  <2>1. Growers' = Growers \ {t} /\ t \in Growers
    BY <1>3 DEF Growers, TypeOK
  <2> QED  BY <1>1, <2>1, FS_RemoveElement
<1> QED  BY <1>1, <1>2, <1>3

(* A new file satisfies the invariant.                                     *)
LEMMA InitDisk == Init => DiskInv
<1> SUFFICES ASSUME Init PROVE DiskInv
  OBVIOUS
<1>1. <<>> \in Seq(0 .. MaxPages) /\ Len(<<>>) = 0
  BY EmptySeq
<1>2. [capacity |-> 0, size |-> 0] \in [capacity : 0 .. MaxPages + 1, size : 0 .. FreeListCap + 1]
  BY DiskAssumption
<1>3. 0 \in 0 .. MaxPages + 1 /\ 0 \in 0 .. MaxCrashes
  BY DiskAssumption
<1>4. TypeOK
  BY <1>1, <1>2, <1>3 DEF Init, TypeOK
<1> QED
  BY <1>1, <1>4, DiskAssumption DEF Init, DiskInv, CallsOK, CleanOK, StableOK

(* Every step of the disk manager keeps the invariant.                     *)
LEMMA NextDisk ==
    ASSUME DiskInv, [Next]_vars
    PROVE  DiskInv'
<1>0. /\ TypeOK /\ Len(freeList) <= FreeListCap + 1 /\ CallsOK /\ CleanOK /\ StableOK
      /\ Len(freeList) \in Nat /\ header.size \in Nat /\ crashes \in Nat
      /\ freeList \in Seq(0 .. MaxPages)
  BY DiskAssumption, LenProperties DEF DiskInv, TypeOK
<1>R. /\ ReadList(header.size) \in Seq(0 .. MaxPages) /\ Len(ReadList(header.size)) = header.size
      /\ Overwritten(freeList) \in Seq(0 .. MaxPages) /\ Len(Overwritten(freeList)) >= Len(freeList)
      /\ \A i \in 1 .. Len(freeList) : Overwritten(freeList)[i] = freeList[i]
  BY <1>0, ListRegion
<1>F. \A i \in 1 .. Len(freeList) : freeList[i] \in 0 .. MaxPages
  BY <1>0, ElementOfSeq
<1>1. CASE OpenNew
  <2>1. stable = {} /\ owned \in SUBSET (PageIDs \cup {0}) /\ (crashes = 0 => owned = {})
    BY <1>0, <1>1 DEF OpenNew, StableOK, CleanOK, TypeOK
  <2>2. TypeOK' /\ Len(freeList') = 0
    BY <1>0, <1>1, DiskAssumption DEF OpenNew, history, TypeOK
  <2>3. Growers' = {}
    BY <1>0, <1>1 DEF OpenNew, CallsOK, Growers
  <2>4. CallsOK'
    BY <1>1, <2>3, DiskAssumption, FS_EmptySet DEF OpenNew, CallsOK
  <2>5. CleanOK'
    BY <1>1, <2>1, <2>2 DEF OpenNew, history, CleanOK, SharedOut
  <2>6. StableOK'
    BY <1>1, <2>1, <2>2 DEF OpenNew, history, StableOK
  <2> QED  BY <2>2, <2>4, <2>5, <2>6, DiskAssumption DEF DiskInv
<1>2. CASE OpenExisting
  <2>1. /\ phase = "down" /\ written # {} /\ phase' = "up"
        /\ capacity' = header.capacity /\ freeList' = ReadList(header.size)
        /\ UNCHANGED <<header, list, written, pc, owned, crashes, torn, stable, forgotten>>
    BY <1>2 DEF OpenExisting, history
  <2>2. TypeOK' /\ Len(freeList') = header.size /\ header.size <= FreeListCap + 1
    BY <1>0, <1>R, <2>1, DiskAssumption DEF TypeOK
  <2>3. Growers' = {}
    BY <1>0, <2>1 DEF CallsOK, Growers
  <2>4. CallsOK'
    BY <1>0, <2>1, <2>3, DiskAssumption, FS_EmptySet DEF CallsOK, TypeOK
  <2>5. CleanOK'
    BY <1>0, <2>1 DEF CleanOK, SharedOut, HeaderCurrent
  <2>6. StableOK'
    BY <1>0, <2>1, <2>2 DEF StableOK, ReadList
  <2> QED  BY <2>2, <2>4, <2>5, <2>6 DEF DiskInv
<1>3. CASE CloseHeader
  <2>1. /\ phase = "up" /\ phase' = "closing" /\ HeaderCurrent'
        /\ \A t \in Threads : pc[t] = "idle"
        /\ owned \ {0} \subseteq written
        /\ UNCHANGED <<capacity, freeList, list, written, pc, owned, crashes, torn, stable, forgotten>>
    BY <1>3 DEF CloseHeader, history, HeaderCurrent
  <2>2. TypeOK'
    BY <1>0, <1>3, <2>1 DEF TypeOK, CloseHeader
  <2>3. CallsOK' /\ CleanOK' /\ StableOK'
    BY <1>0, <2>1 DEF CallsOK, CleanOK, StableOK, SharedOut
  <2> QED  BY <1>0, <2>1, <2>2, <2>3 DEF DiskInv
<1>4. CASE CloseList
  <2>1. /\ phase = "closing" /\ phase' = "down" /\ list' = Overwritten(freeList)
        /\ stable' = IF crashes = 0 THEN owned ELSE stable
        /\ HeaderCurrent /\ owned \ {0} \subseteq written
        /\ UNCHANGED <<capacity, freeList, header, written, pc, owned, crashes, torn, forgotten>>
    BY <1>0, <1>4 DEF CloseList, StableOK
  <2>2. header.size = Len(freeList) /\ header.capacity = capacity
    BY <2>1 DEF HeaderCurrent
  <2>3. ReadList(header.size)' = freeList
    <3>1. ReadList(header.size)' = [i \in 1 .. Len(freeList) |-> IF i <= Len(list') THEN list'[i] ELSE 0]
      BY <2>1, <2>2 DEF ReadList
    <3>2. \A i \in 1 .. Len(freeList) : i <= Len(list') /\ list'[i] = freeList[i]
      BY <1>0, <1>R, <2>1, LenProperties
    <3>3. freeList = [i \in 1 .. Len(freeList) |-> freeList[i]]
      BY <1>0, LenProperties
    <3> QED  BY <3>1, <3>2, <3>3
  <2>4. crashes = 0 => SharedOut
    BY <1>0, <2>1 DEF CleanOK
  <2>5. stable' \in SUBSET PageIDs /\ stable' \subseteq written
    BY <1>0, <2>1, <2>4 DEF SharedOut, StableOK, TypeOK
  <2>6. TypeOK'
    BY <1>0, <1>R, <2>1, <2>5 DEF TypeOK
  <2>7. CallsOK'
    BY <1>0, <2>1 DEF CallsOK
  <2>8. CleanOK'
    <3>1. crashes = 0 => SharedOut'
      BY <2>1, <2>4 DEF SharedOut
    <3>2. HeaderCurrent'
      BY <2>1 DEF HeaderCurrent
    <3>3. written = {} /\ crashes = 0 => owned = {}
      BY <2>1, <2>4 DEF SharedOut
    <3> QED  BY <2>1, <2>3, <3>1, <3>2, <3>3 DEF CleanOK
  <2>9. StableOK'
    BY <1>0, <2>1, <2>2, <2>3, <2>4, <2>5 DEF StableOK, SharedOut
  <2> QED  BY <1>0, <2>1, <2>6, <2>7, <2>8, <2>9 DEF DiskInv
<1>5. CASE Crash
  <2>1. /\ phase \in {"up", "closing"} /\ phase' = "down" /\ crashes' = crashes + 1
        /\ crashes < MaxCrashes
        /\ torn' = (torn \/ phase = "closing") /\ pc' = [t \in Threads |-> "idle"]
        /\ owned' = owned \cap written
        /\ UNCHANGED <<capacity, freeList, header, list, written, stable, forgotten>>
    BY <1>5 DEF Crash
  <2>2. TypeOK'
    BY <1>0, <2>1, DiskAssumption DEF TypeOK
  <2>3. CallsOK' /\ CleanOK'
    BY <1>0, <2>1 DEF CallsOK, CleanOK
  <2>4. StableOK'
    BY <1>0, <2>1 DEF StableOK, ReadList
  <2> QED  BY <1>0, <2>1, <2>2, <2>3, <2>4 DEF DiskInv
<1>6. CASE UNCHANGED vars
  BY <1>6 DEF vars, history, DiskInv, TypeOK, CallsOK, Growers, CleanOK, SharedOut, HeaderCurrent,
     StableOK, ReadList
<1>7. ASSUME NEW t \in Threads, AllocateFree(t) PROVE DiskInv'
  <2>1. /\ phase = "up" /\ freeList # <<>>
        /\ owned' = owned \cup {Last(freeList)} /\ freeList' = Front(freeList)
        /\ UNCHANGED <<phase, capacity, header, list, written, pc, crashes, torn, stable, forgotten>>
    BY <1>7 DEF AllocateFree, history
  <2>2. /\ Last(freeList) = freeList[Len(freeList)] /\ Len(freeList) \in 1 .. Len(freeList)
        /\ freeList' \in Seq(0 .. MaxPages) /\ Len(freeList') = Len(freeList) - 1
        /\ \A i \in 1 .. Len(freeList) - 1 : freeList'[i] = freeList[i]
    BY <1>0, <2>1, PopBack
  <2>3. owned' \in SUBSET (PageIDs \cup {0})
    <3>1. Last(freeList) \in 0 .. MaxPages
      BY <1>F, <2>2
    <3>2. Last(freeList) \in PageIDs \cup {0}
      BY <3>1, DiskAssumption DEF PageIDs
    <3> QED  BY <1>0, <2>1, <3>2 DEF TypeOK
  <2>4. TypeOK'
    BY <1>0, <2>1, <2>2, <2>3 DEF TypeOK
  <2>5. CallsOK'
    BY <1>0, <2>1 DEF CallsOK, Growers
  <2>6. CleanOK'
    <3>1. SharedOut => SharedOut'
      <4> SUFFICES ASSUME SharedOut PROVE SharedOut'
        OBVIOUS
      <4>1. PICK l : l = freeList[Len(freeList)]
        OBVIOUS
      <4>2. \A i \in 1 .. Len(freeList') : freeList'[i] = freeList[i] /\ i \in 1 .. Len(freeList) /\ i # Len(freeList)
        BY <1>0, <2>2
      <4>3. \A i \in 1 .. Len(freeList) : i \in 1 .. Len(freeList') \/ i = Len(freeList)
        BY <1>0, <2>2
      <4>4. owned' = owned \cup {l} /\ l < capacity /\ l # 0
        BY <2>1, <2>2, <4>1 DEF SharedOut
      <4>5. \A i \in 1 .. Len(freeList') : freeList'[i] \notin owned' \cup {0} /\ freeList'[i] < capacity
        BY <1>0, <2>2, <4>1, <4>2, <4>4 DEF SharedOut
      <4>6. \A i, j \in 1 .. Len(freeList') : freeList'[i] = freeList'[j] => i = j
        BY <4>2 DEF SharedOut
      <4>7. \A p \in 1 .. capacity - 1 :
               p \in owned' \/ p \in forgotten \/ \E i \in 1 .. Len(freeList') : freeList'[i] = p
        BY <4>1, <4>2, <4>3, <4>4 DEF SharedOut
      <4> QED  BY <2>1, <4>4, <4>5, <4>6, <4>7 DEF SharedOut
    <3> QED  BY <1>0, <2>1, <3>1 DEF CleanOK
  <2>7. StableOK'
    <3>1. \A i \in 1 .. Len(freeList') : freeList'[i] = freeList[i] /\ i \in 1 .. Len(freeList)
      BY <1>0, <2>2
    <3> QED  BY <1>0, <2>1, <3>1 DEF StableOK, ReadList
  <2> QED  BY <1>0, <2>2, <2>4, <2>5, <2>6, <2>7, DiskAssumption DEF DiskInv
<1>8. ASSUME NEW t \in Threads, AllocateEmpty(t) PROVE DiskInv'
  <2>1. /\ phase = "up" /\ pc[t] = "idle" /\ pc' = [pc EXCEPT ![t] = "grow"]
        /\ capacity + Cardinality(Growers) <= MaxPages
        /\ UNCHANGED <<phase, capacity, freeList, header, list, written, owned, crashes, torn, stable, forgotten>>
    BY <1>8 DEF AllocateEmpty, history, Growers
  <2>2. TypeOK'
    BY <1>0, <2>1 DEF TypeOK
  <2>3. CallsOK'
    <3>1. Cardinality(Growers') = Cardinality(Growers) + 1 /\ Cardinality(Growers) \in Nat
      BY <1>0, <2>1, CountGrowers
    <3>2. capacity' + Cardinality(Growers') <= MaxPages + 1
      BY <1>0, <2>1, <3>1, DiskAssumption DEF TypeOK
    <3> QED  BY <2>1, <3>2 DEF CallsOK
  <2>4. CleanOK' /\ StableOK'
    BY <1>0, <2>1 DEF CleanOK, SharedOut, HeaderCurrent, StableOK, ReadList
  <2> QED  BY <1>0, <2>1, <2>2, <2>3, <2>4 DEF DiskInv
<1>9. ASSUME NEW t \in Threads, AllocateGrow(t) PROVE DiskInv'
  <2>1. /\ phase = "up" /\ pc[t] = "grow" /\ pc' = [pc EXCEPT ![t] = "idle"]
        /\ owned' = owned \cup {capacity} /\ capacity' = capacity + 1
        /\ UNCHANGED <<phase, freeList, header, list, written, crashes, torn, stable, forgotten>>
    BY <1>9 DEF AllocateGrow, history
  <2>2. /\ Cardinality(Growers') = Cardinality(Growers) - 1 /\ Cardinality(Growers) \in Nat
        /\ Cardinality(Growers') \in Nat
    <3>1. t \in Growers /\ IsFiniteSet(Growers)
      BY <1>0, <2>1, CountGrowers DEF Growers
    <3>2. Cardinality(Growers) # 0
      BY <3>1, FS_EmptySet
    <3>3. Cardinality(Growers') = Cardinality(Growers) - 1 /\ Cardinality(Growers) \in Nat
      BY <1>0, <2>1, CountGrowers
    <3> QED  BY <3>2, <3>3
  <2>3. capacity \in Nat /\ capacity <= MaxPages
    BY <1>0, <2>1, <2>2, DiskAssumption DEF CallsOK, TypeOK
  <2>4. TypeOK'
    BY <1>0, <2>1, <2>3, DiskAssumption DEF TypeOK, PageIDs
  <2>5. CallsOK'
    BY <1>0, <2>1, <2>2, <2>3, DiskAssumption DEF CallsOK
  <2>6. SharedOut => SharedOut'
    BY <1>0, <1>F, <2>1, <2>3, DiskAssumption DEF SharedOut, TypeOK, PageIDs
  <2>7. CleanOK'
    BY <1>0, <2>1, <2>6 DEF CleanOK
  <2>8. StableOK'
    BY <1>0, <2>1, <2>3, DiskAssumption DEF StableOK, ReadList, TypeOK, PageIDs
  <2> QED  BY <1>0, <2>1, <2>4, <2>5, <2>7, <2>8 DEF DiskInv
<1>10. ASSUME NEW t \in Threads, NEW p \in PageIDs, Deallocate(t, p) PROVE DiskInv'
  <2>1. /\ phase = "up" /\ p \in owned /\ owned' = owned \ {p} /\ stable' = stable \ {p}
        /\ freeList' = IF TooLong THEN freeList ELSE Append(freeList, p)
        /\ forgotten' = IF TooLong THEN forgotten \cup {p} ELSE forgotten
        /\ UNCHANGED <<phase, capacity, header, list, written, pc, crashes, torn>>
    BY <1>10 DEF Deallocate
  <2>2. p \in 0 .. MaxPages /\ p # 0
    BY DiskAssumption DEF PageIDs
  <2>3. /\ Append(freeList, p) \in Seq(0 .. MaxPages) /\ Len(Append(freeList, p)) = Len(freeList) + 1
        /\ \A i \in 1 .. Len(freeList) : Append(freeList, p)[i] = freeList[i]
        /\ Append(freeList, p)[Len(freeList) + 1] = p
    BY <1>0, <2>2, AppendProperties
  <2>4. TypeOK' /\ Len(freeList') <= FreeListCap + 1
    <3>1. freeList' \in Seq(0 .. MaxPages) /\ Len(freeList') <= FreeListCap + 1
      <4>1. CASE TooLong
        BY <1>0, <2>1, <4>1
      <4>2. CASE ~TooLong
        <5>1. Len(freeList) <= FreeListCap /\ freeList' = Append(freeList, p)
          BY <1>0, <2>1, <4>2, DiskAssumption DEF TooLong
        <5> QED  BY <1>0, <2>3, <5>1, DiskAssumption
      <4> QED  BY <4>1, <4>2
    <3>2. forgotten' \in SUBSET PageIDs /\ stable' \in SUBSET PageIDs
      BY <1>0, <2>1 DEF TypeOK
    <3>3. owned' \in SUBSET (PageIDs \cup {0})
      BY <1>0, <2>1 DEF TypeOK
    <3> QED  BY <1>0, <2>1, <3>1, <3>2, <3>3 DEF TypeOK
  <2>5. CallsOK'
    BY <1>0, <2>1 DEF CallsOK, Growers
  <2>6. SharedOut => SharedOut'
    <3>1. CASE TooLong
      BY <2>1, <3>1 DEF SharedOut
    <3>2. CASE ~TooLong
      <4>1. \A i \in 1 .. Len(freeList') :
               (i \in 1 .. Len(freeList) /\ freeList'[i] = freeList[i]) \/ (i = Len(freeList) + 1 /\ freeList'[i] = p)
        BY <1>0, <2>1, <2>3, <3>2
      <4>2. \A i \in 1 .. Len(freeList) : i \in 1 .. Len(freeList') /\ freeList'[i] = freeList[i]
        BY <1>0, <2>1, <2>3, <3>2
      <4>3. Len(freeList) + 1 \in 1 .. Len(freeList') /\ freeList'[Len(freeList) + 1] = p
        BY <1>0, <2>1, <2>3, <3>2
      <4> QED  BY <2>1, <2>2, <3>2, <4>1, <4>2, <4>3 DEF SharedOut
    <3> QED  BY <3>1, <3>2
  <2>7. CleanOK'
    BY <1>0, <2>1, <2>6 DEF CleanOK
  <2>8. StableOK'
    <3>1. \A i \in 1 .. Len(freeList') :
             (i \in 1 .. Len(freeList) /\ freeList'[i] = freeList[i]) \/ freeList'[i] = p
      BY <1>0, <2>1, <2>3
    <3> QED  BY <1>0, <2>1, <3>1 DEF StableOK, ReadList
  <2> QED  BY <2>4, <2>5, <2>7, <2>8 DEF DiskInv
<1>11. ASSUME NEW p \in PageIDs, WritePage(p) PROVE DiskInv'
  <2>1. /\ phase = "up" /\ written' = written \cup {p}
        /\ UNCHANGED <<phase, capacity, freeList, header, list, pc, owned, crashes, torn, stable, forgotten>>
    BY <1>11 DEF WritePage, history
  <2>2. TypeOK' /\ CallsOK'
    BY <1>0, <2>1 DEF TypeOK, CallsOK, Growers
  <2>3. CleanOK' /\ StableOK'
    BY <1>0, <2>1 DEF CleanOK, SharedOut, StableOK, ReadList
  <2> QED  BY <1>0, <2>1, <2>2, <2>3 DEF DiskInv
<1> QED
  BY <1>1, <1>2, <1>3, <1>4, <1>5, <1>6, <1>7, <1>8, <1>9, <1>10, <1>11 DEF Next

-----------------------------------------------------------------------------
(* disk_manager.cpp: every field of the disk manager and of the metadata   *)
(* page keeps to its range: the capacity to the ids there are, the list    *)
(* in the file to one entry more than the cap.                             *)
THEOREM DiskTypes == Spec => []TypeOK
<1>1. Init => DiskInv
  BY InitDisk
<1>2. DiskInv /\ [Next]_vars => DiskInv'
  BY NextDisk
<1>3. DiskInv => TypeOK
  BY DEF DiskInv
<1> QED  BY <1>1, <1>2, <1>3, PTL DEF Spec

(* disk_manager.cpp:55-78: as long as every shutdown is clean, the id that *)
(* allocate_page hands out next is nobody's, is handed out once and is not *)
(* the metadata page.                                                      *)
THEOREM IdsAreUnowned == Spec => []IdsUnowned
<1>1. Init => DiskInv
  BY InitDisk
<1>2. DiskInv /\ [Next]_vars => DiskInv'
  BY NextDisk
<1>3. DiskInv => IdsUnowned
  <2> SUFFICES ASSUME DiskInv, phase = "up", crashes = 0 PROVE IdsUnowned
    BY DEF IdsUnowned
  <2>1. SharedOut /\ Range(freeList) = {freeList[i] : i \in 1 .. Len(freeList)}
    BY RangeEquality DEF DiskInv, CleanOK, TypeOK
  <2> QED  BY <2>1 DEF SharedOut, IdsUnowned
<1> QED  BY <1>1, <1>2, <1>3, PTL DEF Spec

(* disk_manager.cpp:65-78: as long as every shutdown is clean, only a      *)
(* deallocation into a list that is too long costs a page.                 *)
THEOREM PagesNotLost == Spec => []NoPageLost
<1>1. Init => DiskInv
  BY InitDisk
<1>2. DiskInv /\ [Next]_vars => DiskInv'
  BY NextDisk
<1>3. DiskInv => NoPageLost
  <2> SUFFICES ASSUME DiskInv, phase = "up", crashes = 0 PROVE NoPageLost
    BY DEF NoPageLost
  <2>1. SharedOut /\ Range(freeList) = {freeList[i] : i \in 1 .. Len(freeList)}
    BY RangeEquality DEF DiskInv, CleanOK, TypeOK
  <2> QED  BY <2>1 DEF SharedOut, NoPageLost
<1> QED  BY <1>1, <1>2, <1>3, PTL DEF Spec

(* disk_manager.cpp:47-53, 80-92: whatever crashes come, as long as none   *)
(* tears flush_all, the pages of the last clean shutdown that are still in *)
(* use are neither free nor past the capacity.                             *)
THEOREM StablePagesKept == Spec => []StableKept
<1>1. Init => DiskInv
  BY InitDisk
<1>2. DiskInv /\ [Next]_vars => DiskInv'
  BY NextDisk
<1>3. DiskInv => StableKept
  <2> SUFFICES ASSUME DiskInv, phase = "up", ~torn PROVE StableKept
    BY DEF StableKept
  <2>1. StableOK /\ Range(freeList) = {freeList[i] : i \in 1 .. Len(freeList)}
    BY RangeEquality DEF DiskInv, TypeOK
  <2> QED  BY <2>1 DEF StableOK, StableKept
<1> QED  BY <1>1, <1>2, <1>3, PTL DEF Spec

=============================================================================
