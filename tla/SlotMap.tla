------------------------------ MODULE SlotMap ------------------------------
(***************************************************************************)
(* What a slotted page promises to TableHeap: numbered slots that are      *)
(* empty or hold one tuple.  A slot number, once given out, stays valid;   *)
(* every operation changes the content of one slot.                        *)
(***************************************************************************)
EXTENDS Naturals, Sequences

CONSTANTS Tuples,   \* the rows that are stored
          Empty     \* the content of a slot that is free

VARIABLE content    \* the tuple in every slot of the page

-----------------------------------------------------------------------------
Init == content = <<>>

(* A page grows by a slot only when it has no empty one.                   *)
StoreNew(t) ==
    /\ \A i \in 1 .. Len(content) : content[i] # Empty
    /\ content' = Append(content, t)

Store(i, t) ==
    /\ content[i] = Empty
    /\ content' = [content EXCEPT ![i] = t]

Replace(i, t) ==
    /\ content[i] # Empty
    /\ content' = [content EXCEPT ![i] = t]

Remove(i) ==
    /\ content[i] # Empty
    /\ content' = [content EXCEPT ![i] = Empty]

Next ==
    \/ \E t \in Tuples : StoreNew(t)
    \/ \E i \in 1 .. Len(content) :
          \/ Remove(i)
          \/ \E t \in Tuples : Store(i, t) \/ Replace(i, t)

Spec == Init /\ [][Next]_content
=============================================================================
