-------------------------------- MODULE List --------------------------------
(***************************************************************************)
(* What a list of the kernel promises: a sequence, newest first, and one   *)
(* traversal that visits each element once, whatever is removed behind it. *)
(***************************************************************************)
EXTENDS Sequences, SequencesExt

CONSTANTS Elem, NoElem

VARIABLES
    elems, \* the contents, newest first
    rest,  \* what the traversal still has to visit
    seen   \* what next returned last

Init == elems = <<>> /\ rest = <<>> /\ seen = NoElem

Add(e) == elems' = <<e>> \o elems /\ UNCHANGED <<rest, seen>>

\* The list is emptied when there is no memory for one element more.
AddFails == elems' = <<>> /\ UNCHANGED <<rest, seen>>

ToBegin == rest' = elems /\ UNCHANGED <<elems, seen>>

Visit == /\ rest # <<>>
         /\ seen' = Head(rest)
         /\ rest' = Tail(rest)
         /\ UNCHANGED elems

VisitNothing == rest = <<>> /\ seen' = NoElem /\ UNCHANGED <<elems, rest>>

\* The element just visited leaves the list.
RemoveSeen == \E i \in DOMAIN elems :
    /\ i = Len(elems) - Len(rest)
    /\ elems[i] = seen
    /\ elems' = RemoveAt(elems, i)
    /\ UNCHANGED <<rest, seen>>

Clear == elems' = <<>> /\ rest' = <<>> /\ UNCHANGED seen

Next == \/ \E e \in Elem : Add(e)
        \/ AddFails \/ ToBegin \/ Visit \/ VisitNothing \/ RemoveSeen \/ Clear

Spec == Init /\ [][Next]_<<elems, rest, seen>>
=============================================================================
