------------------------------ MODULE ListSpec ------------------------------
(***************************************************************************)
(* What src/sc_list.h promises its clients, without a pointer in sight: a  *)
(* list is a sequence of elements, an element is in at most one list and   *)
(* at most once, adding an element that is already in a list moves it.     *)
(* ScList implements this specification.                                   *)
(***************************************************************************)
EXTENDS Naturals, Sequences, SequencesExt

CONSTANTS Lists, Elems

VARIABLE items          \* items[l] is the content of list l, head first

Present(l, e) == Contains(items[l], e)

\* The content of every list once e has been taken out of the one it is in.
Without(e) == [l \in Lists |-> RemoveFirst(items[l], e)]

Position(s, e) == CHOOSE i \in DOMAIN s : s[i] = e

TypeOK ==
    /\ items \in [Lists -> Seq(Elems)]
    /\ \A e \in Elems : \A l, m \in Lists :
          \A i \in DOMAIN items[l], j \in DOMAIN items[m] :
             items[l][i] = e /\ items[m][j] = e => l = m /\ i = j

Init == items = [l \in Lists |-> <<>>]

AddTail(l, e) == items' = [Without(e) EXCEPT ![l] = Append(@, e)]

AddHead(l, e) == items' = [Without(e) EXCEPT ![l] = <<e>> \o @]

AddAfter(l, p, e) ==
    /\ Present(l, p)
    /\ p # e
    /\ items' = [Without(e) EXCEPT ![l] = InsertAt(@, Position(@, p) + 1, e)]

AddBefore(l, n, e) ==
    /\ Present(l, n)
    /\ n # e
    /\ items' = [Without(e) EXCEPT ![l] = InsertAt(@, Position(@, n), e)]

TakeOut(e) == items' = Without(e)

Next ==
    \/ \E l \in Lists, e \in Elems : AddTail(l, e) \/ AddHead(l, e)
    \/ \E l \in Lists, e, p \in Elems : AddAfter(l, p, e) \/ AddBefore(l, p, e)
    \/ \E e \in Elems : TakeOut(e)

Spec == Init /\ [][Next]_items
=============================================================================
