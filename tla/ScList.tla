------------------------------- MODULE ScList -------------------------------
(***************************************************************************)
(* The intrusive circular doubly linked list of src/sc_list.c: a list head *)
(* and its elements are nodes of one ring, an element outside every list   *)
(* is a ring of its own.  Every event queue of the runtime is one of these *)
(* lists.  The operations are written as functions of the links, the       *)
(* actions let a client call them in any order, also from the body of a    *)
(* sc_list_foreach_safe loop.                                              *)
(***************************************************************************)
EXTENDS Naturals, Sequences, FiniteSets, SequencesExt

CONSTANTS Lists,        \* the list heads
          Elems,        \* the elements
          NoNode        \* stands for "no loop is running"

ASSUME ScListAssumption ==
    /\ IsFiniteSet(Elems)
    /\ Lists \cap Elems = {}
    /\ NoNode \notin Lists \cup Elems

Node == Lists \cup Elems

VARIABLES link,         \* the next and prev pointer of every node
          list, it, tmp,\* the running sc_list_foreach_safe loop
          kept,         \* history: the elements that have been in the list ever
                        \* since the loop began, in the order of the list then
          visited       \* history: those of them the loop has stopped at

vars == <<link, list, it, tmp, kept, visited>>

Links == [next : [Node -> Node], prev : [Node -> Node]]

-----------------------------------------------------------------------------
(* The operations of sc_list.c, as functions of the links.                 *)

\* A deletion that leaves the back pointer of the following node alone.
sc_list_del_one_way(L, e) ==
    [next |-> [L.next EXCEPT ![L.prev[e]] = L.next[e], ![e] = e],
     prev |-> [L.prev EXCEPT ![e] = e]]

\* A deletion that does not turn the deleted element into a ring of its own.
sc_list_del_dirty(L, e) ==
    [next |-> [L.next EXCEPT ![L.prev[e]] = L.next[e]],
     prev |-> [L.prev EXCEPT ![L.next[e]] = L.prev[e]]]

sc_list_del(L, e) ==
    [next |-> [L.next EXCEPT ![L.prev[e]] = L.next[e], ![e] = e],
     prev |-> [L.prev EXCEPT ![L.next[e]] = L.prev[e], ![e] = e]]

\* The four pointer assignments that every sc_list_add_* ends with.
Splice(L, before, e, after) ==
    [next |-> [L.next EXCEPT ![before] = e, ![e] = after],
     prev |-> [L.prev EXCEPT ![after] = e, ![e] = before]]

\* Adding without taking the element out of the list it may be in.
sc_list_add_tail_twice(L, l, e) == Splice(L, L.prev[l], e, l)

sc_list_add_tail(L, l, e) ==
    LET D == sc_list_del(L, e) IN Splice(D, D.prev[l], e, l)

sc_list_add_head(L, l, e) ==
    LET D == sc_list_del(L, e) IN Splice(D, l, e, D.next[l])

sc_list_add_after(L, p, e) ==
    LET D == sc_list_del(L, e) IN Splice(D, p, e, D.next[p])

\* The old neighbour is read before the element is taken out.
sc_list_add_before_stale(L, n, e) ==
    LET D == sc_list_del(L, e) IN Splice(D, L.prev[n], e, n)

sc_list_add_before(L, n, e) ==
    LET D == sc_list_del(L, e) IN Splice(D, D.prev[n], e, n)

sc_list_is_empty(L, l) == L.next[l] = l

\* Where sc_list_foreach is after k steps from the list head, for as many steps
\* as there can be elements, and one more to come back to the head.
Steps(L, l) ==
    LET at[k \in 0 .. Cardinality(Elems) + 1] ==
            IF k = 0 THEN l ELSE L.next[at[k - 1]]
    IN  at

\* The elements sc_list_foreach (and with it sc_list_count) walks through.
Walk(L, l) ==
    LET at == Steps(L, l)
        back == {k \in 1 .. Cardinality(Elems) + 1 : at[k] = l}
        len == IF back = {} THEN Cardinality(Elems)
               ELSE (CHOOSE k \in back : \A j \in back : k <= j) - 1
    IN  [k \in 1 .. len |-> at[k]]

\* The links when the first k nodes of w have been deleted one after another.
Deleted(L, w) ==
    LET after[k \in 0 .. Len(w)] ==
            IF k = 0 THEN L ELSE sc_list_del(after[k - 1], w[k])
    IN  after

\* A clear that stops one element short.
sc_list_clear_short(L, l) ==
    LET w == Walk(L, l)
    IN  IF sc_list_is_empty(L, l) THEN L ELSE Deleted(L, w)[Len(w) - 1]

\* sc_list_clear is a foreach_safe loop that deletes what it stands on: its
\* steps are ForEachBegin, Del(it) and ForEachNext.  This is where it ends.
sc_list_clear(L, l) ==
    LET w == Walk(L, l) IN Deleted(L, w)[Len(w)]

-----------------------------------------------------------------------------
Looping == list # NoNode

\* What a loop body may do: anything but unlink the element the loop has
\* already read as the next one (see LoopVisitsKept).
MayUnlink(e) == Looping => e # tmp

\* Every head and every element has been through sc_list_init.
Init ==
    /\ link = [next |-> [n \in Node |-> n], prev |-> [n \in Node |-> n]]
    /\ list = NoNode /\ it = NoNode /\ tmp = NoNode
    /\ kept = <<>> /\ visited = <<>>

\* The history of a step that moves or removes an element.
Touched(e) ==
    /\ kept' = RemoveFirst(kept, e)
    /\ visited' = RemoveFirst(visited, e)
    /\ UNCHANGED <<list, it, tmp>>

AddTail(l, e) ==
    /\ MayUnlink(e)
    /\ link' = sc_list_add_tail(link, l, e)
    /\ Touched(e)

AddHead(l, e) ==
    /\ MayUnlink(e)
    /\ link' = sc_list_add_head(link, l, e)
    /\ Touched(e)

AddAfter(l, p, e) ==
    /\ Contains(Walk(link, l), p) /\ p # e
    /\ MayUnlink(e)
    /\ link' = sc_list_add_after(link, p, e)
    /\ Touched(e)

AddBefore(l, n, e) ==
    /\ Contains(Walk(link, l), n) /\ n # e
    /\ MayUnlink(e)
    /\ link' = sc_list_add_before(link, n, e)
    /\ Touched(e)

Del(e) ==
    /\ MayUnlink(e)
    /\ link' = sc_list_del(link, e)
    /\ Touched(e)

PopHead(l) ==
    /\ ~sc_list_is_empty(link, l)
    /\ MayUnlink(link.next[l])
    /\ link' = sc_list_del(link, link.next[l])
    /\ Touched(link.next[l])

PopTail(l) ==
    /\ ~sc_list_is_empty(link, l)
    /\ MayUnlink(link.prev[l])
    /\ link' = sc_list_del(link, link.prev[l])
    /\ Touched(link.prev[l])

(* for (it = l->next, tmp = it->next; it != l; it = tmp, tmp = it->next)   *)
StopAt(n) ==
    /\ it' = n
    /\ tmp' = link.next[n]
    /\ visited' = IF Contains(kept', n) THEN Append(visited, n) ELSE visited

ForEachBegin(l) ==
    /\ ~Looping
    /\ list' = l
    /\ kept' = Walk(link, l)
    /\ StopAt(link.next[l])
    /\ UNCHANGED link

\* An advance that follows the current element instead of the saved one.
ForEachNext_unsafe ==
    /\ Looping /\ it # list
    /\ UNCHANGED <<link, list, kept>>
    /\ StopAt(link.next[it])

ForEachNext ==
    /\ Looping /\ it # list
    /\ UNCHANGED <<link, list, kept>>
    /\ StopAt(tmp)

ForEachEnd ==
    /\ Looping /\ it = list
    /\ list' = NoNode /\ it' = NoNode /\ tmp' = NoNode
    /\ kept' = <<>> /\ visited' = <<>>
    /\ UNCHANGED link

Next ==
    \/ \E l \in Lists, e \in Elems : AddTail(l, e)
    \/ \E l \in Lists, e \in Elems : AddHead(l, e)
    \/ \E l \in Lists, e, p \in Elems : AddAfter(l, p, e)
    \/ \E l \in Lists, e, n \in Elems : AddBefore(l, n, e)
    \/ \E e \in Elems : Del(e)
    \/ \E l \in Lists : PopHead(l)
    \/ \E l \in Lists : PopTail(l)
    \/ \E l \in Lists : ForEachBegin(l)
    \/ ForEachNext
    \/ ForEachEnd

Spec == Init /\ [][Next]_vars

-----------------------------------------------------------------------------
TypeOK ==
    /\ link \in Links
    /\ list \in Lists \cup {NoNode}
    /\ it \in Node \cup {NoNode}
    /\ tmp \in Node \cup {NoNode}
    /\ kept \in Seq(Elems)
    /\ visited \in Seq(Elems)

\* next and prev are inverses of each other on every node, so that a deletion
\* through an element's own pointers repairs exactly the ring it is in.
RingInv ==
    \A n \in Node : link.next[link.prev[n]] = n /\ link.prev[link.next[n]] = n

\* An element is a ring of its own, or in exactly one ring, and that one has a
\* list head: there is no ring of elements that no list can reach.  The
\* "Delete if exists" of the add operations rests on it.
OneRing ==
    \A e \in Elems :
       Cardinality({l \in Lists : Contains(Walk(link, l), e)})
          = IF link.next[e] = e THEN 0 ELSE 1

\* The element a foreach_safe loop has saved is the list head or in the list
\* when the loop comes to it, as long as the body does not unlink it: the
\* limit of "It is safe to delete items from the list while using this
\* iterator" (sc_list.h:167).  So the loop visits the elements that stay in
\* the list all along in list order, none of them twice, and when it is over
\* none has been left out, whatever its body removes, moves and adds.
LoopVisitsKept ==
    Looping =>
        /\ tmp = list \/ Contains(Walk(link, list), tmp)
        /\ IsPrefix(visited, kept)
        /\ it = list => visited = kept

\* Clearing a list detaches every element it had and disturbs no other list.
ClearEmpties ==
    \A l \in Lists :
       LET C == sc_list_clear(link, l)
       IN  /\ sc_list_is_empty(C, l)
           /\ \A e \in ToSet(Walk(link, l)) : C.next[e] = e /\ C.prev[e] = e
           /\ \A m \in Lists \ {l} : Walk(C, m) = Walk(link, m)

\* The links implement lists that are sequences.
Abstract == INSTANCE ListSpec WITH items <- [l \in Lists |-> Walk(link, l)]
ImplementsListSpec == Abstract!Spec
=============================================================================
