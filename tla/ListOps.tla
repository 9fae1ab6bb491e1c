------------------------------ MODULE ListOps ------------------------------
(***************************************************************************)
(* A list of src/sc_list.c read as a sequence of its elements, head first, *)
(* with what the event queues do to it.  ScList shows, on the pointers,    *)
(* that a list is such a sequence and that the operations do this.  The    *)
(* list head itself, where every sc_list_foreach_safe loop ends, is the    *)
(* node Sentinel.                                                          *)
(***************************************************************************)
EXTENDS Naturals, Sequences, FiniteSets, SequencesExt

CONSTANT Sentinel

\* No element is in a list twice: it has one pair of pointers.
NoRepeat(s) == \A i, j \in DOMAIN s : s[i] = s[j] => i = j

Position(s, e) == CHOOSE i \in DOMAIN s : s[i] = e

\* list->next
First(s) == IF s = <<>> THEN Sentinel ELSE s[1]

\* e->next
After(s, e) == IF Position(s, e) = Len(s) THEN Sentinel ELSE s[Position(s, e) + 1]

\* sc_list_del
Unlink(s, e) == RemoveAt(s, Position(s, e))
=============================================================================
