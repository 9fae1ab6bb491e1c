------------------------------ MODULE MCScList ------------------------------
(* Two lists and three elements: an element can move between lists, and a  *)
(* loop can lose, keep and gain elements on both sides of its cursor.      *)
EXTENDS ScList, TLC

CONSTANTS q1, q2, e1, e2, e3

MCLists == {q1, q2}
MCElems == {e1, e2, e3}
Sym == Permutations(MCElems)
=============================================================================
