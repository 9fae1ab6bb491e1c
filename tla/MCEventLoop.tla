---------------------------- MODULE MCEventLoop ----------------------------
(* Instances of the event loop: a few callbacks, fewer addresses, so that  *)
(* an address is given out again while the first owner's id is still known.*)
EXTENDS EventLoop, TLC

CONSTANTS c1, c2, c3, c4, a1, a2, a3

Callback3 == {c1, c2, c3}
Callback4 == {c1, c2, c3, c4}
Addr2 == {a1, a2}
Addr3 == {a1, a2, a3}
Symmetry3 == Permutations(Callback3) \cup Permutations(Addr3)
Symmetry4 == Permutations(Callback4) \cup Permutations(Addr3)
SymmetryCareless == Permutations(Callback4) \cup Permutations(Addr2)
=============================================================================
