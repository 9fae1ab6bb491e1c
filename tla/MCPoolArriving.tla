--------------------------- MODULE MCPoolArriving ---------------------------
(* Delays on both sides of every boundary: a short round, the eight short  *)
(* rounds (128), one and two long ones (256, 384), and a DWORD cut down to *)
(* 300 values so that some delays do not fit, and one is INFINITE.         *)
EXTENDS PoolArriving

MCDelays == 0 .. 400
=============================================================================
