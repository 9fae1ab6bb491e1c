--------------------------- MODULE MCNativeCalls ---------------------------
(* One worker, with any of five operations, beside the thread that calls   *)
(* the functions of bindings.c.                                            *)
EXTENDS NativeCalls
=============================================================================
