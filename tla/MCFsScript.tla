----------------------------- MODULE MCFsScript -----------------------------
(* Two calls with a req and two without, of a function or more for each    *)
(* kind of row.                                                            *)
EXTENDS FsScript
=============================================================================
