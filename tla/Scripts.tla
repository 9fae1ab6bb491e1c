------------------------------ MODULE Scripts ------------------------------
(***************************************************************************)
(* The scripts of lib/ and shims/ that keep state of their own while other *)
(* code runs, on the one stack that they share: modules are loaded by      *)
(* hooks, and resources are made and destroyed by modules.                 *)
(***************************************************************************)
EXTENDS ModuleLoader, AsyncResource

vars == <<stack, throwing, loader, resources>>

TypeOK == LoaderTypeOK /\ ResourceTypeOK

Init ==
    /\ stack = <<>>
    /\ throwing = FALSE
    /\ LoaderInit
    /\ ResourceInit

\* Code throws, or catches what was thrown by what it called.
Exceptions == (Throw \/ Catch) /\ UNCHANGED <<loader, resources>>

Next ==
    \/ Exceptions
    \/ LoaderNext /\ UNCHANGED resources
    \/ ResourceNext /\ UNCHANGED loader

Spec == Init /\ [][Next]_vars
=============================================================================
