----------------------------- MODULE MCScripts -----------------------------
(* A module that can require itself and a name that is none, two resources *)
(* and a stack deep enough for a scope in a scope and its hooks.           *)
EXTENDS Scripts

MCHookSets == {{}, {"before", "after"}, {"init", "destroy"}}
=============================================================================
