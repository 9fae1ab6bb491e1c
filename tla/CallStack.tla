----------------------------- MODULE CallStack -----------------------------
(***************************************************************************)
(* The call stack of the script's thread, as the engine keeps it for the   *)
(* code in lib/ and shims/: calls, returns, and exceptions that unwind it  *)
(* until some code catches them.  When the stack is empty the loop makes   *)
(* the next call, and an exception that was not caught is left behind.     *)
(*                                                                         *)
(* Code that is not modelled can be any number of calls deep when it makes *)
(* one that is, so that any call may find that there is no room left for   *)
(* it, and throw instead.                                                  *)
(***************************************************************************)
EXTENDS Naturals, Sequences

CONSTANT MaxDepth       \* how many frames there are, bound of the model

ASSUME DepthAssumption == MaxDepth \in Nat \ {0}

VARIABLES
    stack,      \* the frames, the innermost last
    throwing    \* an exception is on its way out

\* of: the instance of a module, or the resource.  at: how far it has come.
\* called: the hooks that have been called.
Frame(kind, of, at) == [kind |-> kind, of |-> of, at |-> at, called |-> {}]

Top   == stack[Len(stack)]
Below == SubSeq(stack, 1, Len(stack) - 1)

\* The innermost frame, if it is of a kind and has come so far.
Within(kind, at) == stack # <<>> /\ Top.kind = kind /\ Top.at = at

\* Frames in which code runs that is not modelled, and may do anything: that of
\* a module, of a hook, or the function of a scope.
Code == stack # <<>> => Top.at = "code"
Running == Code /\ ~throwing

Overflow == throwing' = TRUE /\ UNCHANGED stack

Push(frames) ==
    \/ /\ Len(stack) + Len(frames) <= MaxDepth
       /\ stack' = stack \o frames
       /\ UNCHANGED throwing
    \/ Overflow

Pop  == stack' = Below
Goto(at) == stack' = [stack EXCEPT ![Len(stack)].at = at]

Throw == Running /\ throwing' = TRUE /\ UNCHANGED stack
Catch == Code /\ throwing /\ throwing' = FALSE /\ UNCHANGED stack
=============================================================================
