--------------------------- MODULE AsyncResource ---------------------------
(***************************************************************************)
(* AsyncResource, as shims/events/async_hooks.js defines it: resources in  *)
(* whose scopes functions are run, and hooks that are called around them.  *)
(* What a hook does is not modelled: it may do anything, use the resource  *)
(* that it is called for, change the hooks, and throw.  One observer, with *)
(* a hook for before and one for after, only looks on.                     *)
(***************************************************************************)
EXTENDS CallStack, FiniteSets

CONSTANTS MaxResources,  \* how many resources are made, bound of the model
          HookSets,      \* the sets of events that a hook is registered for
          Observer,      \* the hooks that look on
          Other          \* any other hook

Events == {"init", "before", "after", "destroy"}

ASSUME ResourceAssumption ==
    /\ MaxResources \in Nat
    /\ HookSets \subseteq SUBSET Events
    /\ Observer # Other

VARIABLES
    created,    \* how many resources there have been
    destroyed,  \* those that are marked DESTROYED
    hooks,      \* the events for which the other hook is in the set
    seen,       \* history: the befores the observer has seen, without their afters,
                \* of resources that are not destroyed
    skipped     \* history: hooks were not called that it was the turn of, since one
                \* of them threw or there was no room left for the calls

resources == <<created, destroyed, hooks, seen, skipped>>

Resource == 1 .. MaxResources
ResourceTypeOK ==
    /\ created \in 0 .. MaxResources
    /\ destroyed \subseteq Resource
    /\ hooks \subseteq Events
    /\ seen \in Seq(Resource)
    /\ skipped \in BOOLEAN

ResourceInit ==
    /\ created = 0
    /\ destroyed = {}
    /\ hooks = {}
    /\ seen = <<>>
    /\ skipped = FALSE

-----------------------------------------------------------------------------
\* The elements of s at the positions I.
SelectedUpTo(s, I) ==
    LET F[i \in 0 .. Len(s)] ==
            IF i = 0 THEN <<>>
            ELSE IF i \in I THEN Append(F[i - 1], s[i])
            ELSE F[i - 1]
    IN  F

Selected(s, I) == SelectedUpTo(s, I)[Len(s)]

(* Calling the hooks.  The frame of an emission is at the event it is for. *)

Emission(event, r) == Frame("emit", r, event)

Emitting(event) == Within("emit", event) /\ ~throwing

\* forEach comes to a hook that is in the set by then.
ToCall(event) ==
    ((IF event \in hooks THEN {Other} ELSE {})
       \cup (IF event \in {"before", "after"} THEN {Observer} ELSE {})) \ Top.called

CallHook(event) ==
    /\ Emitting(event)
    /\ Other \in ToCall(event)
    /\ \/ /\ Len(stack) < MaxDepth
          /\ stack' = Append([stack EXCEPT ![Len(stack)].called = @ \cup {Other}],
                             Frame("hook", Top.of, "code"))
          /\ UNCHANGED throwing
       \/ Overflow
    /\ UNCHANGED resources

\* The observer takes an after to be for the last before it has seen.  A hook
\* can have destroyed the resource meanwhile; the others are called all the same.
Observe(event) ==
    /\ Emitting(event)
    /\ Observer \in ToCall(event)
    /\ \/ /\ stack' = [stack EXCEPT ![Len(stack)].called = @ \cup {Observer}]
          /\ seen' = IF skipped \/ Top.of \in destroyed THEN seen
                     ELSE IF event = "before" THEN Append(seen, Top.of)
                     ELSE IF seen = <<>> THEN seen
                     ELSE SubSeq(seen, 1, Len(seen) - 1)
          /\ UNCHANGED throwing
       \/ Overflow /\ UNCHANGED seen
    /\ UNCHANGED <<created, destroyed, hooks, skipped>>

HookReturns ==
    /\ Within("hook", "code")
    /\ Pop
    /\ UNCHANGED <<throwing, resources>>

Emitted(event) == Emitting(event) /\ ToCall(event) = {}

\* The constructor, or a scope, is left where it is.
EmitEnds ==
    /\ \E event \in {"init", "before", "after"} : Emitted(event)
    /\ Pop
    /\ UNCHANGED <<throwing, resources>>

\* The resource is marked when its hooks have been called: until then one of
\* them can have it destroyed again.
DestroyEnds ==
    /\ Emitted("destroy")
    /\ Pop
    /\ destroyed' = destroyed \cup {Top.of}
    /\ seen' = Selected(seen, {k \in DOMAIN seen : seen[k] # Top.of})
    /\ UNCHANGED <<throwing, created, hooks, skipped>>

EmitThrows ==
    /\ throwing
    /\ stack # <<>> /\ Top.kind = "emit"
    /\ Pop
    /\ skipped' = TRUE /\ seen' = <<>>
    /\ UNCHANGED <<throwing, created, destroyed, hooks>>

-----------------------------------------------------------------------------
(* What code can do with resources and hooks.                              *)

New ==
    /\ Running
    /\ created < MaxResources
    /\ created' = created + 1
    /\ Push(<<Emission("init", created + 1)>>)
    /\ UNCHANGED <<destroyed, hooks, seen, skipped>>

emitDestroy(r) ==
    /\ Running
    /\ r <= created /\ r \notin destroyed
    /\ Push(<<Emission("destroy", r)>>)
    /\ UNCHANGED resources

\* Of a hook that is there, or is not, for each event.
SetHooks(E) ==
    /\ Running
    /\ hooks' = E
    /\ UNCHANGED <<stack, throwing, created, destroyed, seen, skipped>>

runInAsyncScope(r) ==
    /\ Running
    /\ r <= created /\ r \notin destroyed
    /\ Push(<<Frame("scope", r, "before"), Emission("before", r)>>)
    /\ UNCHANGED resources

\* The hooks have been called and the function is.
ScopeEnters ==
    /\ Within("scope", "before") /\ ~throwing
    /\ Goto("code")
    /\ UNCHANGED <<throwing, resources>>

\* The exception of a hook leaves the scope before the function is called.
ScopeRefused ==
    /\ Within("scope", "before") /\ throwing
    /\ Pop
    /\ UNCHANGED <<throwing, resources>>

\* The zone's run, or the call of the hooks once the function is over, finds no
\* room: what is left of the scope is not run, its hooks for after included.
ScopeOverflows ==
    /\ Within("scope", "code") \/ (Within("scope", "before") /\ ~throwing)
    /\ Pop
    /\ throwing' = TRUE
    /\ IF Top.of \in destroyed
       THEN UNCHANGED <<seen, skipped>>
       ELSE skipped' = TRUE /\ seen' = <<>>
    /\ UNCHANGED <<created, destroyed, hooks>>

\* The function has returned or thrown: the hooks are called, and what it threw
\* goes on from there.  Those of a destroyed resource are not called.
Leaves_onReturn(r) == ~throwing /\ r \notin destroyed
Leaves(r) == r \notin destroyed

ScopeLeaves ==
    /\ Within("scope", "code")
    /\ Leaves(Top.of)
    /\ stack' = Append([stack EXCEPT ![Len(stack)].at = IF throwing THEN "threw" ELSE "returned"],
                       Emission("after", Top.of))
    /\ throwing' = FALSE
    /\ UNCHANGED resources

ScopeLeft ==
    /\ stack # <<>> /\ Top.kind = "scope"
    /\ Top.at \in {"returned", "threw"} \/ (Top.at = "code" /\ ~Leaves(Top.of))
    /\ Pop
    /\ throwing' = (throwing \/ Top.at = "threw")
    /\ UNCHANGED resources

ResourceNext ==
    \/ \E event \in Events : CallHook(event) \/ Observe(event)
    \/ HookReturns
    \/ EmitEnds
    \/ DestroyEnds
    \/ EmitThrows
    \/ New
    \/ \E r \in Resource : emitDestroy(r) \/ runInAsyncScope(r)
    \/ \E E \in HookSets : SetHooks(E)
    \/ ScopeEnters
    \/ ScopeRefused
    \/ ScopeOverflows
    \/ ScopeLeaves
    \/ ScopeLeft

-----------------------------------------------------------------------------
\* The scopes on the stack whose befores the observer has seen and whose
\* afters it has not.
Open(i) ==
    /\ stack[i].kind = "scope" /\ stack[i].of \notin destroyed
    /\ CASE stack[i].at = "code"   -> TRUE
         [] stack[i].at = "before" -> i = Len(stack) \/ Observer \in stack[i + 1].called
         [] OTHER                  -> i < Len(stack) /\ Observer \notin stack[i + 1].called

OpenScopes == Selected([i \in DOMAIN stack |-> stack[i].of], {i \in DOMAIN stack : Open(i)})

\* However scopes are nested, left by exceptions, and their resources destroyed
\* from the inside, a hook that has seen the befores, afters and destroys knows
\* the scopes that the code is in, so long as no hook has thrown and there has
\* been room for the calls around the function of each scope: between the
\* befores and the try, or in the finally, an exception drops the afters.
ScopesNest == ~skipped => seen = OpenScopes
=============================================================================
