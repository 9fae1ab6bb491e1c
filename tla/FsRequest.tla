----------------------------- MODULE FsRequest -----------------------------
(***************************************************************************)
(* The wrappers that gen_wrapper generates into fs.c: a synchronous one    *)
(* calls its operation and returns or throws; an asynchronous one packs    *)
(* its arguments into a payload, pushes that to the generic queue, has a   *)
(* worker call the operation, and has the event call the JavaScript        *)
(* callback.  Of the queue only its promise is used, AsyncRequest, which   *)
(* GenericQueue implements.                                                *)
(*                                                                         *)
(* A request is one call of a binding.  What is tracked is who frees what: *)
(* the C strings of the arguments, the payload, the reference to the       *)
(* callback, the memory of the result, the JavaScript values made of it,   *)
(* and the descriptors of the C runtime.                                   *)
(***************************************************************************)
EXTENDS FsBindings, FiniteSets, Integers

CONSTANTS
    Request,            \* calls of a binding
    NoRequest,          \* no event callback is running
    NoBinding,          \* the call is not made yet
    NoEnding,           \* the operation has not ended yet
    MaxDescriptors      \* how many descriptors the C runtime has to give

ASSUME RequestAssumption == NoRequest \notin Request
ASSUME BindingAssumption == NoBinding \notin bindings_funcs
ASSUME DescriptorAssumption == MaxDescriptors \in Nat

Memory == {"strings", "payload", "callback", "result", "value", "error"}

VARIABLES
    state,              \* of each request, in the words of AsyncRequest
    binding,            \* what it calls
    working,            \* requests whose worker callback is running
    running,            \* the request whose JavaScript callback is running
    ending,             \* how its operation ended
    live,               \* the memory that is live on behalf of each request
    open,               \* requests whose descriptor is open
    misread,            \* requests that had junk read as their result
    misfreed            \* requests that had junk freed as their result

vars == <<state, binding, working, running, ending, live, open, misread, misfreed>>

Queue == INSTANCE AsyncRequest

TypeOK ==
    /\ Queue!TypeOK
    /\ binding \in [Request -> bindings_funcs \cup {NoBinding}]
    /\ working \subseteq Request
    /\ running \in Request \cup {NoRequest}
    /\ ending \in [Request -> Ending \cup {NoEnding}]
    /\ live \in [Request -> SUBSET Memory]
    /\ open \subseteq Request
    /\ Cardinality(open) <= MaxDescriptors
    /\ misread \subseteq Request
    /\ misfreed \subseteq Request

Init ==
    /\ Queue!Init
    /\ binding = [r \in Request |-> NoBinding]
    /\ working = {}
    /\ running = NoRequest
    /\ ending = [r \in Request |-> NoEnding]
    /\ live = [r \in Request |-> {}]
    /\ open = {}
    /\ misread = {}
    /\ misfreed = {}

-----------------------------------------------------------------------------
\* Whether the C runtime has a descriptor for an operation.  It may refuse
\* one at any time: the file is not there, or may not be opened.
Gets(op) ==
    IF TakesDescriptor(op) /\ Cardinality(open) < MaxDescriptors
    THEN BOOLEAN
    ELSE {FALSE}

\* The descriptors a script can close: those that open has returned to it.
Closable == {r \in open \ working :
                binding[r].op = fs_open /\ (binding[r].async => state[r] = "delivered")}

\* What is open once the operation of r, that had got a descriptor or not,
\* has ended in the way e.
OpenAfter(r, e, before) ==
    CASE e.descriptor = "left open" -> {before \cup {r}}
      [] e.descriptor = "as before" -> {before \ {r}}
      [] e.descriptor = "closed"    -> {before \ {c} : c \in Closable}

\* What is no result, when it is taken for one: by reading it, or by freeing
\* the pointer.
ReadsJunk(b, e)  == ReturnsMemory(b) /\ e.value \in Junk \cup {"unset"}
FreesJunk(b, e) == ReturnsMemory(b) /\ e.value \in Junk

\* The C strings a call allocates, the memory of its result, and the JavaScript
\* value made of that.
Strings(b) == IF HasString(b) THEN {"strings"} ELSE {}

Result(e) == IF e.value \in Fresh THEN {"result"} ELSE {}

Value(b, e) == IF ReturnsMemory(b) /\ e.value \in Fresh THEN {"value"} ELSE {}

\* A mutation: the arguments are freed where a synchronous wrapper does it.
Payload_withoutStrings(b) == {"payload", "callback"}

\* What an asynchronous wrapper sets up for its worker and its event.
Payload(b) == Strings(b) \cup {"payload", "callback"}

\* Mutations: the result is freed whatever errno says; it is not freed; an
\* event with an error returns early.
FreesResult_always(e) == TRUE
FreesResult_never(e) == FALSE
FreesArguments_onSuccess(e) == ~e.fails

\* What the event frees: the result if errno is 0, the rest in any case.
FreesResult(e) == ~e.fails
FreesArguments(e) == TRUE

Freed(e) == (IF FreesResult(e) THEN {"result"} ELSE {})
                \cup (IF FreesArguments(e) THEN {"strings", "payload", "callback"} ELSE {})

-----------------------------------------------------------------------------
\* A synchronous wrapper.  The result is converted and freed only when errno
\* is 0, the strings in any case; the value or the exception goes to the
\* caller.
SyncCall(r, b) ==
    /\ binding[r] = NoBinding
    /\ ~b.async
    /\ binding' = [binding EXCEPT ![r] = b]
    /\ \E got \in Gets(b.op) : \E e \in b.op[got] :
          /\ ending' = [ending EXCEPT ![r] = e]
          /\ open' \in OpenAfter(r, e, open)
          /\ live' = [live EXCEPT ![r] = IF e.fails THEN Result(e) ELSE {}]
          /\ misread' = IF ReadsJunk(b, e) /\ ~e.fails THEN misread \cup {r} ELSE misread
          /\ misfreed' = IF FreesJunk(b, e) /\ ~e.fails THEN misfreed \cup {r} ELSE misfreed
    /\ UNCHANGED <<state, working, running>>

\* An asynchronous wrapper.  It does not look at what the push returns: a
\* request that is refused keeps all it has.
AsyncCall(r, b) ==
    /\ binding[r] = NoBinding
    /\ b.async
    /\ binding' = [binding EXCEPT ![r] = b]
    /\ live' = [live EXCEPT ![r] = Payload(b)]
    /\ Queue!Accept(r) \/ Queue!Refuse(r)
    /\ UNCHANGED <<working, running, ending, open, misread, misfreed>>

\* The worker's operation asks the C runtime for its descriptor, if it needs one.
WorkerStart(r) ==
    /\ state[r] = "accepted"
    /\ r \notin working
    /\ working' = working \cup {r}
    /\ \E got \in Gets(binding[r].op) :
          open' = IF got THEN open \cup {r} ELSE open
    /\ UNCHANGED <<state, binding, running, ending, live, misread, misfreed>>

\* It ends, its result and errno are in the payload, and the worker returns.
WorkerReturn(r) ==
    /\ r \in working
    /\ working' = working \ {r}
    /\ Queue!Complete(r)
    /\ \E e \in binding[r].op[(r \in open)] :
          /\ ending' = [ending EXCEPT ![r] = e]
          /\ open' \in OpenAfter(r, e, open)
          /\ live' = [live EXCEPT ![r] = @ \cup Result(e)]
    /\ UNCHANGED <<binding, running, misread, misfreed>>

\* The event, up to the JavaScript callback: the result is converted whatever
\* errno says, and an error object is made if it is set.
EventCall(r) ==
    /\ running = NoRequest
    /\ running' = r
    /\ Queue!Deliver(r)
    /\ live' = [live EXCEPT ![r] = @ \cup Value(binding[r], ending[r])
                                     \cup (IF ending[r].fails THEN {"error"} ELSE {})]
    /\ misread' = IF ReadsJunk(binding[r], ending[r]) THEN misread \cup {r} ELSE misread
    /\ UNCHANGED <<binding, working, ending, open, misfreed>>

\* The callback has returned.  JS_Call does not take over its arguments, so
\* the value and the error stay.
EventReturn(r) ==
    /\ running = r
    /\ running' = NoRequest
    /\ live' = [live EXCEPT ![r] = @ \ Freed(ending[r])]
    /\ misfreed' = IF FreesJunk(binding[r], ending[r]) /\ FreesResult(ending[r])
                   THEN misfreed \cup {r}
                   ELSE misfreed
    /\ UNCHANGED <<state, binding, working, ending, open, misread>>

Next == \E r \in Request :
            \/ \E b \in bindings_funcs : SyncCall(r, b) \/ AsyncCall(r, b)
            \/ WorkerStart(r)
            \/ WorkerReturn(r)
            \/ EventCall(r)
            \/ EventReturn(r)

Spec == Init /\ [][Next]_vars

\* The pool runs what it has accepted, operations and callbacks return, and
\* the loop comes back to the queue as long as something is in it.
Fairness == \A r \in Request :
                /\ WF_vars(WorkerStart(r))
                /\ WF_vars(WorkerReturn(r))
                /\ WF_vars(EventCall(r))
                /\ WF_vars(EventReturn(r))

FairSpec == Spec /\ Fairness

-----------------------------------------------------------------------------
\* Properties.

Refused(r) == state[r] = "refused"
Over(r) == state[r] = "delivered" /\ running # r

\* While the worker or the event of a request runs, its payload and its C
\* strings are there: nothing on the JavaScript thread, which goes on with
\* other calls in between, has freed them.
PayloadOutlivesRequest ==
    \A r \in Request :
        r \in working \/ running = r =>
            Strings(binding[r]) \cup {"payload", "callback"} \subseteq live[r]

\* What is left of a call that is over: nothing of a synchronous one; of an
\* asynchronous one the error or the value made for the callback, which the
\* event does not free; and of a refused one all that its wrapper set up.
MemoryAccounted ==
    \A r \in Request :
        /\ binding[r] # NoBinding /\ state[r] = "idle" => live[r] = {}
        /\ Over(r) => live[r] = IF ending[r].fails THEN {"error"}
                                ELSE Value(binding[r], ending[r])
        /\ Refused(r) => live[r] = Strings(binding[r]) \cup {"payload", "callback"}

\* The operations that can fail without setting errno, and return a struct
\* nobody has filled in; and with them the one that can succeed with what
\* nobody has written.
FailsUnnoticed == {fs_fstat, fs_stat, fs_lstat, fs_readdir}
Unsettled      == FailsUnnoticed \cup {fs_readlink}

\* A wrapper, synchronous or not, frees pointers that nobody has set only
\* after an fstat, stat, lstat or readdir that has failed without an error.
\* Memory that nobody has set, or that has been freed, is read as a result
\* only after one of these, after a readlink of a path that is too long, or by
\* the event of an asynchronous wrapper, which converts before it looks at
\* errno, after an operation that has failed.
JunkOnlyWhereKnown ==
    /\ \A r \in misfreed : binding[r].op \in FailsUnnoticed
    /\ \A r \in misread :
          \/ binding[r].async /\ ending[r].fails
          \/ binding[r].op \in Unsettled

\* Every operation gives its descriptor back before its worker returns, on
\* every path, but open, whose caller has it then, and lstat, which loses it.
DescriptorsComeBack ==
    \A r \in open \ working : binding[r].op \in {fs_open, fs_lstat}

\* Refused requests apart, everything an asynchronous call holds until its
\* callback has run is freed in the end.
PayloadReleased ==
    \A r \in Request :
        state[r] = "accepted" ~> live[r] \cap {"strings", "payload", "callback", "result"} = {}
=============================================================================
