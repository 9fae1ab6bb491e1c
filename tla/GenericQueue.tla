---------------------------- MODULE GenericQueue ----------------------------
(***************************************************************************)
(* The generic event queue of src/event_queue.c, the one that carries work *)
(* to the threads of the Windows thread pool and their results back to the *)
(* JavaScript thread.  The JavaScript thread pushes requests, also from    *)
(* the callback of another request, and consumes the queue with a          *)
(* sc_list_foreach_safe loop; a pool thread runs the worker callback of a  *)
(* request and then sets the `done' flag that hands the request back.      *)
(* The two threads share no lock.                                          *)
(***************************************************************************)
EXTENDS ListOps

CONSTANTS Request,      \* the requests a run makes, each of them once
          None          \* no request

ASSUME GenericQueueAssumption ==
    /\ Sentinel \notin Request
    /\ None \notin Request
    /\ Sentinel # None

VARIABLES
    pc,                 \* the JavaScript thread: running script, scanning the
                        \* queue, or in an event callback called by the scan
    pushing,            \* the request between its TrySubmitThreadpoolCallback
                        \* and its sc_list_add_tail
    queue,              \* generic_queue, head first
    it, tmp,            \* the cursor of consume_generic_event_queue
    event,              \* the memory of each request's event_t
    done,               \* e->done
    worker,             \* how far GenericEventCallback has come, per request
    data,               \* what e->data holds: the request, a half-written
                        \* result, a result
    refused             \* the requests whose push returned 1

main == <<pc, pushing, queue, it, tmp>>
vars == <<pc, pushing, queue, it, tmp, event, done, worker, data, refused>>

-----------------------------------------------------------------------------
Init ==
    /\ pc = "script"
    /\ pushing = None
    /\ queue = <<>>
    /\ it = None /\ tmp = None
    /\ event = [r \in Request |-> "unused"]
    /\ done = [r \in Request |-> FALSE]
    /\ worker = [r \in Request |-> "none"]
    /\ data = [r \in Request |-> "request"]
    /\ refused = {}

-----------------------------------------------------------------------------
(* push_to_generic_event_queue, on the JavaScript thread.                  *)

InScript == pc \in {"script", "callback"} /\ pushing = None

\* worker_cb == NULL: there is nothing to wait for.
PushDone(r) ==
    /\ InScript
    /\ event[r] = "unused"
    /\ event' = [event EXCEPT ![r] = "live"]
    /\ done' = [done EXCEPT ![r] = TRUE]
    /\ queue' = Append(queue, r)
    /\ UNCHANGED <<pc, pushing, it, tmp, worker, data, refused>>

\* A push that leaves e->done as malloc gave it.
PushSubmit_uninitialised(r) ==
    /\ InScript
    /\ event[r] = "unused"
    /\ event' = [event EXCEPT ![r] = "live"]
    /\ worker' = [worker EXCEPT ![r] = "queued"]
    /\ pushing' = r
    /\ \E garbage \in BOOLEAN : done' = [done EXCEPT ![r] = garbage]
    /\ UNCHANGED <<pc, queue, it, tmp, data, refused>>

\* The thread pool takes the request: from here on a pool thread may run it,
\* although the event is not in the queue yet.
PushSubmit(r) ==
    /\ InScript
    /\ event[r] = "unused"
    /\ event' = [event EXCEPT ![r] = "live"]
    /\ done' = [done EXCEPT ![r] = FALSE]
    /\ worker' = [worker EXCEPT ![r] = "queued"]
    /\ pushing' = r
    /\ UNCHANGED <<pc, queue, it, tmp, data, refused>>

\* A failed submission that frees the event and then queues it all the same.
PushRefused_queued(r) ==
    /\ InScript
    /\ event[r] = "unused"
    /\ event' = [event EXCEPT ![r] = "freed"]
    /\ pushing' = r
    /\ UNCHANGED <<pc, queue, it, tmp, done, worker, data, refused>>

\* The thread pool does not take it: the push frees the event and returns 1.
PushRefused(r) ==
    /\ InScript
    /\ event[r] = "unused"
    /\ event' = [event EXCEPT ![r] = "freed"]
    /\ refused' = refused \cup {r}
    /\ UNCHANGED <<pc, pushing, queue, it, tmp, done, worker, data>>

\* Only the requests that are not done yet are queued.
PushLink_unlessDone ==
    /\ pushing # None
    /\ queue' = IF done[pushing] THEN queue ELSE Append(queue, pushing)
    /\ pushing' = None
    /\ UNCHANGED <<pc, it, tmp, event, done, worker, data, refused>>

PushLink ==
    /\ pushing # None
    /\ queue' = Append(queue, pushing)
    /\ pushing' = None
    /\ UNCHANGED <<pc, it, tmp, event, done, worker, data, refused>>

-----------------------------------------------------------------------------
(* GenericEventCallback, on a thread of the pool.                          *)

\* A callback that announces the result before there is one.
WorkerStart_early(r) ==
    /\ worker[r] = "queued"
    /\ worker' = [worker EXCEPT ![r] = "running"]
    /\ data' = [data EXCEPT ![r] = "partial"]
    /\ done' = [done EXCEPT ![r] = TRUE]
    /\ UNCHANGED <<main, event, refused>>

\* The worker callback begins to overwrite the request with the result.
WorkerStart(r) ==
    /\ worker[r] = "queued"
    /\ worker' = [worker EXCEPT ![r] = "running"]
    /\ data' = [data EXCEPT ![r] = "partial"]
    /\ UNCHANGED <<main, event, done, refused>>

\* The worker callback returns.  The barriers that follow make everything it
\* wrote visible before `done' is, so that memory is sequentially consistent
\* as far as this module goes.
WorkerReturn(r) ==
    /\ worker[r] = "running"
    /\ worker' = [worker EXCEPT ![r] = "written"]
    /\ data' = [data EXCEPT ![r] = "result"]
    /\ UNCHANGED <<main, event, done, refused>>

\* payload->e->done = true: the thread's last access to the event.
WorkerDone(r) ==
    /\ worker[r] = "written"
    /\ worker' = [worker EXCEPT ![r] = "done"]
    /\ done' = [done EXCEPT ![r] = TRUE]
    /\ UNCHANGED <<main, event, data, refused>>

\* free(payload)
WorkerFree(r) ==
    /\ worker[r] = "done"
    /\ worker' = [worker EXCEPT ![r] = "released"]
    /\ UNCHANGED <<main, event, done, data, refused>>

Worker(r) ==
    \/ WorkerStart(r)
    \/ WorkerReturn(r)
    \/ WorkerDone(r)
    \/ WorkerFree(r)

-----------------------------------------------------------------------------
(* consume_generic_event_queue, on the JavaScript thread.                  *)

\* A loop that does not know the list head when it gets there.
StopAt_pastHead(q, n) ==
    /\ pc' = "scan"
    /\ it' = n
    /\ tmp' = IF n = Sentinel THEN First(q) ELSE After(q, n)

\* it = n, tmp = it->next; the loop ends where it began, at the list head.
StopAt(q, n) ==
    IF n = Sentinel
    THEN /\ pc' = "script"
         /\ it' = None
         /\ tmp' = None
    ELSE /\ pc' = "scan"
         /\ it' = n
         /\ tmp' = After(q, n)

ConsumeBegin ==
    /\ pc = "script" /\ pushing = None
    /\ queue # <<>>
    /\ StopAt(queue, queue[1])
    /\ UNCHANGED <<pushing, queue, event, done, worker, data, refused>>

ConsumeSkip ==
    /\ pc = "scan"
    /\ ~done[it]
    /\ StopAt(queue, tmp)
    /\ UNCHANGED <<pushing, queue, event, done, worker, data, refused>>

\* e->cb(e->data)
ConsumeCall ==
    /\ pc = "scan"
    /\ done[it]
    /\ pc' = "callback"
    /\ UNCHANGED <<pushing, queue, it, tmp, event, done, worker, data, refused>>

\* A loop that frees the event and forgets to take it out of the queue.
ConsumeReturn_linked ==
    /\ pc = "callback" /\ pushing = None
    /\ event' = [event EXCEPT ![it] = "freed"]
    /\ StopAt(queue, tmp)
    /\ UNCHANGED <<pushing, queue, done, worker, data, refused>>

\* A loop that keeps the event for the next pass.
ConsumeReturn_kept ==
    /\ pc = "callback" /\ pushing = None
    /\ StopAt(queue, tmp)
    /\ UNCHANGED <<pushing, queue, event, done, worker, data, refused>>

\* A loop that stays on the event it has freed.
ConsumeReturn_again ==
    /\ pc = "callback" /\ pushing = None
    /\ queue' = Unlink(queue, it)
    /\ event' = [event EXCEPT ![it] = "freed"]
    /\ pc' = "scan"
    /\ UNCHANGED <<pushing, it, tmp, done, worker, data, refused>>

\* sc_list_del, free(e), and on to the element saved before the callback ran.
ConsumeReturn ==
    /\ pc = "callback" /\ pushing = None
    /\ queue' = Unlink(queue, it)
    /\ event' = [event EXCEPT ![it] = "freed"]
    /\ StopAt(queue', tmp)
    /\ UNCHANGED <<pushing, done, worker, data, refused>>

Consume ==
    \/ ConsumeBegin
    \/ ConsumeSkip
    \/ ConsumeCall
    \/ ConsumeReturn

-----------------------------------------------------------------------------
Next ==
    \/ \E r \in Request : PushDone(r) \/ PushSubmit(r) \/ PushRefused(r)
    \/ PushLink
    \/ \E r \in Request : Worker(r)
    \/ Consume

Spec == Init /\ [][Next]_vars

\* The JavaScript thread does not stop in the middle of a push, every callback
\* returns, and nodert_loop comes back to the queue as long as it is not empty;
\* the thread pool runs what it has taken and worker callbacks return.
Fairness ==
    /\ WF_vars(PushLink \/ Consume)
    /\ \A r \in Request : WF_vars(Worker(r))

FairSpec == Spec /\ Fairness

-----------------------------------------------------------------------------
TypeOK ==
    /\ pc \in {"script", "scan", "callback"}
    /\ pushing \in Request \cup {None}
    /\ queue \in Seq(Request)
    /\ it \in Request \cup {None}
    /\ tmp \in Request \cup {Sentinel, None}
    /\ event \in [Request -> {"unused", "live", "freed"}]
    /\ done \in [Request -> BOOLEAN]
    /\ worker \in [Request ->
          {"none", "queued", "running", "written", "done", "released"}]
    /\ data \in [Request -> {"request", "partial", "result"}]
    /\ refused \in SUBSET Request

\* An event is not freed before the pool thread has made its last access to
\* it, although the two threads only share the flag.
EventOutlivesWorker ==
    \A r \in Request :
       worker[r] \in {"queued", "running", "written"} => event[r] = "live"

\* An event callback never sees the data of a worker that has not finished:
\* it runs on a result, or on the request itself if there was no worker.
CallbackSeesResult ==
    pc = "callback" =>
        data[it] = IF worker[it] = "none" THEN "request" ELSE "result"

\* The events in the queue and the one being pushed are exactly the allocated
\* ones, each queued once: nothing leaks, nothing dangles.
QueueIsHeap ==
    /\ NoRepeat(queue)
    /\ {r \in Request : event[r] = "live"}
          = ToSet(queue) \cup ({pushing} \ {None})
    /\ pushing \notin ToSet(queue)

\* The cursor of the pass stays in the queue, with the saved element further
\* on, whatever the callbacks push.
CursorInQueue ==
    /\ (pc = "script") = (it = None)
    /\ pc # "script" =>
          /\ it \in ToSet(queue)
          /\ \/ tmp = Sentinel
             \/ /\ tmp \in ToSet(queue)
                /\ Position(queue, tmp) = Position(queue, it) + 1

-----------------------------------------------------------------------------
(* The queue and its two threads implement AsyncRequest.                   *)

Called(r) == pc = "callback" /\ it = r

RequestState(r) ==
    IF r \in refused THEN "refused"
    ELSE IF event[r] = "unused" THEN "idle"
    ELSE IF event[r] = "freed" \/ Called(r) THEN "delivered"
    ELSE IF done[r] THEN "completed" ELSE "accepted"

Abstract == INSTANCE AsyncRequest
                WITH state <- [r \in Request |-> RequestState(r)]

\* Refused on the spot, or worked on once and then called back once.
ImplementsAsyncRequest == Abstract!Spec

\* A request the pool has taken is called back, however the worker, the push
\* and the passes over the queue interleave.
EveryRequestDelivered == Abstract!EventuallyDelivered
=============================================================================
