------------------------- MODULE GenericQueueProofs -------------------------
(***************************************************************************)
(* For any set of requests: the pool thread never touches a freed event,   *)
(* an event callback never sees an unfinished result, the queue is exactly *)
(* the heap, and the queue with its threads implements AsyncRequest.       *)
(*                                                                         *)
(* The thread that looks at the queue sleeps in between, and does not wake *)
(* up when a request is done: for every min_delay it sleeps as long as it  *)
(* should, and not long after a request is done.                           *)
(***************************************************************************)
EXTENDS GenericQueue, PoolArriving, ListOpsProofs

\* What the flag says about the worker, and the worker about the data: the
\* part of the invariant the two threads keep up together.
HandshakeInv ==
    /\ \A r \in Request :
          /\ done[r] => worker[r] \in {"none", "done", "released"}
          /\ worker[r] = "none" => data[r] = "request"
          /\ worker[r] \in {"written", "done", "released"} => data[r] = "result"
          /\ event[r] = "unused" => worker[r] = "none"
          /\ r \in refused => event[r] = "freed"
    /\ pc = "callback" => done[it]
    /\ pc = "scan" => pushing = None

\* The inductive invariant.
IInv ==
    /\ TypeOK
    /\ HandshakeInv
    /\ EventOutlivesWorker
    /\ QueueIsHeap
    /\ CursorInQueue

\* The invariant says enough about what a callback sees.
LEMMA CallbackSees == IInv => CallbackSeesResult
  BY DEF IInv, TypeOK, HandshakeInv, CursorInQueue, CallbackSeesResult

\* It holds of the empty queue.
LEMMA InitIInv == ASSUME GenericQueueAssumption PROVE Init => IInv
<1> SUFFICES ASSUME Init PROVE IInv
  OBVIOUS
<1>1. TypeOK
  BY DEF Init, TypeOK
<1>2. QueueIsHeap
  BY DEF Init, QueueIsHeap, NoRepeat, ToSet
<1> QED
  BY <1>1, <1>2
     DEF Init, IInv, HandshakeInv, EventOutlivesWorker, CursorInQueue

\* Queueing an allocated event that is not queued: the queue stays the heap
\* and the cursor stays where it is.
LEMMA AppendKeeps ==
    ASSUME GenericQueueAssumption, IInv, NEW r \in Request, r \notin ToSet(queue),
           queue' = Append(queue, r), pc' = pc, it' = it, tmp' = tmp
    PROVE  /\ queue' \in Seq(Request)
           /\ NoRepeat(queue')
           /\ ToSet(queue') = ToSet(queue) \cup {r}
           /\ CursorInQueue'
<1>1. queue \in Seq(Request) /\ NoRepeat(queue)
  BY DEF IInv, TypeOK, QueueIsHeap
<1>2. /\ queue' \in Seq(Request)
      /\ NoRepeat(queue')
      /\ ToSet(queue') = ToSet(queue) \cup {r}
      /\ \A x \in ToSet(queue) : Position(queue', x) = Position(queue, x)
  BY <1>1, AppendFacts
<1>3. CursorInQueue'
  BY <1>2 DEF IInv, CursorInQueue
<1> QED BY <1>2, <1>3

\* Where the loop stops next, in a queue that holds the element it goes to.
LEMMA StopAtKeeps ==
    ASSUME GenericQueueAssumption, NEW q \in Seq(Request), NoRepeat(q),
           NEW n, n = Sentinel \/ n \in ToSet(q), queue' = q, StopAt(q, n)
    PROVE  /\ CursorInQueue'
           /\ it' \in Request \cup {None}
           /\ tmp' \in Request \cup {Sentinel, None}
           /\ pc' \in {"script", "scan"}
<1>1. CASE n = Sentinel
  BY <1>1 DEF StopAt, CursorInQueue
<1>2. CASE n # Sentinel
  <2>1. pc' = "scan" /\ it' = n /\ tmp' = After(q, n) /\ n \in ToSet(q)
    BY <1>2 DEF StopAt
  <2>2. ToSet(q) \subseteq Request
    BY DEF ToSet
  <2>3. \/ tmp' = Sentinel
        \/ tmp' \in ToSet(q) /\ Position(q, tmp') = Position(q, n) + 1
    BY <2>1, AfterFacts
  <2>4. it' # None
    BY <2>1, <2>2 DEF GenericQueueAssumption
  <2> QED BY <2>1, <2>2, <2>3, <2>4 DEF CursorInQueue
<1> QED BY <1>1, <1>2

-----------------------------------------------------------------------------
(* The invariant is inductive: one lemma per action.                       *)

\* A push without worker makes an event that is done.
LEMMA PushDoneKeeps ==
    ASSUME GenericQueueAssumption, IInv, NEW r \in Request, PushDone(r)
    PROVE  IInv'
<1>1. r \notin ToSet(queue) /\ r # pushing /\ pushing = None
  BY DEF IInv, QueueIsHeap, PushDone, InScript, TypeOK, GenericQueueAssumption
<1>2. /\ queue' \in Seq(Request) /\ NoRepeat(queue') /\ CursorInQueue'
      /\ ToSet(queue') = ToSet(queue) \cup {r}
  BY <1>1, AppendKeeps DEF PushDone
<1>3. TypeOK'
  BY <1>2 DEF IInv, TypeOK, PushDone
<1>4. HandshakeInv'
  BY DEF IInv, TypeOK, HandshakeInv, PushDone, InScript
<1>5. EventOutlivesWorker'
  BY DEF IInv, TypeOK, EventOutlivesWorker, PushDone
<1>6. QueueIsHeap'
  BY <1>1, <1>2 DEF IInv, TypeOK, QueueIsHeap, PushDone, GenericQueueAssumption
<1> QED BY <1>2, <1>3, <1>4, <1>5, <1>6 DEF IInv

\* A push with a worker makes one that is not.
LEMMA PushSubmitKeeps ==
    ASSUME GenericQueueAssumption, IInv, NEW r \in Request, PushSubmit(r)
    PROVE  IInv'
<1>1. r \notin ToSet(queue) /\ pushing = None
  BY DEF IInv, QueueIsHeap, PushSubmit, InScript, TypeOK
<1>2. TypeOK'
  BY DEF IInv, TypeOK, PushSubmit
<1>3. HandshakeInv'
  BY <1>1 DEF IInv, TypeOK, HandshakeInv, PushSubmit, InScript, CursorInQueue
<1>4. EventOutlivesWorker'
  BY DEF IInv, TypeOK, EventOutlivesWorker, PushSubmit
<1>5. QueueIsHeap'
  BY <1>1 DEF IInv, TypeOK, QueueIsHeap, PushSubmit, GenericQueueAssumption
<1>6. CursorInQueue'
  BY DEF IInv, CursorInQueue, PushSubmit
<1> QED BY <1>2, <1>3, <1>4, <1>5, <1>6 DEF IInv

\* A push that the pool refuses frees what it made.
LEMMA PushRefusedKeeps ==
    ASSUME GenericQueueAssumption, IInv, NEW r \in Request, PushRefused(r)
    PROVE  IInv'
<1>1. TypeOK'
  BY DEF IInv, TypeOK, PushRefused
<1>2. HandshakeInv'
  BY DEF IInv, TypeOK, HandshakeInv, PushRefused
<1>3. EventOutlivesWorker'
  BY DEF IInv, TypeOK, HandshakeInv, EventOutlivesWorker, PushRefused
<1>4. QueueIsHeap'
  BY DEF IInv, TypeOK, QueueIsHeap, PushRefused
<1>5. CursorInQueue'
  BY DEF IInv, CursorInQueue, PushRefused
<1> QED BY <1>1, <1>2, <1>3, <1>4, <1>5 DEF IInv

\* The event goes to the end of the queue.
LEMMA PushLinkKeeps ==
    ASSUME GenericQueueAssumption, IInv, PushLink
    PROVE  IInv'
<1>1. pushing \in Request /\ pushing \notin ToSet(queue)
  BY DEF IInv, TypeOK, QueueIsHeap, PushLink
<1>2. /\ queue' \in Seq(Request) /\ NoRepeat(queue') /\ CursorInQueue'
      /\ ToSet(queue') = ToSet(queue) \cup {pushing}
  BY <1>1, AppendKeeps DEF PushLink
<1>3. TypeOK'
  BY <1>2 DEF IInv, TypeOK, PushLink
<1>4. HandshakeInv'
  BY DEF IInv, HandshakeInv, PushLink
<1>5. EventOutlivesWorker'
  BY DEF IInv, EventOutlivesWorker, PushLink
<1>6. None \notin ToSet(queue')
  BY <1>2 DEF ToSet, GenericQueueAssumption
<1>7. QueueIsHeap'
  BY <1>1, <1>2, <1>6 DEF IInv, QueueIsHeap, PushLink, GenericQueueAssumption
<1> QED BY <1>2, <1>3, <1>4, <1>5, <1>7 DEF IInv

\* A worker has its event until it has set done.
LEMMA WorkerKeeps ==
    ASSUME GenericQueueAssumption, IInv, NEW r \in Request, Worker(r)
    PROVE  IInv'
<1>1. UNCHANGED <<pc, pushing, queue, it, tmp, event, refused>>
  BY DEF Worker, WorkerStart, WorkerReturn, WorkerDone, WorkerFree, main
<1>2. QueueIsHeap' /\ CursorInQueue'
  BY <1>1 DEF IInv, QueueIsHeap, CursorInQueue
<1>3. CASE WorkerStart(r)
  BY <1>1, <1>2, <1>3
     DEF IInv, TypeOK, HandshakeInv, EventOutlivesWorker, WorkerStart
<1>4. CASE WorkerReturn(r)
  BY <1>1, <1>2, <1>4
     DEF IInv, TypeOK, HandshakeInv, EventOutlivesWorker, WorkerReturn
<1>5. CASE WorkerDone(r)
  BY <1>1, <1>2, <1>5
     DEF IInv, TypeOK, HandshakeInv, EventOutlivesWorker, WorkerDone
<1>6. CASE WorkerFree(r)
  BY <1>1, <1>2, <1>6
     DEF IInv, TypeOK, HandshakeInv, EventOutlivesWorker, WorkerFree
<1> QED BY <1>3, <1>4, <1>5, <1>6 DEF Worker

\* A pass begins at the first event.
LEMMA ConsumeBeginKeeps ==
    ASSUME GenericQueueAssumption, IInv, ConsumeBegin
    PROVE  IInv'
<1>1. queue \in Seq(Request) /\ NoRepeat(queue) /\ queue' = queue
  BY DEF IInv, TypeOK, QueueIsHeap, ConsumeBegin
<1>2. queue[1] \in ToSet(queue)
  BY <1>1 DEF ToSet, ConsumeBegin
<1>3. /\ CursorInQueue' /\ pc' \in {"script", "scan"}
      /\ it' \in Request \cup {None} /\ tmp' \in Request \cup {Sentinel, None}
  BY <1>1, <1>2, StopAtKeeps DEF ConsumeBegin
<1>4. TypeOK'
  BY <1>3 DEF IInv, TypeOK, ConsumeBegin
<1>5. HandshakeInv'
  BY <1>3 DEF IInv, HandshakeInv, ConsumeBegin
<1>6. EventOutlivesWorker' /\ QueueIsHeap'
  BY DEF IInv, EventOutlivesWorker, QueueIsHeap, ConsumeBegin
<1> QED BY <1>3, <1>4, <1>5, <1>6 DEF IInv

\* An event that is not done is passed over.
LEMMA ConsumeSkipKeeps ==
    ASSUME GenericQueueAssumption, IInv, ConsumeSkip
    PROVE  IInv'
<1>1. queue \in Seq(Request) /\ NoRepeat(queue) /\ queue' = queue
  BY DEF IInv, TypeOK, QueueIsHeap, ConsumeSkip
<1>2. tmp = Sentinel \/ tmp \in ToSet(queue)
  BY DEF IInv, CursorInQueue, ConsumeSkip
<1>3. /\ CursorInQueue' /\ pc' \in {"script", "scan"}
      /\ it' \in Request \cup {None} /\ tmp' \in Request \cup {Sentinel, None}
  BY <1>1, <1>2, StopAtKeeps DEF ConsumeSkip
<1>4. TypeOK'
  BY <1>3 DEF IInv, TypeOK, ConsumeSkip
<1>5. HandshakeInv'
  BY <1>3 DEF IInv, HandshakeInv, ConsumeSkip
<1>6. EventOutlivesWorker' /\ QueueIsHeap'
  BY DEF IInv, EventOutlivesWorker, QueueIsHeap, ConsumeSkip
<1> QED BY <1>3, <1>4, <1>5, <1>6 DEF IInv

\* The callback of one that is done is called.
LEMMA ConsumeCallKeeps ==
    ASSUME GenericQueueAssumption, IInv, ConsumeCall
    PROVE  IInv'
  BY DEF IInv, TypeOK, HandshakeInv, EventOutlivesWorker, QueueIsHeap,
         CursorInQueue, ConsumeCall

\* It is unlinked and freed when that returns, and the pass goes on.
LEMMA ConsumeReturnKeeps ==
    ASSUME GenericQueueAssumption, IInv, ConsumeReturn
    PROVE  IInv'
<1>1. /\ queue \in Seq(Request) /\ NoRepeat(queue)
      /\ it \in ToSet(queue) /\ it \in Request /\ done[it]
  BY DEF IInv, TypeOK, HandshakeInv, QueueIsHeap, CursorInQueue, ConsumeReturn, ToSet
<1>2. /\ queue' \in Seq(Request) /\ NoRepeat(queue')
      /\ ToSet(queue') = ToSet(queue) \ {it}
  BY <1>1, UnlinkFacts DEF ConsumeReturn
<1>3. tmp = Sentinel \/ tmp \in ToSet(queue')
  <2>1. CASE tmp # Sentinel
    <3>1. tmp \in ToSet(queue) /\ Position(queue, tmp) = Position(queue, it) + 1
      BY <2>1 DEF IInv, CursorInQueue, ConsumeReturn
    <3>2. Position(queue, it) \in 1 .. Len(queue)
      BY <1>1, PositionFacts
    <3>3. tmp # it
      BY <3>1, <3>2
    <3> QED BY <1>2, <3>1, <3>3
  <2> QED BY <2>1
<1>4. /\ CursorInQueue' /\ pc' \in {"script", "scan"}
      /\ it' \in Request \cup {None} /\ tmp' \in Request \cup {Sentinel, None}
  BY <1>2, <1>3, StopAtKeeps DEF ConsumeReturn
<1>5. TypeOK'
  BY <1>1, <1>2, <1>4 DEF IInv, TypeOK, ConsumeReturn
<1>6. HandshakeInv'
  BY <1>1, <1>4 DEF IInv, TypeOK, HandshakeInv, ConsumeReturn
<1>7. EventOutlivesWorker'
  BY <1>1 DEF IInv, TypeOK, HandshakeInv, EventOutlivesWorker, ConsumeReturn
<1>8. QueueIsHeap'
  BY <1>1, <1>2 DEF IInv, TypeOK, QueueIsHeap, ConsumeReturn
<1> QED BY <1>4, <1>5, <1>6, <1>7, <1>8 DEF IInv

\* Every step keeps it.
LEMMA NextKeepsIInv ==
    ASSUME GenericQueueAssumption, IInv, [Next]_vars
    PROVE  IInv'
<1>1. CASE UNCHANGED vars
  BY <1>1 DEF vars, IInv, TypeOK, HandshakeInv, EventOutlivesWorker,
              QueueIsHeap, CursorInQueue
<1> QED
  BY <1>1, PushDoneKeeps, PushSubmitKeeps, PushRefusedKeeps, PushLinkKeeps,
     WorkerKeeps, ConsumeBeginKeeps, ConsumeSkipKeeps, ConsumeCallKeeps,
     ConsumeReturnKeeps
     DEF Next, Consume

\* So it holds always.
LEMMA InvariantHolds == Spec => []IInv
<1>1. Init => IInv
  BY InitIInv, GenericQueueAssumption
<1>2. IInv /\ [Next]_vars => IInv'
  BY NextKeepsIInv, GenericQueueAssumption
<1> QED BY <1>1, <1>2, PTL DEF Spec

-----------------------------------------------------------------------------
\* The state of the queue and of its threads is always well typed.
THEOREM TypeCorrect == Spec => []TypeOK
<1>1. IInv => TypeOK
  BY DEF IInv
<1> QED BY <1>1, InvariantHolds, PTL

\* No event is freed while the pool thread still has to set its flag, for any
\* number of requests in flight.
THEOREM NoUseAfterFree == Spec => []EventOutlivesWorker
<1>1. IInv => EventOutlivesWorker
  BY DEF IInv
<1> QED BY <1>1, InvariantHolds, PTL

\* An event callback never sees a result the worker has not finished.
THEOREM NoUnfinishedResult == Spec => []CallbackSeesResult
<1> QED BY CallbackSees, InvariantHolds, PTL

\* No event leaks and none is left dangling in the queue.
THEOREM NoLeakNoDangling == Spec => []QueueIsHeap
<1>1. IInv => QueueIsHeap
  BY DEF IInv
<1> QED BY <1>1, InvariantHolds, PTL

\* The pass over the queue never leaves it, whatever its callbacks push.
THEOREM PassStaysInQueue == Spec => []CursorInQueue
<1>1. IInv => CursorInQueue
  BY DEF IInv
<1> QED BY <1>1, InvariantHolds, PTL

-----------------------------------------------------------------------------
(* The queue implements AsyncRequest.                                      *)

\* A step that moves one request, from `from' to `to', is that step of the
\* abstract specification.
LEMMA MoveOne ==
    ASSUME NEW r \in Request, NEW from, NEW to,
           RequestState(r) = from, RequestState(r)' = to,
           \A x \in Request \ {r} : RequestState(x)' = RequestState(x)
    PROVE  Abstract!Move(r, from, to)
  BY DEF Abstract!Move

\* A step that moves no request is a stutter.
LEMMA MoveNone ==
    ASSUME \A x \in Request : RequestState(x)' = RequestState(x)
    PROVE  UNCHANGED [r \in Request |-> RequestState(r)]
  OBVIOUS

\* A push is accepted, complete or refused on the spot.
LEMMA PushImplements ==
    ASSUME GenericQueueAssumption, IInv, NEW r \in Request,
           PushDone(r) \/ PushSubmit(r) \/ PushRefused(r)
    PROVE  Abstract!Next
<1>0. /\ event[r] = "unused" /\ r \notin refused /\ RequestState(r) = "idle"
      /\ ~Called(r) /\ ~Called(r)'
  <2>1. event[r] = "unused" /\ UNCHANGED <<pc, it>>
    BY DEF PushDone, PushSubmit, PushRefused
  <2>2. r \notin refused
    BY <2>1 DEF IInv, HandshakeInv
  <2>3. r \notin ToSet(queue)
    BY <2>1 DEF IInv, QueueIsHeap
  <2>4. ~Called(r) /\ ~Called(r)'
    BY <2>1, <2>3 DEF IInv, CursorInQueue, Called
  <2> QED BY <2>1, <2>2, <2>4 DEF RequestState
<1>1. \A x \in Request \ {r} : RequestState(x)' = RequestState(x)
  BY DEF IInv, TypeOK, RequestState, Called, PushDone, PushSubmit, PushRefused
<1>2. CASE PushDone(r)
  <2>1. RequestState(r)' = "completed"
    BY <1>0, <1>2 DEF IInv, TypeOK, RequestState, PushDone
  <2>2. Abstract!Move(r, "idle", "completed")
    BY <1>0, <1>1, <2>1, MoveOne
  <2> QED BY <2>2 DEF Abstract!Next, Abstract!AcceptCompleted
<1>3. CASE PushSubmit(r)
  <2>1. RequestState(r)' = "accepted"
    BY <1>0, <1>3 DEF IInv, TypeOK, RequestState, PushSubmit
  <2>2. Abstract!Move(r, "idle", "accepted")
    BY <1>0, <1>1, <2>1, MoveOne
  <2> QED BY <2>2 DEF Abstract!Next, Abstract!Accept
<1>4. CASE PushRefused(r)
  <2>1. RequestState(r)' = "refused"
    <3>1. r \in refused'
      BY <1>4 DEF PushRefused
    <3> QED BY <3>1 DEF RequestState
  <2>2. Abstract!Move(r, "idle", "refused")
    BY <1>0, <1>1, <2>1, MoveOne
  <2> QED BY <2>2 DEF Abstract!Next, Abstract!Refuse
<1> QED BY <1>2, <1>3, <1>4

\* A worker completes a request when it sets done, and does nothing before.
LEMMA WorkerImplements ==
    ASSUME GenericQueueAssumption, IInv, NEW r \in Request, Worker(r)
    PROVE  Abstract!Next \/ UNCHANGED [x \in Request |-> RequestState(x)]
<1>1. CASE WorkerDone(r)
  <2>1. /\ event[r] = "live" /\ ~done[r] /\ r \notin refused
        /\ ~Called(r) /\ ~Called(r)'
    BY <1>1 DEF IInv, TypeOK, HandshakeInv, EventOutlivesWorker, Called,
                WorkerDone, main
  <2>2. RequestState(r) = "accepted" /\ RequestState(r)' = "completed"
    BY <1>1, <2>1 DEF IInv, TypeOK, RequestState, WorkerDone, main
  <2>3. \A x \in Request \ {r} : RequestState(x)' = RequestState(x)
    BY <1>1 DEF IInv, TypeOK, RequestState, Called, WorkerDone, main
  <2>4. Abstract!Move(r, "accepted", "completed")
    BY <2>2, <2>3, MoveOne
  <2> QED BY <2>4 DEF Abstract!Next, Abstract!Complete
<1>2. CASE WorkerStart(r) \/ WorkerReturn(r) \/ WorkerFree(r)
  <2>1. \A x \in Request : RequestState(x)' = RequestState(x)
    BY <1>2 DEF RequestState, Called, WorkerStart, WorkerReturn, WorkerFree, main
  <2> QED BY <2>1, MoveNone
<1> QED BY <1>1, <1>2 DEF Worker

\* Moving the cursor, on its own, delivers nothing.
LEMMA ConsumeImplements ==
    ASSUME GenericQueueAssumption, IInv, Consume \/ PushLink
    PROVE  Abstract!Next \/ UNCHANGED [r \in Request |-> RequestState(r)]
<1>1. CASE ConsumeBegin \/ ConsumeSkip
  <2>1. pc # "callback" /\ pc' # "callback" /\ UNCHANGED <<event, done, refused>>
    BY <1>1 DEF ConsumeBegin, ConsumeSkip, StopAt
  <2>2. \A x \in Request : RequestState(x)' = RequestState(x)
    BY <2>1 DEF RequestState, Called
  <2> QED BY <2>2, MoveNone
<1>2. CASE ConsumeCall
  <2>1. /\ it \in Request /\ it \in ToSet(queue) /\ event[it] = "live"
        /\ it \notin refused /\ done[it]
    BY <1>2 DEF IInv, TypeOK, HandshakeInv, QueueIsHeap, CursorInQueue,
                ConsumeCall, ToSet
  <2>2. PICK r \in Request : r = it
    BY <2>1
  <2>3. RequestState(r) = "completed"
    BY <1>2, <2>1, <2>2 DEF RequestState, Called, ConsumeCall
  <2>4. RequestState(r)' = "delivered"
    BY <1>2, <2>1, <2>2 DEF RequestState, Called, ConsumeCall
  <2>5. \A x \in Request \ {r} : RequestState(x)' = RequestState(x)
    BY <1>2, <2>2 DEF RequestState, Called, ConsumeCall
  <2>6. Abstract!Move(r, "completed", "delivered")
    BY <2>3, <2>4, <2>5, MoveOne
  <2> QED BY <2>6 DEF Abstract!Next, Abstract!Deliver
<1>3. CASE ConsumeReturn
  <2>1. /\ it \in Request /\ event[it] = "live" /\ it \notin refused
        /\ pc = "callback" /\ pc' # "callback"
    BY <1>3 DEF IInv, TypeOK, HandshakeInv, QueueIsHeap, CursorInQueue,
                ConsumeReturn, ToSet, StopAt
  <2>2. event' = [event EXCEPT ![it] = "freed"] /\ UNCHANGED <<done, refused>>
    BY <1>3 DEF ConsumeReturn
  <2>3. \A x \in Request : RequestState(x)' = RequestState(x)
    BY <2>1, <2>2 DEF IInv, TypeOK, RequestState, Called
  <2> QED BY <2>3, MoveNone
<1>4. CASE PushLink
  <2>1. \A x \in Request : RequestState(x)' = RequestState(x)
    BY <1>4 DEF RequestState, Called, PushLink
  <2> QED BY <2>1, MoveNone
<1> QED BY <1>1, <1>2, <1>3, <1>4 DEF Consume

\* A request is refused on the spot, or worked on once and then called back
\* once: every step of the queue and of its threads is a step of AsyncRequest
\* or none at all.
THEOREM Refinement == Spec => ImplementsAsyncRequest
<1>1. Init => Abstract!Init
  <2> SUFFICES ASSUME Init PROVE \A r \in Request : RequestState(r) = "idle"
    BY DEF Abstract!Init
  <2> QED BY DEF Init, RequestState, Called
<1>2. IInv /\ [Next]_vars
        => [Abstract!Next]_([r \in Request |-> RequestState(r)])
  <2> SUFFICES ASSUME IInv, [Next]_vars
               PROVE  Abstract!Next \/ UNCHANGED [r \in Request |-> RequestState(r)]
    OBVIOUS
  <2>1. CASE UNCHANGED vars
    <3>1. \A x \in Request : RequestState(x)' = RequestState(x)
      BY <2>1 DEF vars, RequestState, Called
    <3> QED BY <3>1, MoveNone
  <2>2. CASE Next
    BY <2>2, PushImplements, WorkerImplements, ConsumeImplements,
       GenericQueueAssumption DEF Next
  <2> QED BY <2>1, <2>2
<1> QED
  BY <1>1, <1>2, InvariantHolds, PTL DEF Spec, ImplementsAsyncRequest, Abstract!Spec

-----------------------------------------------------------------------------
(* The sleep between two looks at the queue.                               *)

\* How much has been slept at each place, and how much is left to sleep.
Progress ==
    /\ stage # "return" => late = 0
    /\ stage = "enter" => i = 0 /\ slept = 0 /\ minDelay = asked
    /\ stage = "short" =>
          /\ pending
          /\ i <= rounds
          /\ rounds <= MAX_POOL_TIMES_I
          /\ minDelay = asked
          /\ asked # 0 =>
                /\ poolTimes = Rounds(asked, POOL_INTERVAL_I)
                /\ rounds = poolTimes \/ (rounds = MAX_POOL_TIMES_I /\ rounds < poolTimes)
                /\ slept = i * POOL_INTERVAL_I
    /\ stage = "long" =>
          /\ pending
          /\ i <= rounds
          /\ asked > MAX_POOL_TIMES_I * POOL_INTERVAL_I
          /\ minDelay = asked - MAX_POOL_TIMES_I * POOL_INTERVAL_I
          /\ rounds = Rounds(minDelay, POOL_INTERVAL_II)
          /\ slept = MAX_POOL_TIMES_I * POOL_INTERVAL_I + i * POOL_INTERVAL_II

SleepInv == SleepTypeOK /\ Progress /\ TimeoutOnTime /\ AnswerSeen

\* Rounding up: the rounds cover the delay and the last one is needed.
LEMMA RoundsFacts ==
    ASSUME NEW d \in Nat
    PROVE  /\ Rounds(d, 16) \in Nat
           /\ d <= Rounds(d, 16) * 16 /\ Rounds(d, 16) * 16 < d + 16
           /\ Rounds(d, 128) \in Nat
           /\ d <= Rounds(d, 128) * 128 /\ Rounds(d, 128) * 128 < d + 128
  BY DEF Rounds

\* Nothing has been slept at first.
LEMMA SleepBegins == ASSUME PoolAssumption PROVE SleepInit => SleepInv
<1> SUFFICES ASSUME SleepInit PROVE SleepInv
  OBVIOUS
<1>1. SleepTypeOK
  BY DEF PoolAssumption, SleepInit, SleepTypeOK
<1>2. Progress
  BY DEF SleepInit, Progress
<1>3. TimeoutOnTime /\ AnswerSeen
  BY DEF SleepInit, TimeoutOnTime, AnswerSeen, POOL_INTERVAL_I, POOL_INTERVAL_II
<1> QED BY <1>1, <1>2, <1>3 DEF SleepInv

\* A number that fits a word is not changed by being cut to it.
LEMMA CutFacts ==
    ASSUME NEW d \in Nat, NEW w \in Nat \ {0}
    PROVE  d % w \in Nat /\ (d < w => d % w = d)
<1>1. d % w \in Nat
  OBVIOUS
<1>2. d < w => d % w = d
  OBVIOUS
<1> QED BY <1>1, <1>2

\* Every round, and every way out of a loop, keeps the count.
LEMMA SleepStepKeeps ==
    ASSUME PoolAssumption, SleepInv, [SleepNext]_sleepVars
    PROVE  SleepInv'
<1> USE DEF SleepInv, POOL_INTERVAL_I, POOL_INTERVAL_II, MAX_POOL_TIMES_I
<1>0. asked \in Nat /\ minDelay \in Nat /\ Delays \subseteq Nat
  BY DEF SleepTypeOK, PoolAssumption
<1>1. CASE SleepOnce
  <2>1. minDelay % DwordSize \in Nat
        /\ (minDelay < DwordSize => minDelay % DwordSize = minDelay)
    BY <1>0, CutFacts DEF PoolAssumption
  <2> QED
    BY <1>0, <1>1, <2>1
       DEF SleepOnce, SleepTypeOK, Progress, TimeoutOnTime, AnswerSeen
<1>2. CASE EnterForever
  BY <1>0, <1>2
     DEF EnterForever, SleepTypeOK, Progress, TimeoutOnTime, AnswerSeen
<1>3. CASE EnterTimed
  <2>1. poolTimes' = Rounds(asked, 16) /\ poolTimes' \in Nat
    BY <1>0, <1>3, RoundsFacts DEF EnterTimed, Progress
  <2>2. /\ rounds' \in Nat /\ rounds' <= 8
        /\ rounds' = poolTimes' \/ (rounds' = 8 /\ rounds' <= poolTimes')
    BY <1>3, <2>1 DEF EnterTimed
  <2>3. SleepTypeOK'
    BY <1>3, <2>1, <2>2 DEF EnterTimed, SleepTypeOK
  <2>4. Progress'
    <3>1. rounds' = poolTimes' \/ (rounds' = 8 /\ rounds' < poolTimes')
      BY <2>1, <2>2
    <3>2. /\ stage' = "short" /\ pending' /\ minDelay' = asked' /\ asked' = asked
          /\ late' = 0 /\ i' = 0 /\ slept' = 0
      BY <1>3 DEF EnterTimed, Progress
    <3>3. i' <= rounds' /\ slept' = i' * 16
      BY <2>2, <3>2
    <3>4. poolTimes' = Rounds(asked', 16)
      BY <2>1, <3>2
    <3>5. rounds' <= 8
      BY <2>2
    <3> QED
      BY ONLY <3>1, <3>2, <3>3, <3>4, <3>5
         DEF Progress, Rounds, POOL_INTERVAL_I, MAX_POOL_TIMES_I
  <2>5. TimeoutOnTime' /\ AnswerSeen'
    BY <1>3 DEF EnterTimed, TimeoutOnTime, AnswerSeen
  <2> QED BY <2>3, <2>4, <2>5
<1>4. CASE ShortRound
  BY <1>0, <1>4
     DEF ShortRound, Round, SleepTypeOK, Progress, TimeoutOnTime, AnswerSeen
<1>5. CASE ShortRoundsAreEnough
  <2>1. asked <= rounds * 16 /\ rounds * 16 < asked + 16 /\ slept = rounds * 16
    BY <1>0, <1>5, RoundsFacts DEF ShortRoundsAreEnough, Progress
  <2> QED
    BY <1>0, <1>5, <2>1
       DEF ShortRoundsAreEnough, SleepTypeOK, Progress, TimeoutOnTime, AnswerSeen
<1>6. CASE EnterLong
  <2>1. rounds = 8 /\ 8 < Rounds(asked, 16) /\ slept = 8 * 16
    BY <1>6 DEF EnterLong, Progress, SleepTypeOK
  <2>2. asked > 8 * 16
    BY <1>0, <2>1, RoundsFacts
  <2>3. minDelay' = asked - 8 * 16 /\ minDelay' \in Nat
    BY <1>0, <1>6, <2>1, <2>2 DEF EnterLong, Progress
  <2>4. rounds' = Rounds(minDelay', 128) /\ rounds' \in Nat
    BY <1>6, <2>3, RoundsFacts DEF EnterLong
  <2> QED
    BY <1>0, <1>6, <2>1, <2>2, <2>3, <2>4
       DEF EnterLong, SleepTypeOK, Progress, TimeoutOnTime, AnswerSeen
<1>7. CASE LongRound
  BY <1>0, <1>7
     DEF LongRound, Round, SleepTypeOK, Progress, TimeoutOnTime, AnswerSeen
<1>8. CASE LongRoundsDone
  <2>1. /\ asked > 8 * 16 /\ minDelay = asked - 8 * 16
        /\ slept = 8 * 16 + rounds * 128
        /\ minDelay <= rounds * 128 /\ rounds * 128 < minDelay + 128
    BY <1>0, <1>8, RoundsFacts DEF LongRoundsDone, Progress
  <2> QED
    BY <1>0, <1>8, <2>1
       DEF LongRoundsDone, SleepTypeOK, Progress, TimeoutOnTime, AnswerSeen
<1>9. CASE ForeverRound
  BY <1>0, <1>9
     DEF ForeverRound, Round, SleepTypeOK, Progress, TimeoutOnTime, AnswerSeen
<1>10. CASE Arrive
  BY <1>0, <1>10
     DEF Arrive, SleepTypeOK, Progress, TimeoutOnTime, AnswerSeen
<1>11. CASE UNCHANGED sleepVars
  BY <1>11
     DEF sleepVars, SleepTypeOK, Progress, TimeoutOnTime, AnswerSeen
<1> QED
  BY <1>1, <1>2, <1>3, <1>4, <1>5, <1>6, <1>7, <1>8, <1>9, <1>10, <1>11
     DEF SleepNext, PoolArriving

\* So the count is right in every state.
LEMMA SleepInvHolds == SleepSpec => []SleepInv
<1>1. SleepInit => SleepInv
  BY SleepBegins, PoolAssumption
<1>2. SleepInv /\ [SleepNext]_sleepVars => SleepInv'
  BY SleepStepKeeps, PoolAssumption
<1> QED BY <1>1, <1>2, PTL DEF SleepSpec

\* Without a finished request the thread sleeps until min_delay is over and
\* less than one more round, for every min_delay; for 0, until there is one.
THEOREM SleepsAsLongAsAsked == SleepSpec => []TimeoutOnTime
<1>1. SleepInv => TimeoutOnTime
  BY DEF SleepInv
<1> QED BY <1>1, SleepInvHolds, PTL

\* A finished request is seen at the end of the round it finishes in.
THEOREM AnswerSeenInTime == SleepSpec => []AnswerSeen
<1>1. SleepInv => AnswerSeen
  BY DEF SleepInv
<1> QED BY <1>1, SleepInvHolds, PTL

\* The unsigned min_delay never wraps, and no other variable leaves its type.
THEOREM DelayNeverWraps == SleepSpec => []SleepTypeOK
<1>1. SleepInv => SleepTypeOK
  BY DEF SleepInv
<1> QED BY <1>1, SleepInvHolds, PTL
=============================================================================
