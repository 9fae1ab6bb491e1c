----------------------------- MODULE EventLoop -----------------------------
(***************************************************************************)
(* nodert_loop of src/nodert.c with the four queues of src/event_queue.c   *)
(* and the timer functions of src/bindings.c: one JavaScript thread that   *)
(* runs a script and then, pass after pass, the callbacks the script and   *)
(* its callbacks have scheduled.  A callback may schedule and clear        *)
(* others, also in the queue whose pass has called it.                     *)
(*                                                                         *)
(* Timers are entries of the C heap and their JavaScript ids are their     *)
(* addresses, so this module keeps the addresses: a freed one may be given *)
(* out again.  The pool threads are reduced to the moment they set the     *)
(* `done' flag; GenericQueue has the rest.  Script code is any sequence of *)
(* calls of the API, with every callback scheduled at most once.           *)
(***************************************************************************)
EXTENDS ListOps

CONSTANTS Callback,     \* the JavaScript functions that get scheduled
          Addr,         \* the addresses malloc returns
          Kinds,        \* the ways this run schedules them
          Delays,       \* the delays it asks for, in clock units
          MaxNow,       \* bound: the clock stops here, and a script sets no
                        \* timer for later (a repeating one may get there)
          Careful,      \* whether the script keeps the discipline of MayClear
          Main,         \* the script itself, as the thing that is running
          None

ASSUME EventLoopAssumption ==
    /\ Callback \cap {Main, None} = {} /\ Main # None
    /\ Addr \cap {Sentinel, None} = {} /\ Sentinel # None
    /\ Kinds \subseteq {"tick", "job", "timeout", "interval",
                        "generic", "macro", "immediate"}
    /\ Delays \subseteq Nat
    /\ MaxNow \in Nat
    /\ Careful \in BOOLEAN

Queues == {"tick", "timeout", "generic", "immediate"}

VARIABLES
    phase,              \* the step nodert_loop is at
    running,            \* the JavaScript that is running
    queue,              \* the four queues, as sequences of addresses
    heap,               \* heap[a] is the callback of the entry at address a
    it, tmp,            \* the cursor of the pass over queue[phase]
    jobs,               \* QuickJS's own queue of promise jobs
    now,                \* the clock
    nowMsec,            \* now_msec of consume_timeout_event_queue
    minDelay,           \* min_delay of nodert_loop
    wake,               \* when the sleep of pool_arriving_events is over
    kind, id, when, interval,   \* per callback: its entry
    done,               \* the callbacks of requests whose worker is done
    by,                 \* history: who scheduled each callback
    status,             \* history: where each callback is in its life
    failed              \* a promise job has thrown

entries == <<kind, id, when, interval>>
clock == <<now, nowMsec, minDelay, wake>>
vars == <<phase, running, queue, heap, it, tmp, jobs, clock, entries, done, by,
          status, failed>>

InScript == running # None /\ phase # "fault"
InPass == phase \in Queues /\ it # None

-----------------------------------------------------------------------------
(* The API of bindings.c, called by whatever JavaScript is running.        *)

QueueOf(k) ==
    CASE k \in {"timeout", "interval"} -> "timeout"
      [] k \in {"generic", "macro"} -> "generic"
      [] OTHER -> k

\* A push to the wrong end of the list.
Push_head(c, k, at, repeat) ==
    \E a \in Addr :
       /\ heap[a] = None
       /\ heap' = [heap EXCEPT ![a] = c]
       /\ id' = [id EXCEPT ![c] = a]
       /\ when' = [when EXCEPT ![c] = at]
       /\ interval' = [interval EXCEPT ![c] = repeat]
       /\ queue' = [queue EXCEPT ![QueueOf(k)] = <<a>> \o @]

\* push_to_timer_queue and push_to_generic_event_queue: an entry at some free
\* address, at the tail of its queue.  The address is the id.
Push(c, k, at, repeat) ==
    \E a \in Addr :
       /\ heap[a] = None
       /\ heap' = [heap EXCEPT ![a] = c]
       /\ id' = [id EXCEPT ![c] = a]
       /\ when' = [when EXCEPT ![c] = at]
       /\ interval' = [interval EXCEPT ![c] = repeat]
       /\ queue' = [queue EXCEPT ![QueueOf(k)] = Append(@, a)]

\* The time at which an entry that no pass asks for it was pushed.
Whenever == 0

Schedule(c, k, s) ==
    /\ InScript
    /\ k \in Kinds
    /\ kind[c] = "none"
    /\ kind' = [kind EXCEPT ![c] = k]
    /\ by' = [by EXCEPT ![c] = running]
    /\ status' = [status EXCEPT ![c] = s]
    /\ UNCHANGED <<phase, running, it, tmp, clock, failed>>

\* Push the callback with the time it is due.  The functions a script normally
\* calls round the delay up to 1 (init_bindings.js), but what is not a number
\* ends up as 0.
setTimeout(c) ==
    /\ Schedule(c, "timeout", "once")
    /\ \E d \in Delays : now + d <= MaxNow /\ Push(c, "timeout", now + d, 0)
    /\ UNCHANGED <<jobs, done>>

\* The same with the interval to add after each call; one of 0 does not repeat.
setInterval(c) ==
    \E d \in Delays :
       /\ Schedule(c, "interval", IF d > 0 THEN "repeating" ELSE "once")
       /\ now + d <= MaxNow
       /\ Push(c, "interval", now + d, d)
       /\ UNCHANGED <<jobs, done>>

setImmediate(c) ==
    /\ Schedule(c, "immediate", "once")
    /\ Push(c, "immediate", Whenever, 0)
    /\ UNCHANGED <<jobs, done>>

nextTick(c) ==
    /\ Schedule(c, "tick", "once")
    /\ Push(c, "tick", Whenever, 0)
    /\ UNCHANGED <<jobs, done>>

\* _pseudo_marco: a generic event that needs no worker.
pseudo_marco(c) ==
    /\ Schedule(c, "macro", "once")
    /\ Push(c, "macro", Whenever, 0)
    /\ done' = done \cup {c}
    /\ UNCHANGED jobs

\* Any of the asynchronous functions of fs.c, its worker still to run.
AsyncCall(c) ==
    /\ Schedule(c, "generic", "once")
    /\ Push(c, "generic", Whenever, 0)
    /\ UNCHANGED <<jobs, done>>

\* Settling a promise: external, QuickJS queues the reaction.
EnqueueJob(c) ==
    /\ Schedule(c, "job", "once")
    /\ jobs' = Append(jobs, c)
    /\ UNCHANGED <<queue, heap, id, when, interval, done>>

\* The discipline of a careful script: it clears what is still scheduled (an
\* id it has seen fire may be another timer's by now), and neither the callback
\* that is running nor the entry the pass has saved as its next one.
MayClear(c) ==
    Careful => /\ status[c] \in {"once", "repeating"}
               /\ InPass => id[c] \notin {it, tmp}

\* A clear that trusts the id instead of looking for it in its queue.
Clear_byAddress(c, q) ==
    /\ InScript
    /\ MayClear(c)
    /\ heap[id[c]] # None
    /\ queue' = [p \in Queues |->
                    IF id[c] \in ToSet(queue[p]) THEN Unlink(queue[p], id[c])
                    ELSE queue[p]]
    /\ heap' = [heap EXCEPT ![id[c]] = None]
    /\ status' = [status EXCEPT ![heap[id[c]]] = "cancelled"]
    /\ UNCHANGED <<phase, running, it, tmp, jobs, clock, entries, done, by, failed>>

\* clear_timer_event over one queue: the entry at the address, if there is
\* one, is unlinked and freed, whoever has scheduled it.
Clear(c, q) ==
    /\ InScript
    /\ MayClear(c)
    /\ IF id[c] \in ToSet(queue[q])
       THEN /\ queue' = [queue EXCEPT ![q] = Unlink(@, id[c])]
            /\ heap' = [heap EXCEPT ![id[c]] = None]
            /\ status' = [status EXCEPT ![heap[id[c]]] = "cancelled"]
       ELSE UNCHANGED <<queue, heap, status>>
    /\ UNCHANGED <<phase, running, it, tmp, jobs, clock, entries, done, by, failed>>

clearTimeout(c) == kind[c] \in {"timeout", "interval"} /\ Clear(c, "timeout")

clearImmediate(c) == kind[c] = "immediate" /\ Clear(c, "immediate")

API ==
    \E c \in Callback :
       \/ setTimeout(c)
       \/ setInterval(c)
       \/ setImmediate(c)
       \/ nextTick(c)
       \/ pseudo_marco(c)
       \/ AsyncCall(c)
       \/ EnqueueJob(c)
       \/ clearTimeout(c)
       \/ clearImmediate(c)

-----------------------------------------------------------------------------
(* nodert_loop.                                                            *)

Init ==
    /\ phase = "script"
    /\ running = Main
    /\ queue = [q \in Queues |-> <<>>]
    /\ heap = [a \in Addr |-> None]
    /\ it = None /\ tmp = None
    /\ jobs = <<>>
    /\ now = 0 /\ nowMsec = 0 /\ minDelay = 0 /\ wake = 0
    /\ kind = [c \in Callback |-> "none"]
    /\ id = [c \in Callback |-> None]
    /\ when = [c \in Callback |-> 0]
    /\ interval = [c \in Callback |-> 0]
    /\ done = {}
    /\ by = [c \in Callback |-> None]
    /\ status = [c \in Callback |-> "idle"]
    /\ failed = FALSE

\* main.js has been evaluated: main calls nodert_loop.
EnterLoop ==
    /\ phase = "script"
    /\ phase' = "tick"
    /\ running' = None
    /\ UNCHANGED <<queue, heap, it, tmp, jobs, clock, entries, done, by, status, failed>>

\* A loop that goes from the generic queue straight to its decision.
PhaseAfter_noImmediates(q) ==
    CASE q = "tick" -> "jobs"
      [] q = "timeout" -> "generic"
      [] q \in {"generic", "immediate"} -> "decide"

PhaseAfter(q) ==
    CASE q = "tick" -> "jobs"
      [] q = "timeout" -> "generic"
      [] q = "generic" -> "immediate"
      [] q = "immediate" -> "decide"

\* it = n, tmp = it->next.  The pass is over at the list head; a node that is
\* not in the queue any more is memory the pass must not touch.
StopAt(q, s, n) ==
    IF n = Sentinel
    THEN /\ phase' = PhaseAfter(q)
         /\ it' = None /\ tmp' = None
    ELSE IF n \notin ToSet(s)
    THEN /\ phase' = "fault"
         /\ UNCHANGED <<it, tmp>>
    ELSE /\ phase' = q
         /\ it' = n /\ tmp' = After(s, n)

\* The head of consume_*_queue.  Only the timer pass reads the clock, and only
\* when it has something to do; it resets min_delay in any case.
PassBegin(q) ==
    /\ phase = q /\ it = None
    /\ StopAt(q, queue[q], First(queue[q]))
    /\ minDelay' = IF q = "timeout" THEN 0 ELSE minDelay
    /\ nowMsec' = IF q = "timeout" /\ queue[q] # <<>> THEN now ELSE nowMsec
    /\ UNCHANGED <<running, queue, heap, jobs, now, wake, entries, done, by, status, failed>>

\* Off by one in either direction.
Fires_early(q, c) ==
    CASE q = "timeout" -> when[c] <= nowMsec + 1
      [] q = "generic" -> c \in done
      [] OTHER -> TRUE

Fires_late(q, c) ==
    CASE q = "timeout" -> when[c] < nowMsec
      [] q = "generic" -> c \in done
      [] OTHER -> TRUE

Fires(q, c) ==
    CASE q = "timeout" -> when[c] <= nowMsec
      [] q = "generic" -> c \in done
      [] OTHER -> TRUE

\* if(*min_delay > d) *min_delay = d
Lowered(d) == IF minDelay > d THEN d ELSE minDelay

\* The remaining time the wrong way round.
PassSkip_swapped(q) ==
    /\ phase = q /\ it # None /\ running = None
    /\ ~Fires(q, heap[it])
    /\ minDelay' = IF q = "timeout" THEN Lowered(nowMsec - when[heap[it]]) ELSE minDelay
    /\ StopAt(q, queue[q], tmp)
    /\ UNCHANGED <<running, queue, heap, jobs, now, nowMsec, wake, entries, done, by, status, failed>>

PassSkip(q) ==
    /\ phase = q /\ it # None /\ running = None
    /\ ~Fires(q, heap[it])
    /\ minDelay' = IF q = "timeout" THEN Lowered(when[heap[it]] - nowMsec) ELSE minDelay
    /\ StopAt(q, queue[q], tmp)
    /\ UNCHANGED <<running, queue, heap, jobs, now, nowMsec, wake, entries, done, by, status, failed>>

PassCall(q) ==
    /\ phase = q /\ it # None /\ running = None
    /\ Fires(q, heap[it])
    /\ running' = heap[it]
    /\ UNCHANGED <<phase, queue, heap, it, tmp, jobs, clock, entries, done, by, status, failed>>

\* The callback has returned: what the pass reads of its entry now may have
\* been freed meanwhile.
PassFault(q) ==
    /\ phase = q /\ it # None /\ running # None
    /\ it \notin ToSet(queue[q])
    /\ phase' = "fault"
    /\ UNCHANGED <<running, queue, heap, it, tmp, jobs, clock, entries, done, by, status, failed>>

\* A repeating timer is armed again, relative to the beginning of the pass.
PassRearm(q) ==
    /\ phase = q /\ it \in ToSet(queue[q]) /\ running # None
    /\ q = "timeout" /\ interval[heap[it]] > 0
    /\ when' = [when EXCEPT ![heap[it]] = nowMsec + interval[heap[it]]]
    /\ minDelay' = Lowered(interval[heap[it]])
    /\ running' = None
    /\ StopAt(q, queue[q], tmp)
    /\ UNCHANGED <<queue, heap, jobs, now, nowMsec, wake, kind, id, interval, done, by, status, failed>>

\* A pass that does not free the entry it has unlinked.
PassReturn_leak(q) ==
    /\ phase = q /\ it \in ToSet(queue[q]) /\ running # None
    /\ ~(q = "timeout" /\ interval[heap[it]] > 0)
    /\ queue' = [queue EXCEPT ![q] = Unlink(@, it)]
    /\ status' = [status EXCEPT ![heap[it]] = "over"]
    /\ running' = None
    /\ StopAt(q, queue'[q], tmp)
    /\ UNCHANGED <<heap, jobs, clock, entries, done, by, failed>>

\* A pass that follows the entry it has just freed (sc_list_foreach).
PassReturn_unsafe(q) ==
    /\ phase = q /\ it \in ToSet(queue[q]) /\ running # None
    /\ ~(q = "timeout" /\ interval[heap[it]] > 0)
    /\ queue' = [queue EXCEPT ![q] = Unlink(@, it)]
    /\ heap' = [heap EXCEPT ![it] = None]
    /\ status' = [status EXCEPT ![heap[it]] = "over"]
    /\ running' = None
    /\ StopAt(q, queue'[q], it)
    /\ UNCHANGED <<jobs, clock, entries, done, by, failed>>

\* A pass that leaves the entry for the next one.
PassReturn_kept(q) ==
    /\ phase = q /\ it \in ToSet(queue[q]) /\ running # None
    /\ ~(q = "timeout" /\ interval[heap[it]] > 0)
    /\ status' = [status EXCEPT ![heap[it]] = "over"]
    /\ running' = None
    /\ StopAt(q, queue[q], tmp)
    /\ UNCHANGED <<queue, heap, jobs, clock, entries, done, by, failed>>

\* Any other entry is unlinked and freed.
PassReturn(q) ==
    /\ phase = q /\ it \in ToSet(queue[q]) /\ running # None
    /\ ~(q = "timeout" /\ interval[heap[it]] > 0)
    /\ queue' = [queue EXCEPT ![q] = Unlink(@, it)]
    /\ heap' = [heap EXCEPT ![it] = None]
    /\ status' = [status EXCEPT ![heap[it]] = "over"]
    /\ running' = None
    /\ StopAt(q, queue'[q], tmp)
    /\ UNCHANGED <<jobs, clock, entries, done, by, failed>>

Pass == \E q \in Queues :
            \/ PassBegin(q)
            \/ PassSkip(q)
            \/ PassCall(q)
            \/ PassFault(q)
            \/ PassRearm(q)
            \/ PassReturn(q)

\* JS_ExecutePendingJob, until there is none or one has thrown.
JobCall ==
    /\ phase = "jobs" /\ running = None /\ jobs # <<>>
    /\ running' = Head(jobs)
    /\ jobs' = Tail(jobs)
    /\ UNCHANGED <<phase, queue, heap, it, tmp, clock, entries, done, by, status, failed>>

JobReturn ==
    /\ phase = "jobs" /\ running # None
    /\ running' = None
    /\ status' = [status EXCEPT ![running] = "over"]
    /\ UNCHANGED <<phase, queue, heap, it, tmp, jobs, clock, entries, done, by, failed>>

\* err < 0: goto done
JobThrow ==
    /\ phase = "jobs" /\ running # None
    /\ running' = None
    /\ status' = [status EXCEPT ![running] = "over"]
    /\ phase' = "done"
    /\ failed' = TRUE
    /\ UNCHANGED <<queue, heap, it, tmp, jobs, clock, entries, done, by>>

JobsDone ==
    /\ phase = "jobs" /\ running = None /\ jobs = <<>>
    /\ phase' = "timeout"
    /\ UNCHANGED <<running, queue, heap, it, tmp, jobs, clock, entries, done, by, status, failed>>

\* A loop that forgets the ticks its last passes have scheduled.
Idle_jobsOnly == jobs = <<>>

Idle == jobs = <<>> /\ queue["tick"] = <<>>

\* Whether there is anything to wait for; immediates are not asked about.
Waiting == queue["generic"] # <<>> \/ queue["timeout"] # <<>>

Decide ==
    /\ phase = "decide"
    /\ phase' = IF ~Idle THEN "tick" ELSE IF Waiting THEN "poll" ELSE "done"
    /\ wake' = IF phase' = "poll" THEN now + minDelay ELSE 0
    /\ UNCHANGED <<running, queue, heap, it, tmp, jobs, now, nowMsec, minDelay, entries, done, by, status, failed>>

\* has_arriving_generic_queue_jobs
Arriving == \E a \in ToSet(queue["generic"]) : heap[a] \in done

\* A wait for the workers alone.
PollOver_workersOnly == Arriving

\* What pool_arriving_events waits for (see PoolArriving): its delay when no
\* request is pending; otherwise a finished one, or the delay unless it is 0.
PollOver ==
    IF queue["generic"] = <<>> THEN now >= wake
    ELSE Arriving \/ (minDelay > 0 /\ now >= wake)

Poll ==
    /\ phase = "poll"
    /\ PollOver
    /\ phase' = "tick"
    /\ wake' = 0
    /\ UNCHANGED <<running, queue, heap, it, tmp, jobs, now, nowMsec, minDelay, entries, done, by, status, failed>>

Loop == EnterLoop \/ Pass \/ JobCall \/ JobReturn \/ JobThrow \/ JobsDone \/ Decide \/ Poll

-----------------------------------------------------------------------------
(* The world around the thread.                                            *)

\* A pool thread sets the flag of its request.
WorkerDone(c) ==
    /\ kind[c] = "generic" /\ c \notin done
    /\ done' = done \cup {c}
    /\ UNCHANGED <<phase, running, queue, heap, it, tmp, jobs, clock, entries, by, status, failed>>

Tick ==
    /\ now < MaxNow
    /\ now' = now + 1
    /\ UNCHANGED <<phase, running, queue, heap, it, tmp, jobs, nowMsec, minDelay, wake,
                   entries, done, by, status, failed>>

Next ==
    \/ API
    \/ Loop
    \/ \E c \in Callback : WorkerDone(c)
    \/ Tick

Spec == Init /\ [][Next]_vars

\* The JavaScript thread goes on, and with a finite number of callbacks to
\* schedule its script code returns; workers return; the clock advances.
Fairness ==
    /\ WF_vars(API \/ Loop)
    /\ \A c \in Callback : WF_vars(WorkerDone(c))
    /\ WF_vars(Tick)

FairSpec == Spec /\ Fairness

-----------------------------------------------------------------------------
TypeOK ==
    /\ phase \in Queues \cup {"script", "jobs", "decide", "poll", "done", "fault"}
    /\ running \in Callback \cup {Main, None}
    /\ queue \in [Queues -> Seq(Addr)]
    /\ heap \in [Addr -> Callback \cup {None}]
    /\ it \in Addr \cup {None}
    /\ tmp \in Addr \cup {Sentinel, None}
    /\ jobs \in Seq(Callback)
    /\ now \in Nat /\ nowMsec \in Nat /\ minDelay \in Nat /\ wake \in Nat
    /\ kind \in [Callback -> Kinds \cup {"none"}]
    /\ id \in [Callback -> Addr \cup {None}]
    /\ when \in [Callback -> Nat]
    /\ interval \in [Callback -> Nat]
    /\ done \in SUBSET Callback
    /\ by \in [Callback -> Callback \cup {Main, None}]
    /\ status \in [Callback -> {"idle", "once", "repeating", "cancelled", "over"}]
    /\ failed \in BOOLEAN

\* The entries in the four queues are exactly the allocated ones, each in one
\* queue and once, the one its callback asked for, under the id it was given.
HeapIsQueued ==
    /\ \A q \in Queues : NoRepeat(queue[q])
    /\ \A a \in Addr :
          Cardinality({q \in Queues : a \in ToSet(queue[q])})
             = IF heap[a] = None THEN 0 ELSE 1
    /\ \A q \in Queues : \A a \in ToSet(queue[q]) :
          id[heap[a]] = a /\ QueueOf(kind[heap[a]]) = q

\* The pass never leaves its queue: the entry it stands on and the one it has
\* saved as the next are both still there when it comes to use them.
CursorInQueue ==
    /\ phase # "fault"
    /\ InPass =>
          /\ it \in ToSet(queue[phase])
          /\ \/ tmp = Sentinel
             \/ /\ tmp \in ToSet(queue[phase])
                /\ Position(queue[phase], it) < Position(queue[phase], tmp)

\* A timer is never called before its time.
NoTimerEarly ==
    InPass /\ phase = "timeout" /\ running # None =>
        when[running] <= nowMsec /\ nowMsec <= now

\* The timer pass leaves no timer behind that was due when it began: it calls
\* them in the order in which they were set, wherever new ones are set and
\* others are cleared on the way.
NoDueTimerPassed ==
    InPass /\ phase = "timeout" =>
        \A i \in 1 .. Position(queue["timeout"], it) - 1 :
           when[heap[queue["timeout"][i]]] > nowMsec

\* nextTick callbacks and immediates run first in, first out.
FirstInFirstOut ==
    InPass /\ phase \in {"tick", "immediate"} => it = queue[phase][1]

\* Who is still to be called when the loop has ended without a failed job: no
\* callback of any kind, whatever queue it was in and whichever way it has gone
\* through it, but the immediates that were set by one last immediate.
LeftAtExit ==
    phase = "done" /\ ~failed =>
        \E last \in Callback \cup {None} :
           /\ last # None => kind[last] = "immediate" /\ status[last] = "over"
           /\ \A c \in Callback : status[c] \in {"once", "repeating"} =>
                 kind[c] = "immediate" /\ by[c] = last

\* Immediates that miss a pass are those set by the last callback of the pass:
\* all other immediates run in it.  They wait for the next wake-up, and are
\* left behind if the loop ends.
OnlyLastImmediatesWait ==
    phase \in {"decide", "poll"} \/ (phase = "done" /\ ~failed) =>
        \E last \in Callback \cup {None} :
           /\ last # None => kind[last] = "immediate" /\ status[last] = "over"
           /\ \A a \in ToSet(queue["immediate"]) : by[heap[a]] = last

\* Clearing, however careless, is a danger only to the passes over the two
\* queues it works on: an id that is out of date, and whose address now holds
\* a tick or a request, touches neither.
FaultOnlyWhereCleared ==
    [][phase # "fault" /\ phase' = "fault" => phase \in {"timeout", "immediate"}]_vars

\* The loop keeps the promises of the timer API to a careful script.
Abstract == INSTANCE Callbacks
                WITH Nobody <- None,
                     running <- IF running = Main THEN None ELSE running
ImplementsCallbacks == Abstract!Spec

\* Whatever is scheduled, except an immediate, is called or cancelled in the
\* end, or a promise job throws: no timer is lost by the passes, the clock or
\* the waiting for workers, and none by a callback that schedules others.
Pending(c) == kind[c] \in Kinds \ {"immediate"} /\ status[c] = "once"
EverythingRuns ==
    \A c \in Callback : Pending(c) ~> ~Pending(c) \/ failed

\* --- What comments of the code say of it, and runs refute. ---

\* "It is safe to delete items from the list while using this iterator."
\* (sc_list.h:167): no callback can make a pass touch freed memory.
NoMemoryFault == phase # "fault"

\* "min_delay is 0 when the queue is empty" (event_queue.c:202): 0 is the
\* value that tells pool_arriving_events there is no timer to wake up for.
ZeroDelayMeansNoTimer ==
    phase = "poll" /\ minDelay = 0 => queue["timeout"] = <<>>
=============================================================================
