-------------------------- MODULE EventLoopProofs --------------------------
(***************************************************************************)
(* For any callbacks, addresses and delays: the entries of the heap are    *)
(* the entries of the queues, passes stay in their queues, timers are      *)
(* neither early nor passed over, and the loop implements Callbacks.  What *)
(* rests on the discipline of a careful script assumes it.                 *)
(***************************************************************************)
EXTENDS EventLoop, ListOpsProofs, FiniteSetTheorems

Live == {"once", "repeating"}

\* HeapIsQueued, said of one address at a time.
HeapInv ==
    /\ \A q \in Queues : NoRepeat(queue[q])
    /\ \A q \in Queues : \A a \in ToSet(queue[q]) :
          heap[a] # None /\ id[heap[a]] = a /\ QueueOf(kind[heap[a]]) = q
    /\ \A a \in Addr : heap[a] # None =>
          \E q \in Queues : a \in ToSet(queue[q])

\* A callback is alive exactly as long as its entry is, and its entry repeats
\* exactly if the callback does, as only intervals do.
LifeInv ==
    /\ \A c \in Callback : kind[c] = "none" <=> status[c] = "idle"
    /\ \A a \in Addr : heap[a] # None =>
          status[heap[a]] = IF interval[heap[a]] > 0 THEN "repeating" ELSE "once"
    /\ \A c \in Callback : status[c] \in Live /\ kind[c] # "job" =>
          id[c] \in Addr /\ heap[id[c]] = c
    /\ \A c \in Callback : interval[c] > 0 => kind[c] = "interval"

\* The jobs are waiting, once each; the one that runs has left the queue.
JobsInv ==
    /\ NoRepeat(jobs)
    /\ \A c \in ToSet(jobs) : kind[c] = "job" /\ status[c] = "once"
    /\ \A c \in Callback : kind[c] = "job" /\ status[c] \in Live =>
          c \in ToSet(jobs) \/ (phase = "jobs" /\ running = c)
    /\ phase = "jobs" /\ running # None =>
          /\ kind[running] = "job" /\ status[running] = "once"
          /\ running \notin ToSet(jobs)

\* Who runs where.  No pass ever lets min_delay be anything but 0.
ControlInv ==
    /\ phase = "script" <=> running = Main
    /\ phase \in {"decide", "poll", "done"} => running = None
    /\ phase \in Queues /\ it = None => running = None
    /\ phase \notin Queues \cup {"fault"} => it = None
    /\ running \in Callback => kind[running] # "none"
    /\ minDelay = 0
    /\ nowMsec <= now
    /\ phase = "timeout" /\ running # None => when[running] <= nowMsec

\* The queue of the pass cannot lose the entries the pass relies on: no script
\* is running, or none that could clear them.
Steady == running = None \/ phase \in {"tick", "generic"} \/ Careful

CursorInv ==
    /\ phase = "fault" => ~Careful
    /\ InPass /\ Steady =>
          /\ it \in ToSet(queue[phase])
          /\ \/ tmp = Sentinel
             \/ /\ tmp \in ToSet(queue[phase])
                /\ Position(queue[phase], tmp) = Position(queue[phase], it) + 1
          /\ running # None => running = heap[it]

\* What a pass has done and what it has left.
OrderInv ==
    /\ InPass /\ phase = "timeout" =>
          \A a \in ToSet(queue["timeout"]) :
             Position(queue["timeout"], a) < Position(queue["timeout"], it)
                => when[heap[a]] > nowMsec
    /\ InPass /\ phase \in {"tick", "immediate"} => Position(queue[phase], it) = 1
    /\ InPass /\ phase = "immediate" /\ tmp = Sentinel =>
          \A a \in ToSet(queue["immediate"]) \ {it} :
             running # None /\ by[heap[a]] = running
    /\ OnlyLastImmediatesWait

\* What the loop has made sure of before it ends.
ExitInv ==
    phase = "done" /\ ~failed =>
        /\ jobs = <<>>
        /\ \A q \in Queues \ {"immediate"} : queue[q] = <<>>

\* The inductive invariant.
IInv ==
    /\ TypeOK
    /\ HeapInv
    /\ LifeInv
    /\ JobsInv
    /\ ControlInv
    /\ CursorInv
    /\ ExitInv
    /\ Careful => OrderInv

-----------------------------------------------------------------------------
(* Facts about the state.                                                  *)

\* The queue of each kind of entry.
LEMMA QueueOfFacts ==
    /\ QueueOf("none") \notin Queues /\ QueueOf("job") \notin Queues
    /\ \A k \in {"tick", "timeout", "interval", "generic", "macro", "immediate"} :
          QueueOf(k) \in Queues
    /\ \A k : QueueOf(k) = "tick" => k = "tick"
    /\ \A k : QueueOf(k) = "immediate" => k = "immediate"
  BY DEF QueueOf, Queues

\* The entry of an address in a queue.
LEMMA EntryFacts ==
    ASSUME EventLoopAssumption, TypeOK, HeapInv, NEW q \in Queues, NEW a \in ToSet(queue[q])
    PROVE  /\ a \in Addr /\ a # None /\ a # Sentinel
           /\ heap[a] \in Callback /\ heap[a] # None
           /\ id[heap[a]] = a
           /\ QueueOf(kind[heap[a]]) = q
           /\ kind[heap[a]] \notin {"none", "job"}
           /\ \A p \in Queues : a \in ToSet(queue[p]) => p = q
<1>1. a \in Addr
  BY DEF TypeOK, ToSet
<1>2. heap[a] # None /\ id[heap[a]] = a /\ QueueOf(kind[heap[a]]) = q
  BY DEF HeapInv
<1>3. heap[a] \in Callback
  BY <1>1, <1>2 DEF TypeOK
<1>4. kind[heap[a]] \notin {"none", "job"}
  BY <1>2, QueueOfFacts
<1>5. ASSUME NEW p \in Queues, a \in ToSet(queue[p]) PROVE p = q
  BY <1>2, <1>5 DEF HeapInv
<1> QED BY <1>1, <1>2, <1>3, <1>4, <1>5 DEF EventLoopAssumption

\* A callback that has not been scheduled has no entry and does not run.
LEMMA UnscheduledFacts ==
    ASSUME EventLoopAssumption, TypeOK, HeapInv, JobsInv, ControlInv,
           NEW c \in Callback, kind[c] = "none"
    PROVE  /\ \A a \in Addr : heap[a] # c
           /\ c \notin ToSet(jobs)
           /\ running # c
<1>1. ASSUME NEW a \in Addr, heap[a] = c PROVE FALSE
  <2>1. PICK q \in Queues : a \in ToSet(queue[q])
    BY <1>1 DEF HeapInv, EventLoopAssumption
  <2>2. kind[c] \notin {"none", "job"}
    BY <1>1, <2>1, EntryFacts
  <2> QED BY <2>2
<1> QED BY <1>1 DEF JobsInv, ControlInv

\* It holds before the script has run.
LEMMA InitIInv == ASSUME EventLoopAssumption PROVE Init => IInv
<1> SUFFICES ASSUME Init PROVE IInv
  OBVIOUS
<1>1. TypeOK
  <2>1. queue \in [Queues -> Seq(Addr)] /\ jobs \in Seq(Callback)
    BY DEF Init
  <2>2. /\ heap \in [Addr -> Callback \cup {None}]
        /\ id \in [Callback -> Addr \cup {None}]
        /\ kind \in [Callback -> Kinds \cup {"none"}]
        /\ by \in [Callback -> Callback \cup {Main, None}]
    BY DEF Init
  <2>3. /\ when \in [Callback -> Nat] /\ interval \in [Callback -> Nat]
        /\ status \in [Callback -> {"idle", "once", "repeating", "cancelled", "over"}]
    BY DEF Init
  <2> QED BY <2>1, <2>2, <2>3 DEF Init, TypeOK
<1>2. \A q \in Queues : ToSet(queue[q]) = {} /\ NoRepeat(queue[q])
  BY DEF Init, ToSet, NoRepeat
<1>3. ToSet(jobs) = {} /\ NoRepeat(jobs)
  BY DEF Init, ToSet, NoRepeat
<1>4. HeapInv
  BY <1>2 DEF Init, HeapInv
<1>5. LifeInv /\ JobsInv
  BY <1>3 DEF Init, LifeInv, JobsInv, Live
<1>6. ControlInv
  BY DEF Init, ControlInv, Queues, EventLoopAssumption
<1>7. CursorInv /\ ExitInv /\ OrderInv
  BY DEF Init, CursorInv, ExitInv, OrderInv, OnlyLastImmediatesWait, InPass, Queues
<1> QED BY <1>1, <1>4, <1>5, <1>6, <1>7 DEF IInv

-----------------------------------------------------------------------------
(* The API keeps the invariant.                                            *)

\* An entry at the tail of its queue, by whichever function.
LEMMA PushKeeps ==
    ASSUME EventLoopAssumption, IInv, NEW c \in Callback,
           NEW k \in {"tick", "timeout", "interval", "generic", "macro", "immediate"},
           NEW at \in Nat, NEW repeat \in Nat, repeat > 0 => k = "interval",
           Schedule(c, k, IF repeat > 0 THEN "repeating" ELSE "once"),
           Push(c, k, at, repeat), UNCHANGED jobs, done' \in SUBSET Callback
    PROVE  IInv'
<1> USE DEF IInv
<1> DEFINE Q == QueueOf(k)
<1>0. PICK a \in Addr :
         /\ heap[a] = None
         /\ heap' = [heap EXCEPT ![a] = c]
         /\ id' = [id EXCEPT ![c] = a]
         /\ when' = [when EXCEPT ![c] = at]
         /\ interval' = [interval EXCEPT ![c] = repeat]
         /\ queue' = [queue EXCEPT ![Q] = Append(@, a)]
  BY DEF Push
<1>1. /\ kind[c] = "none" /\ running # None /\ phase # "fault"
      /\ k \in Kinds
      /\ kind' = [kind EXCEPT ![c] = k] /\ by' = [by EXCEPT ![c] = running]
      /\ status' = [status EXCEPT ![c] = IF repeat > 0 THEN "repeating" ELSE "once"]
      /\ UNCHANGED <<phase, running, it, tmp, clock, failed>>
  BY DEF Schedule, InScript
<1>2. /\ \A b \in Addr : heap[b] # c
      /\ c \notin ToSet(jobs)
      /\ running # c
  BY <1>1, UnscheduledFacts
<1>3. Q \in Queues
  BY QueueOfFacts
<1>4. \A q \in Queues : a \notin ToSet(queue[q])
  BY <1>0, EntryFacts
<1>5. /\ queue'[Q] \in Seq(Addr) /\ NoRepeat(queue'[Q])
      /\ ToSet(queue'[Q]) = ToSet(queue[Q]) \cup {a}
      /\ \A x \in ToSet(queue[Q]) : Position(queue'[Q], x) = Position(queue[Q], x)
      /\ \A x \in ToSet(queue[Q]) : Position(queue'[Q], x) < Position(queue'[Q], a)
      /\ \A q \in Queues \ {Q} : queue'[q] = queue[q]
  <2>1. queue[Q] \in Seq(Addr) /\ NoRepeat(queue[Q]) /\ a \notin ToSet(queue[Q])
    BY <1>3, <1>4 DEF TypeOK, HeapInv
  <2>2. queue'[Q] = Append(queue[Q], a) /\ \A q \in Queues \ {Q} : queue'[q] = queue[q]
    BY <1>0, <1>3 DEF TypeOK
  <2>3. \A x \in ToSet(queue[Q]) : Position(queue[Q], x) \in 1 .. Len(queue[Q])
    BY <2>1, PositionFacts
  <2> HIDE DEF Q
  <2> QED BY <2>1, <2>2, <2>3, AppendFacts, AppendPosition
<1> HIDE DEF Q
<1>6. TypeOK'
  BY <1>0, <1>1, <1>3, <1>5 DEF TypeOK, clock
<1>7. HeapInv'
  <2>1. \A q \in Queues : NoRepeat(queue'[q])
    BY <1>5 DEF HeapInv
  <2>2. ASSUME NEW q \in Queues, NEW b \in ToSet(queue'[q])
        PROVE  heap'[b] # None /\ id'[heap'[b]] = b /\ QueueOf(kind'[heap'[b]]) = q
    <3>1. CASE b = a
      <4>1. q = Q
        BY <1>4, <1>5, <2>2, <3>1
      <4>2. heap'[a] = c /\ id'[c] = a /\ kind'[c] = k /\ c # None
        BY <1>0, <1>1 DEF TypeOK, EventLoopAssumption
      <4> QED BY <3>1, <4>1, <4>2 DEF Q
    <3>2. CASE b # a
      <4>1. b \in ToSet(queue[q])
        BY <1>5, <2>2, <3>2
      <4>2. /\ b \in Addr /\ heap[b] \in Callback /\ heap[b] # None
            /\ id[heap[b]] = b /\ QueueOf(kind[heap[b]]) = q
        BY <4>1, EntryFacts
      <4>3. heap'[b] = heap[b] /\ heap[b] # c
        BY <1>0, <1>2, <3>2, <4>2 DEF TypeOK
      <4> QED BY <1>0, <1>1, <4>2, <4>3 DEF TypeOK
    <3> QED BY <3>1, <3>2
  <2>3. ASSUME NEW b \in Addr, heap'[b] # None
        PROVE  \E q \in Queues : b \in ToSet(queue'[q])
    <3>1. CASE b = a
      BY <1>3, <1>5, <3>1
    <3>2. CASE b # a
      BY <1>0, <1>5, <2>3, <3>2, ZenonT(30) DEF TypeOK, HeapInv
    <3> QED BY <3>1, <3>2
  <2> QED BY <2>1, <2>2, <2>3 DEF HeapInv
<1>8. LifeInv'
  BY <1>0, <1>1, <1>2 DEF LifeInv, TypeOK, Live
<1>9. JobsInv'
  BY <1>0, <1>1, <1>2 DEF JobsInv, TypeOK, ToSet
<1>10. ControlInv'
  BY <1>0, <1>1, <1>2 DEF ControlInv, TypeOK, clock
<1>11. ASSUME InPass, Steady
       PROVE  it \in ToSet(queue[phase]) /\ it \in Addr /\ it # a /\ phase \in Queues
  <2>1. phase \in Queues /\ it \in ToSet(queue[phase])
    BY <1>11 DEF InPass, CursorInv
  <2> QED BY <1>4, <2>1, EntryFacts
<1>12. CursorInv'
  <2>1. InPass' = InPass /\ Steady' = Steady /\ phase' = phase /\ it' = it /\ tmp' = tmp
    BY <1>1 DEF InPass, Steady
  <2>2. ASSUME InPass, Steady
        PROVE  /\ it \in ToSet(queue'[phase])
               /\ \/ tmp = Sentinel
                  \/ /\ tmp \in ToSet(queue'[phase])
                     /\ Position(queue'[phase], tmp) = Position(queue'[phase], it) + 1
               /\ running = heap'[it]
    <3>1. CASE phase = Q
      BY <1>0, <1>1, <1>5, <1>11, <2>2, <3>1 DEF CursorInv, TypeOK
    <3>2. CASE phase # Q
      BY <1>0, <1>1, <1>5, <1>11, <2>2, <3>2 DEF CursorInv, TypeOK
    <3> QED BY <3>1, <3>2
  <2> QED BY <1>1, <2>1, <2>2 DEF CursorInv
<1>13. ExitInv'
  BY <1>1 DEF ExitInv, ControlInv
<1>14. ASSUME Careful PROVE OrderInv'
  <2>0. Steady /\ InPass' = InPass /\ OrderInv
    BY <1>1, <1>14 DEF Steady, InPass
  <2>1. ASSUME InPass, NEW x \in ToSet(queue[phase])
        PROVE  /\ x \in ToSet(queue'[phase]) /\ x \in Addr
               /\ Position(queue'[phase], x) = Position(queue[phase], x)
               /\ heap'[x] = heap[x] /\ heap[x] # c /\ heap[x] \in Callback
    <3>1. phase \in Queues
      BY <2>1 DEF InPass
    <3>2. x \in Addr /\ x # a /\ heap[x] \in Callback
      BY <1>4, <2>1, <3>1, EntryFacts
    <3> QED BY <1>0, <1>2, <1>5, <2>1, <3>1, <3>2 DEF TypeOK
  <2>2. ASSUME InPass, NEW x \in ToSet(queue'[phase]), x \notin ToSet(queue[phase])
        PROVE  x = a /\ phase = Q
    BY <1>5, <2>2 DEF InPass
  <2>3. ASSUME InPass, phase = "timeout", NEW x \in ToSet(queue'["timeout"]),
               Position(queue'["timeout"], x) < Position(queue'["timeout"], it)
        PROVE  when'[heap'[x]] > nowMsec
    <3>1. it \in ToSet(queue["timeout"])
      BY <1>11, <2>0, <2>3
    <3>2. x \in ToSet(queue["timeout"])
      <4> SUFFICES ASSUME x \notin ToSet(queue["timeout"]) PROVE FALSE
        OBVIOUS
      <4>1. x = a /\ phase = Q
        BY <2>2, <2>3
      <4>2. Position(queue'["timeout"], it) < Position(queue'["timeout"], x)
        BY <1>5, <2>3, <3>1, <4>1
      <4>3. /\ Position(queue'["timeout"], it) \in Nat
            /\ Position(queue'["timeout"], x) \in Nat
        <5>1. queue'["timeout"] \in Seq(Addr) /\ NoRepeat(queue'["timeout"])
          BY <1>5, <2>3, <4>1
        <5>2. it \in ToSet(queue'["timeout"])
          BY <2>1, <2>3, <3>1
        <5> QED BY <2>3, <5>1, <5>2, PositionFacts
      <4> QED BY <2>3, <4>2, <4>3
    <3>3. Position(queue["timeout"], x) < Position(queue["timeout"], it)
      BY <2>1, <2>3, <3>1, <3>2
    <3>4. when[heap[x]] > nowMsec
      BY <2>0, <2>3, <3>2, <3>3 DEF OrderInv
    <3>5. heap'[x] = heap[x] /\ heap[x] # c /\ heap[x] \in Callback
      BY <2>1, <2>3, <3>2
    <3> QED BY <1>0, <3>4, <3>5 DEF TypeOK
  <2>4. ASSUME InPass, phase \in {"tick", "immediate"}
        PROVE  Position(queue'[phase], it) = 1
    BY <1>11, <2>0, <2>1, <2>4 DEF OrderInv
  <2>5. ASSUME InPass, phase = "immediate", tmp = Sentinel,
               NEW x \in ToSet(queue'["immediate"]) \ {it}
        PROVE  running # None /\ by'[heap'[x]] = running
    <3>1. CASE x \in ToSet(queue["immediate"])
      <4>1. by[heap[x]] = running
        BY <2>0, <2>5, <3>1 DEF OrderInv
      <4> QED BY <1>1, <2>1, <2>5, <3>1, <4>1 DEF TypeOK
    <3>2. CASE x \notin ToSet(queue["immediate"])
      <4>1. heap'[x] = c
        BY <1>0, <2>2, <2>5, <3>2 DEF TypeOK
      <4> QED BY <1>1, <4>1 DEF TypeOK
    <3> QED BY <3>1, <3>2
  <2>6. OnlyLastImmediatesWait'
    BY <1>1 DEF OnlyLastImmediatesWait, ControlInv
  <2> QED BY <1>1, <2>0, <2>3, <2>4, <2>5, <2>6 DEF OrderInv, clock
<1> QED BY <1>6, <1>7, <1>8, <1>9, <1>10, <1>12, <1>13, <1>14

\* Each of the functions that schedule, a promise's settling included.
LEMMA ScheduleKeeps ==
    ASSUME EventLoopAssumption, IInv, NEW c \in Callback,
           \/ setTimeout(c) \/ setInterval(c) \/ setImmediate(c)
           \/ nextTick(c) \/ pseudo_marco(c) \/ AsyncCall(c)
    PROVE  IInv'
<1>0. done \in SUBSET Callback /\ now \in Nat
  BY DEF IInv, TypeOK
<1>1. CASE setTimeout(c)
  <2>1. PICK d \in Delays : Push(c, "timeout", now + d, 0)
    BY <1>1 DEF setTimeout
  <2>2. now + d \in Nat
    BY <1>0 DEF EventLoopAssumption
  <2> QED BY <1>0, <1>1, <2>1, <2>2, PushKeeps DEF setTimeout
<1>2. CASE setInterval(c)
  <2>1. PICK d \in Delays :
           /\ Schedule(c, "interval", IF d > 0 THEN "repeating" ELSE "once")
           /\ Push(c, "interval", now + d, d)
           /\ UNCHANGED <<jobs, done>>
    BY <1>2 DEF setInterval
  <2>2. now + d \in Nat /\ d \in Nat
    BY <1>0 DEF EventLoopAssumption
  <2> QED BY <1>0, <2>1, <2>2, PushKeeps
<1>3. CASE setImmediate(c)
  BY <1>0, <1>3, PushKeeps DEF setImmediate, Whenever
<1>4. CASE nextTick(c)
  BY <1>0, <1>4, PushKeeps DEF nextTick, Whenever
<1>5. CASE pseudo_marco(c)
  BY <1>0, <1>5, PushKeeps DEF pseudo_marco, Whenever
<1>6. CASE AsyncCall(c)
  BY <1>0, <1>6, PushKeeps DEF AsyncCall, Whenever
<1> QED BY <1>1, <1>2, <1>3, <1>4, <1>5, <1>6

\* A promise job goes to the job queue and to no other.
LEMMA EnqueueJobKeeps ==
    ASSUME EventLoopAssumption, IInv, NEW c \in Callback, EnqueueJob(c)
    PROVE  IInv'
<1> USE DEF IInv
<1>1. /\ kind[c] = "none" /\ running # None /\ phase # "fault" /\ "job" \in Kinds
      /\ kind' = [kind EXCEPT ![c] = "job"] /\ by' = [by EXCEPT ![c] = running]
      /\ status' = [status EXCEPT ![c] = "once"]
      /\ jobs' = Append(jobs, c)
      /\ UNCHANGED <<phase, running, it, tmp, clock, failed>>
      /\ UNCHANGED <<queue, heap, id, when, interval, done>>
  BY DEF EnqueueJob, Schedule, InScript
<1>2. /\ \A a \in Addr : heap[a] # c
      /\ c \notin ToSet(jobs)
      /\ running # c
  BY <1>1, UnscheduledFacts
<1>3. jobs' \in Seq(Callback) /\ NoRepeat(jobs') /\ ToSet(jobs') = ToSet(jobs) \cup {c}
  BY <1>1, <1>2, AppendFacts DEF TypeOK, JobsInv
<1>4. ASSUME NEW q \in Queues, NEW b \in ToSet(queue[q])
      PROVE  b \in Addr /\ heap[b] \in Callback /\ heap[b] # c
  BY <1>2, EntryFacts
<1>5. TypeOK'
  BY <1>1, <1>3 DEF TypeOK, clock
<1>6. HeapInv'
  BY <1>1, <1>4 DEF HeapInv, TypeOK
<1>7. LifeInv'
  BY <1>1, <1>2 DEF LifeInv, TypeOK, Live
<1>8. JobsInv'
  <2>1. ToSet(jobs) \subseteq Callback
    BY DEF TypeOK, ToSet
  <2> QED BY <1>1, <1>2, <1>3, <2>1 DEF JobsInv, TypeOK, ControlInv
<1>9. ControlInv'
  BY <1>1, <1>2 DEF ControlInv, TypeOK, clock
<1>10. CursorInv'
  BY <1>1 DEF CursorInv, InPass, Steady
<1>11. ExitInv'
  BY <1>1 DEF ExitInv, ControlInv
<1>12. ASSUME Careful PROVE OrderInv'
  <2>1. OnlyLastImmediatesWait'
    BY <1>1 DEF OnlyLastImmediatesWait, ControlInv
  <2>2. "immediate" \in Queues
    BY DEF Queues
  <2>3. \A b \in ToSet(queue["immediate"]) : by'[heap[b]] = by[heap[b]]
    BY <1>1, <1>4, <2>2 DEF TypeOK
  <2> QED BY <1>1, <1>12, <2>1, <2>3 DEF OrderInv, InPass, clock
<1> QED BY <1>5, <1>6, <1>7, <1>8, <1>9, <1>10, <1>11, <1>12

\* What a step that takes the entry at a out of queue q leaves.
Removed(q, a) ==
    /\ queue' \in [Queues -> Seq(Addr)]
    /\ heap' \in [Addr -> Callback \cup {None}]
    /\ status' \in [Callback -> {"idle", "once", "repeating", "cancelled", "over"}]
    /\ ToSet(queue'[q]) = ToSet(queue[q]) \ {a}
    /\ \A x \in ToSet(queue'[q]) :
          Position(queue'[q], x) = IF Position(queue[q], x) < Position(queue[q], a)
                                   THEN Position(queue[q], x)
                                   ELSE Position(queue[q], x) - 1
    /\ \A p \in Queues \ {q} : queue'[p] = queue[p]
    /\ \A p \in Queues : \A b \in ToSet(queue'[p]) :
          /\ b \in ToSet(queue[p]) /\ b # a
          /\ heap'[b] = heap[b] /\ heap[b] # heap[a] /\ heap[b] \in Callback
    /\ \A c \in Callback : kind[c] = "job" => status'[c] = status[c]
    /\ HeapInv'
    /\ LifeInv'

\* An entry is unlinked and freed, and its callback is no longer alive.
LEMMA RemoveKeeps ==
    ASSUME EventLoopAssumption, TypeOK, HeapInv, LifeInv,
           NEW q \in Queues, NEW a \in ToSet(queue[q]), NEW end \in {"cancelled", "over"},
           queue' = [queue EXCEPT ![q] = Unlink(@, a)],
           heap' = [heap EXCEPT ![a] = None],
           status' = [status EXCEPT ![heap[a]] = end],
           UNCHANGED <<kind, id, interval>>
    PROVE  Removed(q, a)
<1> DEFINE d == heap[a]
<1>1. /\ a \in Addr /\ d \in Callback /\ d # None /\ id[d] = a
      /\ QueueOf(kind[d]) = q /\ kind[d] \notin {"none", "job"}
      /\ \A p \in Queues : a \in ToSet(queue[p]) => p = q
  BY EntryFacts
<1>2. status' = [status EXCEPT ![d] = end]
  OBVIOUS
<1> HIDE DEF d
<1>3. /\ queue'[q] \in Seq(Addr) /\ NoRepeat(queue'[q])
      /\ ToSet(queue'[q]) = ToSet(queue[q]) \ {a}
      /\ \A x \in ToSet(queue[q]) \ {a} :
            Position(queue'[q], x) = IF Position(queue[q], x) < Position(queue[q], a)
                                     THEN Position(queue[q], x)
                                     ELSE Position(queue[q], x) - 1
      /\ \A p \in Queues \ {q} : queue'[p] = queue[p]
  <2>1. /\ queue[q] \in Seq(Addr) /\ NoRepeat(queue[q])
        /\ queue'[q] = Unlink(queue[q], a)
        /\ \A p \in Queues \ {q} : queue'[p] = queue[p]
    BY DEF TypeOK, HeapInv
  <2> QED BY <2>1, UnlinkFacts, UnlinkPositions
<1>4. ASSUME NEW p \in Queues, NEW b \in ToSet(queue'[p])
      PROVE  /\ b \in ToSet(queue[p]) /\ b # a /\ b \in Addr
             /\ heap'[b] = heap[b] /\ heap[b] # d /\ heap[b] \in Callback
  <2>1. b \in ToSet(queue[p]) /\ b # a
    BY <1>1, <1>3, <1>4
  <2>2. b \in Addr /\ heap[b] \in Callback /\ id[heap[b]] = b
    BY <2>1, EntryFacts
  <2> QED BY <1>1, <2>1, <2>2 DEF TypeOK
<1>5. /\ queue' \in [Queues -> Seq(Addr)]
      /\ heap' \in [Addr -> Callback \cup {None}]
      /\ status' \in [Callback -> {"idle", "once", "repeating", "cancelled", "over"}]
  <2>1. queue' \in [Queues -> Seq(Addr)]
    BY <1>3 DEF TypeOK
  <2>2. heap' \in [Addr -> Callback \cup {None}]
    BY DEF TypeOK
  <2>3. status' \in [Callback -> {"idle", "once", "repeating", "cancelled", "over"}]
    BY <1>2 DEF TypeOK
  <2> QED BY <2>1, <2>2, <2>3
<1>6. HeapInv'
  <2>1. \A p \in Queues : NoRepeat(queue'[p])
    BY <1>3 DEF HeapInv
  <2>2. \A p \in Queues : \A b \in ToSet(queue'[p]) :
           heap'[b] # None /\ id'[heap'[b]] = b /\ QueueOf(kind'[heap'[b]]) = p
    BY <1>4 DEF HeapInv
  <2>3. ASSUME NEW b \in Addr, heap'[b] # None
        PROVE  \E p \in Queues : b \in ToSet(queue'[p])
    BY <1>1, <1>3, <2>3 DEF TypeOK, HeapInv
  <2> QED BY <2>1, <2>2, <2>3 DEF HeapInv
<1>7. \A b \in Addr : b # a /\ heap[b] # None => heap[b] # d
  <2> SUFFICES ASSUME NEW b \in Addr, heap[b] = d PROVE b = a
    OBVIOUS
  <2>1. PICK p \in Queues : b \in ToSet(queue[p])
    BY <1>1 DEF HeapInv
  <2> QED BY <1>1, <2>1, EntryFacts
<1>8. LifeInv'
  <2>1. status[d] \in Live
    BY <1>1 DEF LifeInv, Live, d
  <2> QED BY <1>1, <1>2, <1>7, <2>1 DEF LifeInv, TypeOK, Live
<1>9. \A c \in Callback : kind[c] = "job" => status'[c] = status[c]
  BY <1>1, <1>2 DEF TypeOK
<1> QED BY <1>3, <1>4, <1>5, <1>6, <1>8, <1>9 DEF d, Removed

\* Clearing, whatever the id names by now.
LEMMA ClearKeeps ==
    ASSUME EventLoopAssumption, IInv, NEW c \in Callback,
           NEW q \in {"timeout", "immediate"}, Clear(c, q)
    PROVE  IInv'
<1> USE DEF IInv
<1>1. CASE id[c] \notin ToSet(queue[q])
  <2>1. UNCHANGED vars
    BY <1>1 DEF Clear, vars
  <2> QED
    BY <2>1 DEF vars, entries, clock, TypeOK, HeapInv, LifeInv, JobsInv, ControlInv,
                CursorInv, ExitInv, OrderInv, OnlyLastImmediatesWait, InPass, Steady
<1>2. CASE id[c] \in ToSet(queue[q])
  <2> DEFINE a == id[c]
  <2>1. /\ running # None /\ phase # "fault"
        /\ Careful /\ InPass => a # it /\ a # tmp
        /\ queue' = [queue EXCEPT ![q] = Unlink(@, a)]
        /\ heap' = [heap EXCEPT ![a] = None]
        /\ status' = [status EXCEPT ![heap[a]] = "cancelled"]
        /\ UNCHANGED <<phase, running, it, tmp, jobs, clock, entries, done, by, failed>>
    BY <1>2 DEF Clear, InScript, MayClear
  <2>2. q \in Queues /\ a \in ToSet(queue[q])
    BY <1>2 DEF Queues
  <2> HIDE DEF a
  <2>3. Removed(q, a)
    BY <2>1, <2>2, RemoveKeeps DEF entries
  <2>4. TypeOK'
    BY <2>1, <2>3 DEF TypeOK, clock, entries, Removed
  <2>5. JobsInv'
    <3>1. ToSet(jobs) \subseteq Callback
      BY DEF TypeOK, ToSet
    <3> QED BY <2>1, <2>3, <3>1 DEF JobsInv, TypeOK, entries, ControlInv, Removed
  <2>6. ControlInv'
    BY <2>1 DEF ControlInv, clock, entries
  <2>7. ASSUME InPass, Steady
        PROVE  /\ phase \in Queues /\ it \in ToSet(queue'[phase])
               /\ running = heap'[it]
               /\ phase = q => tmp # a
    <3>1. phase \in Queues /\ it \in ToSet(queue[phase]) /\ running = heap[it]
      BY <2>1, <2>7 DEF InPass, CursorInv
    <3>2. phase = q => a # it /\ a # tmp
      BY <2>1, <2>7 DEF Steady
    <3>3. it \in ToSet(queue'[phase])
      BY <2>3, <3>1, <3>2 DEF Removed
    <3> QED BY <2>3, <3>1, <3>2, <3>3 DEF Removed
  <2>8. ASSUME InPass, NEW x \in ToSet(queue'[phase])
        PROVE  /\ x \in ToSet(queue[phase]) /\ heap'[x] = heap[x]
               /\ Position(queue[phase], x) \in Nat
               /\ \/ phase # q /\ Position(queue'[phase], x) = Position(queue[phase], x)
                  \/ /\ phase = q
                     /\ Position(queue[q], a) \in Nat
                     /\ Position(queue[q], x) # Position(queue[q], a)
                     /\ Position(queue'[q], x)
                           = IF Position(queue[q], x) < Position(queue[q], a)
                             THEN Position(queue[q], x)
                             ELSE Position(queue[q], x) - 1
    <3>1. /\ phase \in Queues /\ queue[phase] \in Seq(Addr) /\ NoRepeat(queue[phase])
          /\ x \in ToSet(queue[phase]) /\ x # a /\ heap'[x] = heap[x]
      BY <2>3, <2>8 DEF InPass, TypeOK, HeapInv, Removed
    <3>2. Position(queue[phase], x) \in Nat
      BY <3>1, PositionFacts
    <3>3. CASE phase = q
      <4>1. Position(queue[q], a) \in Nat /\ Position(queue[q], x) # Position(queue[q], a)
        BY <2>2, <3>1, <3>3, PositionFacts, PositionInjective
      <4> QED BY <2>3, <2>8, <3>1, <3>2, <3>3, <4>1 DEF Removed
    <3> QED BY <2>3, <3>1, <3>2, <3>3 DEF Removed
  <2>9. CursorInv'
    <3>1. InPass' = InPass /\ Steady' = Steady
      BY <2>1 DEF InPass, Steady
    <3>2. ASSUME InPass, Steady, tmp # Sentinel
          PROVE  /\ tmp \in ToSet(queue'[phase])
                 /\ Position(queue'[phase], tmp) = Position(queue'[phase], it) + 1
      <4>1. /\ tmp \in ToSet(queue[phase])
            /\ Position(queue[phase], tmp) = Position(queue[phase], it) + 1
        BY <3>2 DEF CursorInv
      <4>2. tmp \in ToSet(queue'[phase]) /\ it \in ToSet(queue'[phase])
        BY <2>3, <2>7, <3>2, <4>1 DEF Removed
      <4> QED BY <2>8, <3>2, <4>1, <4>2
    <3> QED BY <2>1, <2>7, <3>1, <3>2 DEF CursorInv
  <2>10. ExitInv'
    BY <2>1 DEF ExitInv, ControlInv
  <2>11. ASSUME Careful PROVE OrderInv'
    <3>0. Steady /\ InPass' = InPass /\ OrderInv
      BY <2>1, <2>11 DEF Steady, InPass
    <3>1. OnlyLastImmediatesWait'
      BY <2>1 DEF OnlyLastImmediatesWait, ControlInv
    <3>2. ASSUME InPass, phase \in {"tick", "immediate"}
          PROVE  Position(queue'[phase], it) = 1
      <4>1. it \in ToSet(queue'[phase]) /\ phase \in Queues
        BY <2>7, <3>0, <3>2
      <4>2. Position(queue[phase], it) = 1
        BY <3>0, <3>2 DEF OrderInv
      <4>3. queue'[phase] \in Seq(Addr) /\ NoRepeat(queue'[phase])
        BY <2>3, <4>1 DEF HeapInv, Removed
      <4>4. Position(queue'[phase], it) \in 1 .. Len(queue'[phase])
        BY <4>1, <4>3, PositionFacts
      <4> QED BY <2>8, <3>2, <4>1, <4>2, <4>4
    <3>3. ASSUME InPass, phase = "timeout", NEW x \in ToSet(queue'["timeout"]),
                 Position(queue'["timeout"], x) < Position(queue'["timeout"], it)
          PROVE  when[heap'[x]] > nowMsec
      <4>1. it \in ToSet(queue'["timeout"])
        BY <2>7, <3>0, <3>3
      <4>2. Position(queue["timeout"], x) < Position(queue["timeout"], it)
        BY <2>8, <3>3, <4>1
      <4> QED BY <2>8, <3>0, <3>3, <4>2 DEF OrderInv
    <3>4. ASSUME InPass, phase = "immediate", tmp = Sentinel,
                 NEW x \in ToSet(queue'["immediate"]) \ {it}
          PROVE  running # None /\ by[heap'[x]] = running
      BY <2>8, <3>0, <3>4 DEF OrderInv
    <3> QED BY <2>1, <3>0, <3>1, <3>2, <3>3, <3>4 DEF OrderInv, clock, entries
  <2> QED BY <2>3, <2>4, <2>5, <2>6, <2>9, <2>10, <2>11 DEF Removed
<1> QED BY <1>1, <1>2

-----------------------------------------------------------------------------
(* The passes keep the invariant.                                          *)

\* The order of the phases.
LEMMA PhaseAfterFacts ==
    /\ PhaseAfter("tick") = "jobs"
    /\ PhaseAfter("timeout") = "generic"
    /\ PhaseAfter("generic") = "immediate"
    /\ PhaseAfter("immediate") = "decide"
  BY DEF PhaseAfter

\* Where a pass goes.  Only the pass of a careful script is certain to find the
\* entry it has saved.
LEMMA StopAtKeeps ==
    ASSUME EventLoopAssumption, NEW q \in Queues, NEW n, TypeOK, phase = q,
           queue'[q] \in Seq(Addr), NoRepeat(queue'[q]),
           n = Sentinel \/ n \in ToSet(queue'[q]) \/ ~Careful,
           StopAt(q, queue'[q], n), running' = None
    PROVE  /\ phase' \in Queues \cup {"jobs", "decide", "fault"}
           /\ it' \in Addr \cup {None} /\ tmp' \in Addr \cup {Sentinel, None}
           /\ phase' \in {"jobs", "decide"} => it' = None
           /\ phase' = "fault" => n # Sentinel /\ n \notin ToSet(queue'[q])
           /\ CursorInv'
<1> DEFINE s == queue'[q]
<1>1. CASE n = Sentinel
  <2>1. phase' = PhaseAfter(q) /\ it' = None /\ tmp' = None
    BY <1>1 DEF StopAt
  <2>2. PhaseAfter(q) \in Queues \cup {"jobs", "decide"}
    BY PhaseAfterFacts DEF Queues
  <2> QED BY <2>1, <2>2, PhaseAfterFacts DEF CursorInv, InPass, Queues
<1>2. CASE n # Sentinel /\ n \notin ToSet(s)
  <2>1. phase' = "fault" /\ it' = it /\ tmp' = tmp /\ ~Careful
    BY <1>2 DEF StopAt
  <2> QED BY <1>2, <2>1 DEF CursorInv, InPass, Queues, TypeOK
<1>3. CASE n # Sentinel /\ n \in ToSet(s)
  <2>1. phase' = q /\ it' = n /\ tmp' = After(s, n)
    BY <1>3 DEF StopAt
  <2>2. ToSet(s) \subseteq Addr
    BY DEF ToSet
  <2>3. \/ After(s, n) = Sentinel
        \/ After(s, n) \in ToSet(s) /\ Position(s, After(s, n)) = Position(s, n) + 1
    BY <1>3, AfterFacts
  <2> QED BY <1>3, <2>1, <2>2, <2>3 DEF CursorInv, InPass, Queues
<1> QED BY <1>1, <1>2, <1>3

\* The order in which a pass has come there, and what it leaves to the next one.
LEMMA StopAtOrder ==
    ASSUME EventLoopAssumption, NEW q \in Queues, NEW n,
           queue'[q] \in Seq(Addr), NoRepeat(queue'[q]),
           n = Sentinel \/ n \in ToSet(queue'[q]),
           StopAt(q, queue'[q], n), running' = None,
           q = "timeout" => \A a \in ToSet(queue'[q]) :
              Position(queue'[q], a) < Position(queue'[q], n)
                 => when'[heap'[a]] > nowMsec',
           q \in {"tick", "immediate"} /\ n # Sentinel => Position(queue'[q], n) = 1,
           q = "immediate" /\ n = Sentinel =>
              \E last \in Callback \cup {None} :
                 /\ last # None => kind'[last] = "immediate" /\ status'[last] = "over"
                 /\ \A a \in ToSet(queue'[q]) : by'[heap'[a]] = last
    PROVE  OrderInv'
<1>1. CASE n = Sentinel
  <2>1. phase' = PhaseAfter(q) /\ it' = None
    BY <1>1 DEF StopAt
  <2>2. OnlyLastImmediatesWait'
    <3>1. CASE q = "immediate"
      BY <1>1, <3>1 DEF OnlyLastImmediatesWait
    <3>2. CASE q # "immediate"
      <4>1. phase' \notin {"decide", "poll", "done"}
        BY <2>1, <3>2, PhaseAfterFacts DEF Queues
      <4> QED BY <4>1 DEF OnlyLastImmediatesWait
    <3> QED BY <3>1, <3>2
  <2> QED BY <2>1, <2>2 DEF OrderInv, InPass
<1>2. CASE n # Sentinel
  <2>1. phase' = q /\ it' = n /\ tmp' = After(queue'[q], n) /\ n \in ToSet(queue'[q])
    BY <1>2 DEF StopAt
  <2>2. OnlyLastImmediatesWait'
    BY <2>1 DEF OnlyLastImmediatesWait, Queues
  <2>3. ASSUME q = "immediate", tmp' = Sentinel, NEW a \in ToSet(queue'[q]) PROVE a = n
    <3>1. Position(queue'[q], n) = Len(queue'[q]) /\ Position(queue'[q], n) = 1
      BY <1>2, <2>1, <2>3, AfterLast DEF EventLoopAssumption
    <3>2. Position(queue'[q], a) \in 1 .. Len(queue'[q])
      BY PositionFacts
    <3> QED BY <2>1, <3>1, <3>2, PositionInjective
  <2> QED BY <1>2, <2>1, <2>2, <2>3 DEF OrderInv, InPass
<1> QED BY <1>1, <1>2

\* A pass begins at the first entry of its queue.
LEMMA PassBeginKeeps ==
    ASSUME EventLoopAssumption, IInv, NEW q \in Queues, PassBegin(q)
    PROVE  IInv' /\ phase' # "fault"
<1> USE DEF IInv
<1> DEFINE n == First(queue[q])
<1>1. /\ phase = q /\ it = None /\ running = None /\ minDelay' = 0
      /\ nowMsec' \in {now, nowMsec}
      /\ StopAt(q, queue[q], n)
      /\ UNCHANGED <<running, queue, heap, jobs, now, wake, entries, done, by, status, failed>>
  BY DEF PassBegin, ControlInv
<1>2. /\ queue'[q] = queue[q] /\ queue[q] \in Seq(Addr) /\ NoRepeat(queue[q])
      /\ Sentinel \notin Addr
  BY <1>1 DEF TypeOK, HeapInv, EventLoopAssumption
<1>3. \/ n = Sentinel /\ queue[q] = <<>>
      \/ n \in ToSet(queue[q]) /\ Position(queue[q], n) = 1
  BY <1>2, FirstFacts
<1> HIDE DEF n
<1>4. /\ phase' \in Queues \cup {"jobs", "decide"}
      /\ it' \in Addr \cup {None} /\ tmp' \in Addr \cup {Sentinel, None}
      /\ phase' \in {"jobs", "decide"} => it' = None
      /\ CursorInv'
  BY <1>1, <1>2, <1>3, StopAtKeeps
<1>5. TypeOK'
  BY <1>1, <1>4 DEF TypeOK, entries
<1>6. HeapInv' /\ LifeInv'
  BY <1>1 DEF HeapInv, LifeInv, entries
<1>7. JobsInv' /\ ExitInv'
  BY <1>1, <1>4 DEF JobsInv, ExitInv, Queues, entries
<1>8. ControlInv'
  BY <1>1, <1>4 DEF ControlInv, TypeOK, EventLoopAssumption, Queues
<1>9. OrderInv'
  <2>1. ASSUME NEW a \in ToSet(queue[q])
        PROVE  n \in ToSet(queue[q]) => Position(queue[q], n) <= Position(queue[q], a)
    BY <1>2, <1>3, <2>1, PositionFacts
  <2>2. ToSet(<<>>) = {}
    BY DEF ToSet
  <2>3. ASSUME n = Sentinel, q = "immediate" PROVE ToSet(queue'[q]) = {}
    BY <1>2, <1>3, <2>2, <2>3 DEF ToSet
  <2>4. \A a \in ToSet(queue'[q]) : ~(Position(queue'[q], a) < Position(queue'[q], n))
    BY <1>2, <1>3, <2>1, <2>2, PositionFacts
  <2>5. q = "immediate" /\ n = Sentinel =>
           \E last \in Callback \cup {None} :
              /\ last # None => kind'[last] = "immediate" /\ status'[last] = "over"
              /\ \A a \in ToSet(queue'[q]) : by'[heap'[a]] = last
    BY <2>3
  <2>6. q \in {"tick", "immediate"} /\ n # Sentinel => Position(queue'[q], n) = 1
    BY <1>2, <1>3
  <2>7. n = Sentinel \/ n \in ToSet(queue'[q])
    BY <1>2, <1>3
  <2>8. running' = None /\ StopAt(q, queue'[q], n)
    BY <1>1, <1>2
  <2> QED BY <1>2, <2>4, <2>5, <2>6, <2>7, <2>8, StopAtOrder
<1> QED BY <1>4, <1>5, <1>6, <1>7, <1>8, <1>9 DEF Queues

\* What PassSkip and PassCall find under the cursor: no script has run since the
\* pass has come to it.
LEMMA CursorFacts ==
    ASSUME EventLoopAssumption, IInv, NEW q \in Queues,
           phase = q, it # None, running = None \/ Careful
    PROVE  /\ queue[q] \in Seq(Addr) /\ NoRepeat(queue[q])
           /\ it \in ToSet(queue[q]) /\ heap[it] \in Callback /\ heap[it] # None
           /\ kind[heap[it]] \notin {"none", "job"}
           /\ Position(queue[q], it) \in Nat
           /\ \/ tmp = Sentinel
              \/ /\ tmp \in ToSet(queue[q])
                 /\ Position(queue[q], tmp) = Position(queue[q], it) + 1
           /\ running # None => running = heap[it]
<1>1. InPass /\ Steady
  BY DEF InPass, Steady
<1>2. queue[q] \in Seq(Addr) /\ NoRepeat(queue[q])
  BY DEF IInv, TypeOK, HeapInv
<1>3. it \in ToSet(queue[q])
  BY <1>1 DEF IInv, CursorInv
<1>4. /\ heap[it] \in Callback /\ heap[it] # None
      /\ kind[heap[it]] \notin {"none", "job"}
  BY <1>3, EntryFacts DEF IInv
<1>5. Position(queue[q], it) \in Nat
  BY <1>2, <1>3, PositionFacts
<1> QED BY <1>1, <1>2, <1>3, <1>4, <1>5 DEF IInv, CursorInv

\* An entry that is not due, or not done, is passed over.
LEMMA PassSkipKeeps ==
    ASSUME EventLoopAssumption, IInv, NEW q \in Queues, PassSkip(q)
    PROVE  IInv' /\ phase' # "fault"
<1> USE DEF IInv
<1>1. /\ phase = q /\ it # None /\ running = None /\ ~Fires(q, heap[it])
      /\ minDelay' = IF q = "timeout" THEN Lowered(when[heap[it]] - nowMsec) ELSE minDelay
      /\ StopAt(q, queue[q], tmp)
      /\ UNCHANGED <<running, queue, heap, jobs, now, nowMsec, wake, entries, done, by, status, failed>>
  BY DEF PassSkip
<1>2. /\ queue[q] \in Seq(Addr) /\ NoRepeat(queue[q]) /\ queue'[q] = queue[q]
      /\ it \in ToSet(queue[q]) /\ heap[it] \in Callback
      /\ Position(queue[q], it) \in Nat
      /\ \/ tmp = Sentinel
         \/ /\ tmp \in ToSet(queue[q])
            /\ Position(queue[q], tmp) = Position(queue[q], it) + 1
  BY <1>1, CursorFacts
<1>3. q \notin {"tick", "immediate"} /\ (q = "timeout" => when[heap[it]] > nowMsec)
  BY <1>1, <1>2 DEF Fires, TypeOK
<1>4. minDelay' = 0
  BY <1>1, <1>2, <1>3 DEF Lowered, ControlInv, TypeOK
<1>5. /\ phase' \in Queues \cup {"jobs", "decide"}
      /\ it' \in Addr \cup {None} /\ tmp' \in Addr \cup {Sentinel, None}
      /\ phase' \in {"jobs", "decide"} => it' = None
      /\ CursorInv'
  BY <1>1, <1>2, StopAtKeeps
<1>6. TypeOK'
  BY <1>1, <1>4, <1>5 DEF TypeOK, entries
<1>7. HeapInv' /\ LifeInv'
  BY <1>1 DEF HeapInv, LifeInv, entries
<1>8. JobsInv' /\ ExitInv'
  BY <1>1, <1>5 DEF JobsInv, ExitInv, Queues, entries
<1>9. ControlInv'
  BY <1>1, <1>4, <1>5 DEF ControlInv, TypeOK, EventLoopAssumption, Queues
<1>10. ASSUME Careful PROVE OrderInv'
  <2>1. ASSUME q = "timeout", NEW a \in ToSet(queue[q]), tmp # Sentinel,
               Position(queue[q], a) < Position(queue[q], tmp)
        PROVE  when[heap[a]] > nowMsec
    <3>1. Position(queue[q], a) \in Nat
      BY <1>2, PositionFacts
    <3>2. CASE Position(queue[q], a) = Position(queue[q], it)
      <4>1. a = it
        BY <1>2, <3>2, PositionInjective
      <4> QED BY <1>3, <2>1, <4>1
    <3>3. CASE Position(queue[q], a) < Position(queue[q], it)
      <4>1. OrderInv /\ InPass
        BY <1>1, <1>10 DEF InPass
      <4> QED BY <1>1, <2>1, <3>3, <4>1 DEF OrderInv
    <3> QED BY <1>2, <2>1, <3>1, <3>2, <3>3
  <2>2. CASE tmp = Sentinel
    <3>1. phase' = PhaseAfter(q) /\ it' = None
      BY <1>1, <2>2 DEF StopAt
    <3>2. phase' \notin {"decide", "poll", "done"}
      BY <1>3, <3>1, PhaseAfterFacts DEF Queues
    <3> QED BY <3>1, <3>2 DEF OrderInv, OnlyLastImmediatesWait, InPass
  <2>3. CASE tmp # Sentinel
    <3>1. \A a \in ToSet(queue'[q]) :
             q = "timeout" /\ Position(queue'[q], a) < Position(queue'[q], tmp)
                => when'[heap'[a]] > nowMsec'
      BY <1>1, <1>2, <2>1, <2>3 DEF entries
    <3>2. running' = None /\ StopAt(q, queue'[q], tmp) /\ tmp \in ToSet(queue'[q])
      BY <1>1, <1>2, <2>3
    <3> QED BY <1>2, <1>3, <2>3, <3>1, <3>2, StopAtOrder
  <2> QED BY <2>2, <2>3
<1> QED BY <1>5, <1>6, <1>7, <1>8, <1>9, <1>10 DEF Queues

\* A callback is called from the entry that the cursor is on.
LEMMA PassCallKeeps ==
    ASSUME EventLoopAssumption, IInv, NEW q \in Queues, PassCall(q)
    PROVE  IInv'
<1> USE DEF IInv
<1>1. /\ phase = q /\ it # None /\ running = None /\ Fires(q, heap[it])
      /\ running' = heap[it]
      /\ UNCHANGED <<phase, queue, heap, it, tmp, jobs, clock, entries, done, by, status, failed>>
  BY DEF PassCall
<1>2. /\ it \in ToSet(queue[q]) /\ heap[it] \in Callback /\ heap[it] # None
      /\ kind[heap[it]] \notin {"none", "job"}
  BY <1>1, CursorFacts
<1>3. TypeOK'
  BY <1>1, <1>2 DEF TypeOK, clock, entries
<1>4. HeapInv' /\ LifeInv' /\ ExitInv'
  BY <1>1 DEF HeapInv, LifeInv, ExitInv, entries
<1>5. JobsInv'
  BY <1>1 DEF JobsInv, Queues, entries
<1>6. ControlInv'
  <2>1. q = "timeout" => when[heap[it]] <= nowMsec
    BY <1>1 DEF Fires
  <2> QED BY <1>1, <1>2, <2>1 DEF ControlInv, clock, entries, Queues, EventLoopAssumption
<1>7. CursorInv'
  <2>1. InPass /\ Steady
    BY <1>1 DEF InPass, Steady
  <2> QED BY <1>1, <2>1 DEF CursorInv, InPass
<1>8. ASSUME Careful PROVE OrderInv'
  <2>1. OrderInv /\ InPass /\ InPass'
    BY <1>1, <1>8 DEF InPass
  <2>2. OnlyLastImmediatesWait'
    BY <1>1 DEF OnlyLastImmediatesWait, Queues
  <2> QED BY <1>1, <2>1, <2>2 DEF OrderInv, clock, entries
<1> QED BY <1>3, <1>4, <1>5, <1>6, <1>7, <1>8

\* Only the passes whose queue a script can clear get to freed memory.
LEMMA PassFaultKeeps ==
    ASSUME EventLoopAssumption, IInv, NEW q \in Queues, PassFault(q)
    PROVE  IInv' /\ q \in {"timeout", "immediate"}
<1> USE DEF IInv
<1>1. /\ phase = q /\ it # None /\ running # None /\ it \notin ToSet(queue[q])
      /\ phase' = "fault"
      /\ UNCHANGED <<running, queue, heap, it, tmp, jobs, clock, entries, done, by, status, failed>>
  BY DEF PassFault
<1>2. ~Steady
  BY <1>1 DEF CursorInv, InPass
<1>3. ~Careful /\ q \in {"timeout", "immediate"}
  BY <1>1, <1>2 DEF Steady, Queues
<1>4. TypeOK'
  BY <1>1 DEF TypeOK, clock, entries
<1>5. HeapInv' /\ LifeInv' /\ JobsInv' /\ ExitInv'
  BY <1>1, <1>3 DEF HeapInv, LifeInv, JobsInv, ExitInv, entries
<1>6. ControlInv'
  BY <1>1 DEF ControlInv, clock, entries, Queues
<1>7. CursorInv'
  BY <1>1, <1>3 DEF CursorInv, InPass, Queues
<1> QED BY <1>1, <1>3, <1>4, <1>5, <1>6, <1>7

\* An interval is rearmed after its call, if it is still there.
LEMMA PassRearmKeeps ==
    ASSUME EventLoopAssumption, IInv, NEW q \in Queues, PassRearm(q)
    PROVE  IInv' /\ (phase' = "fault" => q \in {"timeout", "immediate"})
<1> USE DEF IInv
<1> DEFINE d == heap[it]
<1>1. /\ phase = q /\ q = "timeout" /\ it \in ToSet(queue[q]) /\ running # None
      /\ interval[d] > 0
      /\ when' = [when EXCEPT ![d] = nowMsec + interval[d]]
      /\ minDelay' = Lowered(interval[d])
      /\ running' = None
      /\ StopAt(q, queue[q], tmp)
      /\ UNCHANGED <<queue, heap, jobs, now, nowMsec, wake, kind, id, interval, done, by, status, failed>>
  BY DEF PassRearm
<1>2. d \in Callback /\ it # None /\ id[d] = it
  BY <1>1, EntryFacts
<1> HIDE DEF d
<1>3. minDelay' = 0
  BY <1>1, <1>2 DEF Lowered, ControlInv, TypeOK
<1>4. queue[q] \in Seq(Addr) /\ NoRepeat(queue[q]) /\ queue'[q] = queue[q]
  BY <1>1 DEF TypeOK, HeapInv
<1>5. ASSUME Careful
      PROVE  /\ Position(queue[q], it) \in Nat
             /\ \/ tmp = Sentinel
                \/ /\ tmp \in ToSet(queue[q])
                   /\ Position(queue[q], tmp) = Position(queue[q], it) + 1
  BY <1>1, <1>2, <1>5, CursorFacts
<1>6. /\ phase' \in Queues \cup {"jobs", "decide", "fault"}
      /\ it' \in Addr \cup {None} /\ tmp' \in Addr \cup {Sentinel, None}
      /\ phase' \in {"jobs", "decide"} => it' = None
      /\ CursorInv'
  BY <1>1, <1>4, <1>5, StopAtKeeps DEF EventLoopAssumption
<1>7. TypeOK'
  <2>1. when' \in [Callback -> Nat]
    BY <1>1, <1>2 DEF TypeOK
  <2> QED BY <1>1, <1>3, <1>6, <2>1 DEF TypeOK
<1>8. HeapInv' /\ LifeInv'
  BY <1>1 DEF HeapInv, LifeInv
<1>9. JobsInv' /\ ExitInv'
  BY <1>1, <1>6 DEF JobsInv, ExitInv, Queues
<1>10. ControlInv'
  BY <1>1, <1>3, <1>6 DEF ControlInv, TypeOK, EventLoopAssumption, Queues
<1>11. ASSUME Careful PROVE OrderInv'
  <2>1. ASSUME NEW a \in ToSet(queue[q]), tmp # Sentinel,
               Position(queue[q], a) < Position(queue[q], tmp)
        PROVE  when'[heap[a]] > nowMsec
    <3>1. Position(queue[q], a) \in Nat
      BY <1>4, PositionFacts
    <3>2. CASE Position(queue[q], a) = Position(queue[q], it)
      <4>1. a = it
        BY <1>1, <1>4, <3>2, PositionInjective
      <4> QED BY <1>1, <1>2, <4>1 DEF TypeOK, d
    <3>3. CASE Position(queue[q], a) < Position(queue[q], it)
      <4>1. OrderInv /\ InPass
        BY <1>1, <1>2, <1>11 DEF InPass
      <4>2. when[heap[a]] > nowMsec
        BY <1>1, <2>1, <3>3, <4>1 DEF OrderInv
      <4>3. heap[a] \in Callback /\ id[heap[a]] = a
        BY <2>1, EntryFacts
      <4>4. heap[a] # d
        BY <1>2, <1>5, <1>11, <3>3, <4>3
      <4> QED BY <1>1, <4>2, <4>3, <4>4 DEF TypeOK
    <3> QED BY <1>5, <1>11, <2>1, <3>1, <3>2, <3>3
  <2>2. CASE tmp = Sentinel
    <3>1. phase' = PhaseAfter(q) /\ it' = None
      BY <1>1, <2>2 DEF StopAt
    <3>2. phase' \notin {"decide", "poll", "done"}
      BY <1>1, <3>1, PhaseAfterFacts DEF Queues
    <3> QED BY <3>1, <3>2 DEF OrderInv, OnlyLastImmediatesWait, InPass
  <2>3. CASE tmp # Sentinel
    <3>1. \A a \in ToSet(queue'[q]) :
             Position(queue'[q], a) < Position(queue'[q], tmp)
                => when'[heap'[a]] > nowMsec'
      BY <1>1, <1>4, <2>1, <2>3
    <3>2. /\ running' = None /\ StopAt(q, queue'[q], tmp) /\ tmp \in ToSet(queue'[q])
          /\ q \notin {"tick", "immediate"}
      BY <1>1, <1>4, <1>5, <1>11, <2>3
    <3> QED BY <1>4, <2>3, <3>1, <3>2, StopAtOrder
  <2> QED BY <2>2, <2>3
<1> QED BY <1>1, <1>6, <1>7, <1>8, <1>9, <1>10, <1>11

\* What is called once is freed when its callback has returned.
LEMMA PassReturnKeeps ==
    ASSUME EventLoopAssumption, IInv, NEW q \in Queues, PassReturn(q)
    PROVE  IInv' /\ (phase' = "fault" => q \in {"timeout", "immediate"})
<1> USE DEF IInv
<1>1. /\ phase = q /\ it \in ToSet(queue[q]) /\ running # None
      /\ queue' = [queue EXCEPT ![q] = Unlink(@, it)]
      /\ heap' = [heap EXCEPT ![it] = None]
      /\ status' = [status EXCEPT ![heap[it]] = "over"]
      /\ running' = None
      /\ StopAt(q, queue'[q], tmp)
      /\ UNCHANGED <<jobs, clock, entries, done, by, failed>>
  BY DEF PassReturn
<1>2. Removed(q, it)
  BY <1>1, RemoveKeeps DEF entries
<1>3. it # None /\ heap[it] \in Callback /\ QueueOf(kind[heap[it]]) = q
  BY <1>1, EntryFacts
<1>4. /\ queue[q] \in Seq(Addr) /\ NoRepeat(queue[q])
      /\ queue'[q] \in Seq(Addr) /\ NoRepeat(queue'[q])
  BY <1>2 DEF TypeOK, HeapInv, Removed
<1>5. ASSUME Careful \/ q \in {"tick", "generic"}
      PROVE  /\ Position(queue[q], it) \in Nat /\ running = heap[it]
             /\ \/ tmp = Sentinel
                \/ /\ tmp \in ToSet(queue'[q])
                   /\ Position(queue[q], tmp) = Position(queue[q], it) + 1
                   /\ Position(queue'[q], tmp) = Position(queue[q], it)
  <2>1. InPass /\ Steady
    BY <1>1, <1>3, <1>5 DEF InPass, Steady
  <2>2. /\ running = heap[it]
        /\ \/ tmp = Sentinel
           \/ /\ tmp \in ToSet(queue[q])
              /\ Position(queue[q], tmp) = Position(queue[q], it) + 1
    BY <1>1, <2>1 DEF CursorInv
  <2>3. Position(queue[q], it) \in Nat
    BY <1>1, <1>4, PositionFacts
  <2>4. CASE tmp # Sentinel
    <3>1. tmp # it
      BY <2>2, <2>3, <2>4
    <3>2. tmp \in ToSet(queue'[q])
      BY <1>2, <2>2, <2>4, <3>1 DEF Removed
    <3> QED BY <1>2, <2>2, <2>3, <2>4, <3>2 DEF Removed
  <2> QED BY <2>2, <2>3, <2>4
<1>6. /\ phase' \in Queues \cup {"jobs", "decide", "fault"}
      /\ it' \in Addr \cup {None} /\ tmp' \in Addr \cup {Sentinel, None}
      /\ phase' \in {"jobs", "decide"} => it' = None
      /\ phase' = "fault" => tmp # Sentinel /\ tmp \notin ToSet(queue'[q])
      /\ CursorInv'
  BY <1>1, <1>4, <1>5, StopAtKeeps
<1>7. TypeOK'
  BY <1>1, <1>2, <1>6 DEF TypeOK, Removed, clock, entries
<1>8. JobsInv' /\ ExitInv'
  <2>1. ToSet(jobs) \subseteq Callback
    BY DEF TypeOK, ToSet
  <2> QED BY <1>1, <1>2, <1>6, <2>1 DEF JobsInv, ExitInv, Removed, Live, Queues, entries
<1>9. ControlInv'
  BY <1>1, <1>6 DEF ControlInv, TypeOK, EventLoopAssumption, Queues, clock, entries
<1>10. ASSUME Careful PROVE OrderInv'
  <2>1. OrderInv /\ InPass
    BY <1>1, <1>3, <1>10 DEF InPass
  <2>2. ASSUME NEW a \in ToSet(queue'[q])
        PROVE  /\ a \in ToSet(queue[q]) /\ heap'[a] = heap[a] /\ a # it
               /\ Position(queue[q], a) \in Nat
               /\ Position(queue[q], a) # Position(queue[q], it)
               /\ Position(queue'[q], a) = IF Position(queue[q], a) < Position(queue[q], it)
                                           THEN Position(queue[q], a)
                                           ELSE Position(queue[q], a) - 1
    <3>1. a \in ToSet(queue[q]) /\ heap'[a] = heap[a] /\ a # it
      BY <1>2, <2>2 DEF Removed
    <3>2. Position(queue[q], a) \in Nat /\ Position(queue[q], a) # Position(queue[q], it)
      BY <1>1, <1>4, <3>1, PositionFacts, PositionInjective
    <3> QED BY <1>2, <2>2, <3>1, <3>2 DEF Removed
  <2>3. ASSUME q = "timeout", tmp # Sentinel, NEW a \in ToSet(queue'[q]),
               Position(queue'[q], a) < Position(queue'[q], tmp)
        PROVE  when'[heap'[a]] > nowMsec'
    <3>1. Position(queue[q], a) < Position(queue[q], it)
      BY <1>5, <1>10, <2>2, <2>3
    <3>2. when[heap[a]] > nowMsec
      BY <1>1, <2>1, <2>2, <2>3, <3>1 DEF OrderInv
    <3> QED BY <1>1, <2>2, <2>3, <3>2 DEF clock, entries
  <2>4. q \in {"tick", "immediate"} /\ tmp # Sentinel => Position(queue'[q], tmp) = 1
    BY <1>1, <1>5, <1>10, <2>1 DEF OrderInv
  <2>5. ASSUME q = "immediate", tmp = Sentinel
        PROVE  \E last \in Callback \cup {None} :
                  /\ last # None => kind'[last] = "immediate" /\ status'[last] = "over"
                  /\ \A a \in ToSet(queue'[q]) : by'[heap'[a]] = last
    <3>1. running = heap[it] /\ running \in Callback
      BY <1>3, <1>5, <1>10
    <3>2. kind'[running] = "immediate" /\ status'[running] = "over"
      BY <1>1, <1>3, <2>5, <3>1, QueueOfFacts DEF TypeOK, entries
    <3>3. \A a \in ToSet(queue'[q]) : by'[heap'[a]] = running
      BY <1>1, <2>1, <2>2, <2>5 DEF OrderInv
    <3> QED BY <3>1, <3>2, <3>3
  <2>6. CASE tmp = Sentinel /\ q = "timeout"
    <3>1. phase' = PhaseAfter(q) /\ it' = None
      BY <1>1, <2>6 DEF StopAt
    <3>2. phase' \notin {"decide", "poll", "done"}
      BY <2>6, <3>1, PhaseAfterFacts DEF Queues
    <3> QED BY <3>1, <3>2 DEF OrderInv, OnlyLastImmediatesWait, InPass
  <2>7. CASE tmp # Sentinel \/ q # "timeout"
    <3>1. tmp = Sentinel \/ tmp \in ToSet(queue'[q])
      BY <1>5, <1>10
    <3>2. q = "timeout" => \A a \in ToSet(queue'[q]) :
             Position(queue'[q], a) < Position(queue'[q], tmp)
                => when'[heap'[a]] > nowMsec'
      BY <2>3, <2>7
    <3> QED BY <1>1, <1>4, <2>4, <2>5, <3>1, <3>2, StopAtOrder
  <2> QED BY <2>6, <2>7
<1>11. phase' = "fault" => q \in {"timeout", "immediate"}
  BY <1>5, <1>6 DEF Queues
<1> QED BY <1>2, <1>6, <1>7, <1>8, <1>9, <1>10, <1>11 DEF Removed

-----------------------------------------------------------------------------
(* The rest of nodert_loop, and the world around it.                       *)

\* The main script has returned.
LEMMA EnterLoopKeeps ==
    ASSUME EventLoopAssumption, IInv, EnterLoop
    PROVE  IInv'
<1> USE DEF IInv
<1>1. /\ phase = "script" /\ phase' = "tick" /\ running' = None /\ it = None
      /\ UNCHANGED <<queue, heap, it, tmp, jobs, clock, entries, done, by, status, failed>>
  BY DEF EnterLoop, ControlInv, Queues
<1>2. TypeOK'
  BY <1>1 DEF TypeOK, Queues, clock, entries
<1>3. HeapInv' /\ LifeInv' /\ JobsInv' /\ ExitInv'
  BY <1>1 DEF HeapInv, LifeInv, JobsInv, ExitInv, entries
<1>4. ControlInv'
  BY <1>1 DEF ControlInv, clock, entries, Queues, EventLoopAssumption
<1>5. CursorInv' /\ OrderInv'
  BY <1>1 DEF CursorInv, OrderInv, OnlyLastImmediatesWait, InPass
<1> QED BY <1>2, <1>3, <1>4, <1>5

\* The first job is called: a callback that waits to be called once.
LEMMA JobCallKeeps ==
    ASSUME EventLoopAssumption, IInv, JobCall
    PROVE  IInv' /\ Head(jobs) \in Callback /\ status[Head(jobs)] = "once"
<1> USE DEF IInv
<1> DEFINE c == Head(jobs)
<1>1. /\ phase = "jobs" /\ running = None /\ jobs # <<>>
      /\ running' = c /\ jobs' = Tail(jobs)
      /\ UNCHANGED <<phase, queue, heap, it, tmp, clock, entries, done, by, status, failed>>
  BY DEF JobCall
<1>2. /\ c \in ToSet(jobs) /\ jobs' \in Seq(Callback) /\ NoRepeat(jobs')
      /\ ToSet(jobs') = ToSet(jobs) \ {c}
  BY <1>1, TailFacts DEF TypeOK, JobsInv
<1>3. c \in Callback /\ kind[c] = "job" /\ status[c] = "once"
  BY <1>2 DEF TypeOK, JobsInv, ToSet
<1> HIDE DEF c
<1>4. TypeOK'
  BY <1>1, <1>2, <1>3 DEF TypeOK, clock, entries
<1>5. HeapInv' /\ LifeInv' /\ JobsInv' /\ ExitInv'
  BY <1>1, <1>2, <1>3 DEF HeapInv, LifeInv, JobsInv, ExitInv, entries
<1>6. ControlInv'
  BY <1>1, <1>3 DEF ControlInv, clock, entries, Queues, EventLoopAssumption
<1>7. CursorInv' /\ (Careful => OrderInv')
  BY <1>1 DEF CursorInv, OrderInv, OnlyLastImmediatesWait, InPass, Queues
<1> QED BY <1>3, <1>4, <1>5, <1>6, <1>7 DEF c

\* The end of a job, with or without an exception.
LEMMA JobEndKeeps ==
    ASSUME EventLoopAssumption, IInv, JobReturn \/ JobThrow
    PROVE  IInv'
<1> USE DEF IInv
<1>1. /\ phase = "jobs" /\ running # None /\ running' = None
      /\ status' = [status EXCEPT ![running] = "over"]
      /\ \/ phase' = phase /\ failed' = failed
         \/ phase' = "done" /\ failed' = TRUE
      /\ UNCHANGED <<queue, heap, it, tmp, jobs, clock, entries, done, by>>
  BY DEF JobReturn, JobThrow
<1>2. /\ running \in Callback /\ kind[running] = "job" /\ running \notin ToSet(jobs)
      /\ status[running] = "once"
  BY <1>1 DEF TypeOK, JobsInv, ControlInv
<1>3. ASSUME NEW a \in Addr, heap[a] # None PROVE heap[a] \in Callback /\ heap[a] # running
  <2>1. PICK q \in Queues : a \in ToSet(queue[q])
    BY <1>3 DEF HeapInv
  <2> QED BY <1>2, <2>1, EntryFacts
<1>4. TypeOK'
  BY <1>1, <1>2 DEF TypeOK, clock, entries
<1>5. HeapInv' /\ ExitInv'
  BY <1>1 DEF HeapInv, ExitInv, entries
<1>6. LifeInv'
  BY <1>1, <1>2, <1>3 DEF LifeInv, TypeOK, Live, entries
<1>7. JobsInv'
  <2>1. ToSet(jobs) \subseteq Callback
    BY DEF TypeOK, ToSet
  <2> QED BY <1>1, <1>2, <2>1 DEF JobsInv, TypeOK, Live, entries
<1>8. ControlInv'
  BY <1>1, <1>2 DEF ControlInv, clock, entries, Queues, EventLoopAssumption
<1>9. CursorInv' /\ OrderInv'
  BY <1>1 DEF CursorInv, OrderInv, OnlyLastImmediatesWait, InPass, Queues
<1> QED BY <1>4, <1>5, <1>6, <1>7, <1>8, <1>9

\* There are no more jobs.
LEMMA JobsDoneKeeps ==
    ASSUME EventLoopAssumption, IInv, JobsDone
    PROVE  IInv'
<1> USE DEF IInv
<1>1. /\ phase = "jobs" /\ phase' = "timeout" /\ running = None /\ it = None
      /\ UNCHANGED <<running, queue, heap, it, tmp, jobs, clock, entries, done, by, status, failed>>
  BY DEF JobsDone, ControlInv, Queues
<1>2. TypeOK'
  BY <1>1 DEF TypeOK, Queues, clock, entries
<1>3. HeapInv' /\ LifeInv' /\ JobsInv' /\ ExitInv'
  BY <1>1 DEF HeapInv, LifeInv, JobsInv, ExitInv, entries
<1>4. ControlInv'
  BY <1>1 DEF ControlInv, clock, entries, Queues, EventLoopAssumption
<1>5. CursorInv' /\ OrderInv'
  BY <1>1 DEF CursorInv, OrderInv, OnlyLastImmediatesWait, InPass
<1> QED BY <1>2, <1>3, <1>4, <1>5

\* The loop goes round again, or ends.
LEMMA DecideKeeps ==
    ASSUME EventLoopAssumption, IInv, Decide
    PROVE  IInv'
<1> USE DEF IInv
<1>1. /\ phase = "decide" /\ running = None /\ it = None
      /\ phase' = IF ~Idle THEN "tick" ELSE IF Waiting THEN "poll" ELSE "done"
      /\ wake' = IF phase' = "poll" THEN now + minDelay ELSE 0
      /\ UNCHANGED <<running, queue, heap, it, tmp, jobs, now, nowMsec, minDelay,
                     entries, done, by, status, failed>>
  BY DEF Decide, ControlInv, Queues
<1>2. TypeOK'
  <2>1. wake' \in Nat
    BY <1>1 DEF TypeOK
  <2>2. phase' \in Queues \cup {"poll", "done"}
    BY <1>1 DEF Queues
  <2> QED BY <1>1, <2>1, <2>2 DEF TypeOK, entries
<1>3. HeapInv' /\ LifeInv' /\ JobsInv'
  BY <1>1 DEF HeapInv, LifeInv, JobsInv, entries
<1>4. ExitInv'
  BY <1>1 DEF ExitInv, Idle, Waiting, Queues
<1>5. ControlInv'
  BY <1>1 DEF ControlInv, entries, Queues, EventLoopAssumption
<1>6. CursorInv'
  BY <1>1 DEF CursorInv, InPass
<1>7. ASSUME Careful PROVE OrderInv'
  BY <1>1, <1>7 DEF OrderInv, OnlyLastImmediatesWait, InPass, entries
<1> QED BY <1>2, <1>3, <1>4, <1>5, <1>6, <1>7

\* The poll changes neither queues nor heap.
LEMMA PollKeeps ==
    ASSUME EventLoopAssumption, IInv, Poll
    PROVE  IInv'
<1> USE DEF IInv
<1>1. /\ phase = "poll" /\ phase' = "tick" /\ wake' = 0 /\ running = None /\ it = None
      /\ UNCHANGED <<running, queue, heap, it, tmp, jobs, now, nowMsec, minDelay,
                     entries, done, by, status, failed>>
  BY DEF Poll, ControlInv, Queues
<1>2. TypeOK'
  BY <1>1 DEF TypeOK, Queues, entries
<1>3. HeapInv' /\ LifeInv' /\ JobsInv' /\ ExitInv'
  BY <1>1 DEF HeapInv, LifeInv, JobsInv, ExitInv, entries
<1>4. ControlInv'
  BY <1>1 DEF ControlInv, entries, Queues, EventLoopAssumption
<1>5. CursorInv' /\ OrderInv'
  BY <1>1 DEF CursorInv, OrderInv, OnlyLastImmediatesWait, InPass
<1> QED BY <1>2, <1>3, <1>4, <1>5

\* Time passes, and workers finish.
LEMMA WorldKeeps ==
    ASSUME EventLoopAssumption, IInv, Tick \/ \E c \in Callback : WorkerDone(c)
    PROVE  IInv'
<1> USE DEF IInv
<1>1. /\ now' \in Nat /\ now <= now' /\ done' \in SUBSET Callback
      /\ UNCHANGED <<phase, running, queue, heap, it, tmp, jobs, nowMsec, minDelay, wake,
                     entries, by, status, failed>>
  BY DEF Tick, WorkerDone, TypeOK, clock
<1>2. TypeOK' /\ ControlInv'
  BY <1>1 DEF TypeOK, ControlInv, entries
<1>3. HeapInv' /\ LifeInv' /\ JobsInv' /\ ExitInv'
  BY <1>1 DEF HeapInv, LifeInv, JobsInv, ExitInv, entries
<1>4. CursorInv' /\ (Careful => OrderInv')
  BY <1>1 DEF CursorInv, OrderInv, OnlyLastImmediatesWait, InPass, Steady, entries
<1> QED BY <1>2, <1>3, <1>4

\* What each step of the specification keeps.  Only a pass, over a queue that
\* scripts can clear, comes to a freed entry.
LEMMA NextKeeps ==
    ASSUME EventLoopAssumption, IInv, [Next]_vars
    PROVE  IInv' /\ (phase # "fault" /\ phase' = "fault" => phase \in {"timeout", "immediate"})
<1>1. CASE API
  <2>1. PICK c \in Callback :
           \/ setTimeout(c) \/ setInterval(c) \/ setImmediate(c) \/ nextTick(c)
           \/ pseudo_marco(c) \/ AsyncCall(c) \/ EnqueueJob(c)
           \/ clearTimeout(c) \/ clearImmediate(c)
    BY <1>1 DEF API
  <2>2. CASE \/ setTimeout(c) \/ setInterval(c) \/ setImmediate(c) \/ nextTick(c)
             \/ pseudo_marco(c) \/ AsyncCall(c)
    BY <2>2, ScheduleKeeps DEF setTimeout, setInterval, setImmediate, nextTick,
                               pseudo_marco, AsyncCall, Schedule
  <2>3. CASE EnqueueJob(c)
    BY <2>3, EnqueueJobKeeps DEF EnqueueJob, Schedule
  <2>4. CASE clearTimeout(c) \/ clearImmediate(c)
    BY <2>4, ClearKeeps DEF clearTimeout, clearImmediate, Clear
  <2> QED BY <2>1, <2>2, <2>3, <2>4
<1>2. CASE Pass
  <2>1. PICK q \in Queues :
           \/ PassBegin(q) \/ PassSkip(q) \/ PassCall(q)
           \/ PassFault(q) \/ PassRearm(q) \/ PassReturn(q)
    BY <1>2 DEF Pass
  <2>2. phase = q
    BY <2>1 DEF PassBegin, PassSkip, PassCall, PassFault, PassRearm, PassReturn
  <2>3. CASE PassBegin(q)
    BY <2>3, PassBeginKeeps
  <2>4. CASE PassSkip(q)
    BY <2>4, PassSkipKeeps
  <2>5. CASE PassCall(q)
    BY <2>5, PassCallKeeps DEF PassCall
  <2>6. CASE PassFault(q)
    BY <2>2, <2>6, PassFaultKeeps
  <2>7. CASE PassRearm(q)
    BY <2>2, <2>7, PassRearmKeeps
  <2>8. CASE PassReturn(q)
    BY <2>2, <2>8, PassReturnKeeps
  <2> QED BY <2>1, <2>3, <2>4, <2>5, <2>6, <2>7, <2>8
<1>3. CASE EnterLoop
  BY <1>3, EnterLoopKeeps DEF EnterLoop
<1>4. CASE JobCall
  BY <1>4, JobCallKeeps DEF JobCall
<1>5. CASE JobReturn \/ JobThrow
  BY <1>5, JobEndKeeps DEF JobReturn, JobThrow
<1>6. CASE JobsDone
  BY <1>6, JobsDoneKeeps DEF JobsDone
<1>7. CASE Decide
  BY <1>7, DecideKeeps DEF Decide
<1>8. CASE Poll
  BY <1>8, PollKeeps DEF Poll
<1>9. CASE Tick \/ \E c \in Callback : WorkerDone(c)
  BY <1>9, WorldKeeps DEF Tick, WorkerDone
<1>10. CASE UNCHANGED vars
  BY <1>10 DEF vars, entries, clock, IInv, TypeOK, HeapInv, LifeInv, JobsInv, ControlInv,
               CursorInv, ExitInv, OrderInv, OnlyLastImmediatesWait, InPass, Steady
<1> QED
  BY <1>1, <1>2, <1>3, <1>4, <1>5, <1>6, <1>7, <1>8, <1>9, <1>10 DEF Next, Loop

\* So it holds always.
LEMMA InvariantHolds == Spec => []IInv
<1>1. Init => IInv
  BY InitIInv, EventLoopAssumption
<1>2. IInv /\ [Next]_vars => IInv'
  BY NextKeeps, EventLoopAssumption
<1> QED BY <1>1, <1>2, PTL DEF Spec

-----------------------------------------------------------------------------
(* What holds of any script.                                               *)

\* The state of nodert_loop and its queues keeps its types, a fault included.
THEOREM TypeCorrect == Spec => []TypeOK
<1>1. IInv => TypeOK
  BY DEF IInv
<1> QED BY <1>1, InvariantHolds, PTL

\* No entry of event_queue.c leaks, is freed while it is linked, or is in two
\* queues: whatever is cleared, from wherever, the four queues hold exactly the
\* allocated entries.
THEOREM NoEntryLost == Spec => []HeapIsQueued
<1>1. IInv => HeapIsQueued
  <2> SUFFICES ASSUME IInv PROVE HeapIsQueued
    OBVIOUS
  <2>1. ASSUME NEW a \in Addr
        PROVE  Cardinality({q \in Queues : a \in ToSet(queue[q])})
                  = IF heap[a] = None THEN 0 ELSE 1
    <3> DEFINE holders == {q \in Queues : a \in ToSet(queue[q])}
    <3>1. CASE heap[a] = None
      <4>1. holders = {}
        BY <3>1 DEF IInv, HeapInv
      <4> QED BY <3>1, <4>1, FS_EmptySet
    <3>2. CASE heap[a] # None
      <4>1. PICK q \in Queues : a \in ToSet(queue[q])
        BY <3>2 DEF IInv, HeapInv
      <4>2. \A p \in Queues : a \in ToSet(queue[p]) => p = q
        BY <4>1, EntryFacts, EventLoopAssumption DEF IInv
      <4>3. holders = {q}
        BY <4>1, <4>2
      <4> HIDE DEF holders
      <4>4. Cardinality(holders) = 1
        BY <4>3, FS_Singleton
      <4> QED BY <3>2, <4>4 DEF holders
    <3> QED BY <3>1, <3>2
  <2> QED BY <2>1 DEF IInv, HeapInv, HeapIsQueued
<1> QED BY <1>1, InvariantHolds, PTL

\* consume_timeout_event_queue calls no timer before its time, whether it was
\* set by a function or armed again by the pass itself.
THEOREM TimersNotEarly == Spec => []NoTimerEarly
<1>1. IInv => NoTimerEarly
  BY DEF IInv, ControlInv, NoTimerEarly
<1> QED BY <1>1, InvariantHolds, PTL

\* The passes over the ticks and over the requests never come to a freed entry,
\* however careless the scripts are.
THEOREM FaultsWhereCleared == Spec => FaultOnlyWhereCleared
<1>1. IInv /\ [Next]_vars
        => [phase # "fault" /\ phase' = "fault" => phase \in {"timeout", "immediate"}]_vars
  BY NextKeeps, EventLoopAssumption
<1> QED BY <1>1, InvariantHolds, PTL DEF Spec, FaultOnlyWhereCleared

\* min_delay, which the timer pass sets to 0 before it lowers it to what is left
\* of each timer, never gets to be anything else: what pool_arriving_events is
\* told says nothing of the timers.
THEOREM MinDelayAlwaysZero == Spec => [](minDelay = 0)
<1>1. IInv => minDelay = 0
  BY DEF IInv, ControlInv
<1> QED BY <1>1, InvariantHolds, PTL

-----------------------------------------------------------------------------
(* What holds of a script that clears nothing but what is still scheduled, *)
(* and neither the entry that is running nor the one saved as the next.    *)

\* No pass comes to a freed entry: `it' and the saved `tmp' are in its queue,
\* in this order, whatever the callbacks schedule and clear.
THEOREM CursorStays == ASSUME Careful PROVE Spec => []CursorInQueue
<1>1. IInv => CursorInQueue
  <2> SUFFICES ASSUME IInv PROVE CursorInQueue
    OBVIOUS
  <2>1. ASSUME InPass
        PROVE  /\ it \in ToSet(queue[phase])
               /\ \/ tmp = Sentinel
                  \/ /\ tmp \in ToSet(queue[phase])
                     /\ Position(queue[phase], it) < Position(queue[phase], tmp)
    <3>1. phase \in Queues /\ it # None
      BY <2>1 DEF InPass
    <3> QED BY <3>1, CursorFacts, EventLoopAssumption
  <2> QED BY <2>1 DEF IInv, CursorInv, CursorInQueue
<1> QED BY <1>1, InvariantHolds, PTL

\* The timer pass leaves behind no timer that was due when it began.
THEOREM NoTimerPassedOver == ASSUME Careful PROVE Spec => []NoDueTimerPassed
<1>1. IInv => NoDueTimerPassed
  <2> SUFFICES ASSUME IInv, InPass, phase = "timeout",
                      NEW i \in 1 .. Position(queue["timeout"], it) - 1
               PROVE  when[heap[queue["timeout"][i]]] > nowMsec
    BY DEF NoDueTimerPassed
  <2>1. "timeout" \in Queues /\ it # None
    BY DEF InPass, Queues
  <2>2. /\ queue["timeout"] \in Seq(Addr) /\ NoRepeat(queue["timeout"])
        /\ it \in ToSet(queue["timeout"])
    BY <2>1, CursorFacts, EventLoopAssumption
  <2>3. Position(queue["timeout"], it) \in 1 .. Len(queue["timeout"])
    BY <2>2, PositionFacts
  <2>4. i \in 1 .. Len(queue["timeout"])
    BY <2>3
  <2>5. queue["timeout"][i] \in ToSet(queue["timeout"])
    BY <2>4 DEF ToSet
  <2>6. Position(queue["timeout"], queue["timeout"][i]) = i
    BY <2>2, <2>4, <2>5, PositionFacts
  <2>7. Position(queue["timeout"], queue["timeout"][i]) < Position(queue["timeout"], it)
    BY <2>3, <2>6
  <2> QED BY <2>5, <2>7 DEF IInv, OrderInv
<1> QED BY <1>1, InvariantHolds, PTL

\* The tick pass and the immediate pass stand on the first entry of their queue:
\* what was scheduled first and not cleared has run.
THEOREM RunInOrder == ASSUME Careful PROVE Spec => []FirstInFirstOut
<1>1. IInv => FirstInFirstOut
  <2> SUFFICES ASSUME IInv, InPass, phase \in {"tick", "immediate"}
               PROVE  it = queue[phase][1]
    BY DEF FirstInFirstOut
  <2>1. phase \in Queues /\ it # None
    BY DEF InPass
  <2>2. /\ queue[phase] \in Seq(Addr) /\ NoRepeat(queue[phase])
        /\ it \in ToSet(queue[phase])
    BY <2>1, CursorFacts, EventLoopAssumption
  <2>3. Position(queue[phase], it) = 1
    BY DEF IInv, OrderInv
  <2> QED BY <2>2, <2>3, PositionFacts
<1> QED BY <1>1, InvariantHolds, PTL

\* Whatever immediates a pass leaves were set by its last callback.
THEOREM FewImmediatesWait == ASSUME Careful PROVE Spec => []OnlyLastImmediatesWait
<1>1. IInv => OnlyLastImmediatesWait
  BY DEF IInv, OrderInv
<1> QED BY <1>1, InvariantHolds, PTL

\* nodert_loop has called, or seen cancelled, every callback that was ever
\* scheduled when it returns, those excepted that its last immediate has set,
\* or a job has thrown: a callback that is still to be called has an entry in a
\* queue, or is a job.
THEOREM NobodyForgotten == ASSUME Careful PROVE Spec => []LeftAtExit
<1>1. ASSUME IInv PROVE LeftAtExit
  <2> SUFFICES ASSUME phase = "done", ~failed
               PROVE  \E last \in Callback \cup {None} :
                         /\ last # None => kind[last] = "immediate" /\ status[last] = "over"
                         /\ \A c \in Callback : status[c] \in {"once", "repeating"} =>
                               kind[c] = "immediate" /\ by[c] = last
    BY DEF LeftAtExit
  <2>1. PICK last \in Callback \cup {None} :
          /\ last # None => kind[last] = "immediate" /\ status[last] = "over"
          /\ \A a \in ToSet(queue["immediate"]) : by[heap[a]] = last
    BY <1>1 DEF IInv, OrderInv, OnlyLastImmediatesWait
  <2>2. ASSUME NEW c \in Callback, status[c] \in {"once", "repeating"}
        PROVE  kind[c] = "immediate" /\ by[c] = last
    <3>1. kind[c] # "job"
      <4>1. jobs = <<>> /\ running = None
        BY <1>1 DEF IInv, ExitInv, ControlInv
      <4>2. c \notin ToSet(jobs) /\ running # c
        BY <4>1, EventLoopAssumption DEF ToSet
      <4> QED BY <1>1, <2>2, <4>2 DEF IInv, JobsInv, Live
    <3>2. id[c] \in Addr /\ heap[id[c]] = c
      BY <1>1, <2>2, <3>1 DEF IInv, LifeInv, Live
    <3>3. PICK q \in Queues : id[c] \in ToSet(queue[q])
      BY <1>1, <3>2, EventLoopAssumption DEF IInv, HeapInv
    <3>4. q = "immediate"
      <4>1. ToSet(queue[q]) # {}
        BY <3>3
      <4>2. queue[q] # <<>>
        BY <4>1 DEF ToSet
      <4> QED BY <1>1, <4>2 DEF IInv, ExitInv
    <3>5. kind[c] = "immediate"
      BY <1>1, <3>2, <3>3, <3>4, QueueOfFacts DEF IInv, HeapInv
    <3> QED BY <2>1, <3>2, <3>3, <3>4, <3>5
  <2> QED BY <2>1, <2>2
<1> QED BY <1>1, InvariantHolds, PTL

-----------------------------------------------------------------------------
(* To such a script the loop keeps the promises of Callbacks.  The script  *)
(* itself, which is running from the beginning, counts as nobody there.    *)

Runs == IF running = Main THEN None ELSE running

\* Scheduling a callback is a step of Callbacks.
LEMMA ScheduleImplements ==
    ASSUME EventLoopAssumption, IInv, NEW c \in Callback, NEW k,
           NEW s \in {"once", "repeating"}, Schedule(c, k, s)
    PROVE  Abstract!Next
<1>1. status[c] = "idle"
  BY DEF IInv, LifeInv, Schedule
<1>2. Abstract!Schedule(c)
  BY <1>1 DEF Schedule, Abstract!Schedule
<1> QED BY <1>2 DEF Abstract!Next

\* The id is still the callback's own, and the callback does not run.
LEMMA ClearImplements ==
    ASSUME EventLoopAssumption, IInv, Careful, NEW c \in Callback, kind[c] # "job",
           NEW q \in {"timeout", "immediate"}, Clear(c, q)
    PROVE  Abstract!Next \/ UNCHANGED <<status, Runs>>
<1>1. /\ running # None /\ phase # "fault"
      /\ status[c] \in {"once", "repeating"}
      /\ InPass => id[c] # it
      /\ running' = running
  BY DEF Clear, InScript, MayClear
<1>2. heap[id[c]] = c
  BY <1>1 DEF IInv, LifeInv, Live
<1>3. running # c
  <2>1. CASE InPass
    <3>1. running = heap[it] /\ it \in ToSet(queue[phase]) /\ phase \in Queues
      BY <1>1, <2>1 DEF IInv, CursorInv, Steady, InPass
    <3>2. id[heap[it]] = it
      BY <3>1, EntryFacts DEF IInv
    <3> QED BY <1>1, <2>1, <3>1, <3>2
  <2>2. CASE ~InPass
    <3>1. phase \in {"script", "jobs"}
      BY <1>1, <2>2 DEF IInv, ControlInv, TypeOK, InPass
    <3>2. phase = "jobs" => kind[running] = "job"
      BY <1>1 DEF IInv, JobsInv
    <3>3. phase = "script" => running = Main
      BY DEF IInv, ControlInv
    <3> QED BY <3>1, <3>2, <3>3 DEF EventLoopAssumption
  <2> QED BY <2>1, <2>2
<1>4. CASE id[c] \in ToSet(queue[q])
  <2>1. Abstract!Cancel(c)
    BY <1>1, <1>2, <1>3, <1>4 DEF Clear, Abstract!Cancel, EventLoopAssumption
  <2> QED BY <2>1 DEF Abstract!Next
<1>5. CASE id[c] \notin ToSet(queue[q])
  BY <1>1, <1>5 DEF Clear, Runs
<1> QED BY <1>4, <1>5

\* Of careful scripts every step of a pass is one, or none.
LEMMA PassImplements ==
    ASSUME EventLoopAssumption, IInv, Careful, Pass
    PROVE  Abstract!Next \/ UNCHANGED <<status, Runs>>
<1>1. PICK q \in Queues :
         \/ PassBegin(q) \/ PassSkip(q) \/ PassCall(q)
         \/ PassFault(q) \/ PassRearm(q) \/ PassReturn(q)
  BY DEF Pass
<1>2. CASE PassBegin(q) \/ PassSkip(q) \/ PassFault(q)
  BY <1>2 DEF PassBegin, PassSkip, PassFault, Runs
<1>3. CASE PassCall(q)
  <2>1. /\ heap[it] \in Callback /\ it \in ToSet(queue[q])
        /\ running = None /\ running' = heap[it] /\ status' = status
    BY <1>3, CursorFacts DEF PassCall
  <2>2. status[heap[it]] \in {"once", "repeating"}
    BY <2>1, EntryFacts DEF IInv, LifeInv
  <2>3. Abstract!Call(heap[it])
    BY <2>1, <2>2 DEF Abstract!Call, EventLoopAssumption
  <2> QED BY <2>1, <2>3 DEF Abstract!Next
<1>4. CASE PassRearm(q) \/ PassReturn(q)
  <2>1. /\ phase = q /\ it \in ToSet(queue[q]) /\ running # None /\ running' = None
    BY <1>4 DEF PassRearm, PassReturn
  <2>2. /\ it \in Addr /\ heap[it] \in Callback /\ heap[it] # None
        /\ it # None /\ QueueOf(kind[heap[it]]) = q
    BY <2>1, EntryFacts DEF IInv
  <2>3. running = heap[it]
    BY <2>1, <2>2, CursorFacts
  <2>4. status[heap[it]] = IF interval[heap[it]] > 0 THEN "repeating" ELSE "once"
    BY <2>2 DEF IInv, LifeInv
  <2>5. status' = IF status[running] = "once" THEN [status EXCEPT ![running] = "over"]
                  ELSE status
    <3>1. CASE PassRearm(q)
      BY <2>3, <2>4, <3>1 DEF PassRearm
    <3>2. CASE PassReturn(q)
      <4>1. interval[heap[it]] > 0 => q = "timeout"
        BY <2>2 DEF IInv, LifeInv, QueueOf
      <4> QED BY <2>3, <2>4, <3>2, <4>1 DEF PassReturn
    <3> QED BY <1>4, <3>1, <3>2
  <2>6. Abstract!Return(running)
    BY <2>1, <2>2, <2>3, <2>5 DEF Abstract!Return, EventLoopAssumption
  <2> QED BY <2>2, <2>3, <2>6 DEF Abstract!Next
<1> QED BY <1>1, <1>2, <1>3, <1>4

\* So are the steps of jobs.
LEMMA JobImplements ==
    ASSUME EventLoopAssumption, IInv, JobCall \/ JobReturn \/ JobThrow
    PROVE  Abstract!Next
<1>1. CASE JobCall
  <2>1. /\ Head(jobs) \in Callback /\ status[Head(jobs)] = "once"
        /\ running = None /\ running' = Head(jobs) /\ status' = status
    BY <1>1, JobCallKeeps DEF JobCall
  <2>2. Abstract!Call(Head(jobs))
    BY <2>1 DEF Abstract!Call, EventLoopAssumption
  <2> QED BY <2>1, <2>2 DEF Abstract!Next
<1>2. CASE JobReturn \/ JobThrow
  <2>1. /\ phase = "jobs" /\ running # None /\ running' = None
        /\ status' = [status EXCEPT ![running] = "over"]
    BY <1>2 DEF JobReturn, JobThrow
  <2>2. running \in Callback /\ status[running] = "once"
    BY <2>1 DEF IInv, TypeOK, JobsInv, ControlInv
  <2>3. Abstract!Return(running)
    BY <2>1, <2>2 DEF Abstract!Return, EventLoopAssumption
  <2> QED BY <2>2, <2>3 DEF Abstract!Next
<1> QED BY <1>1, <1>2

\* One callback at a time, each one-shot at most once, none that is cancelled:
\* every step of the loop and of the scripts it runs is one of Callbacks or none
\* at all.
THEOREM Refinement == ASSUME Careful PROVE Spec => ImplementsCallbacks
<1>1. Init => Abstract!Init
  BY DEF Init, Abstract!Init
<1>2. IInv /\ [Next]_vars => [Abstract!Next]_<<status, Runs>>
  <2> SUFFICES ASSUME IInv, [Next]_vars
               PROVE  Abstract!Next \/ UNCHANGED <<status, Runs>>
    OBVIOUS
  <2> USE EventLoopAssumption
  <2>1. CASE API
    <3>1. PICK c \in Callback :
             \/ setTimeout(c) \/ setInterval(c) \/ setImmediate(c) \/ nextTick(c)
             \/ pseudo_marco(c) \/ AsyncCall(c) \/ EnqueueJob(c)
             \/ clearTimeout(c) \/ clearImmediate(c)
      BY <2>1 DEF API
    <3>2. CASE clearTimeout(c) \/ clearImmediate(c)
      <4>1. PICK q \in {"timeout", "immediate"} : Clear(c, q) /\ kind[c] # "job"
        BY <3>2 DEF clearTimeout, clearImmediate
      <4> QED BY <4>1, ClearImplements
    <3>3. CASE ~(clearTimeout(c) \/ clearImmediate(c))
      <4>1. \E k, s : s \in {"once", "repeating"} /\ Schedule(c, k, s)
        BY <3>1, <3>3 DEF setTimeout, setInterval, setImmediate, nextTick,
                          pseudo_marco, AsyncCall, EnqueueJob
      <4> QED BY <4>1, ScheduleImplements
    <3> QED BY <3>2, <3>3
  <2>2. CASE Pass
    BY <2>2, PassImplements
  <2>3. CASE JobCall \/ JobReturn \/ JobThrow
    BY <2>3, JobImplements
  <2>4. CASE EnterLoop
    <3>1. running = Main
      BY <2>4 DEF EnterLoop, IInv, ControlInv
    <3> QED BY <2>4, <3>1 DEF EnterLoop, Runs, EventLoopAssumption
  <2>5. CASE JobsDone \/ Decide \/ Poll \/ Tick \/ \E c \in Callback : WorkerDone(c)
    BY <2>5 DEF JobsDone, Decide, Poll, Tick, WorkerDone, Runs
  <2>6. CASE UNCHANGED vars
    BY <2>6 DEF vars, Runs
  <2> QED BY <2>1, <2>2, <2>3, <2>4, <2>5, <2>6 DEF Next, Loop
<1> QED
  BY <1>1, <1>2, InvariantHolds, PTL DEF Spec, ImplementsCallbacks, Abstract!Spec, Runs
=============================================================================
