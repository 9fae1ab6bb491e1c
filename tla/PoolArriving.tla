---------------------------- MODULE PoolArriving ----------------------------
(***************************************************************************)
(* pool_arriving_events of src/nodert.c: how long the JavaScript thread    *)
(* sleeps when it has nothing to do.  It cannot be woken: it looks for a   *)
(* finished request after every 16 ms, after a while after every 128 ms,   *)
(* and stops looking when min_delay is over, or never if min_delay is 0.   *)
(* nodert_loop never calls it with anything but 0 (see EventLoopProofs):   *)
(* what is said of other delays is the promise of the function alone.      *)
(***************************************************************************)
EXTENDS Integers

CONSTANTS Delays,       \* the values of min_delay
          DwordSize     \* 2^32: Sleep takes a DWORD, min_delay is a uint64_t

POOL_INTERVAL_I == 16
POOL_INTERVAL_II == 128
MAX_POOL_TIMES_I == 8

ASSUME PoolAssumption ==
    /\ Delays \subseteq Nat
    /\ DwordSize \in Nat \ {0}

VARIABLES
    stage,              \* where pool_arriving_events is
    pending,            \* whether any request is pending; only the sleeping
                        \* thread could change that
    arrived,            \* whether one of them is done
    asked,              \* the argument min_delay
    minDelay,           \* the variable min_delay
    poolTimes,          \* pool_times_i
    rounds,             \* max_pool_times_i
    i,                  \* the loop variable
    slept,              \* history: the milliseconds slept in the loops that end
    late                \* history: the milliseconds slept since the arrival

sleepVars == <<stage, pending, arrived, asked, minDelay, poolTimes, rounds, i, slept, late>>

\* min_delay / interval, rounded up
Rounds_down(d, interval) == d \div interval
Rounds(d, interval) == (d + interval - 1) \div interval

SleepInit ==
    /\ stage = "enter"
    /\ pending \in BOOLEAN
    /\ arrived = FALSE
    /\ asked \in Delays
    /\ minDelay = asked
    /\ poolTimes = 0 /\ rounds = 0 /\ i = 0
    /\ slept = 0 /\ late = 0

\* The delay for which Sleep never returns: INFINITE, all ones.
Infinite == DwordSize - 1

\* Nothing to look for: one sleep, of the delay cut to 32 bits.
SleepOnce ==
    /\ stage = "enter" /\ ~pending
    /\ minDelay % DwordSize # Infinite
    /\ slept' = minDelay % DwordSize
    /\ stage' = "return"
    /\ UNCHANGED <<pending, arrived, asked, minDelay, poolTimes, rounds, i, late>>

\* No timer to wake up for: eight short rounds, then long ones for ever.
EnterForever ==
    /\ stage = "enter" /\ pending /\ minDelay = 0
    /\ rounds' = MAX_POOL_TIMES_I
    /\ stage' = "short"
    /\ UNCHANGED <<pending, arrived, asked, minDelay, poolTimes, i, slept, late>>

\* As many short rounds as the delay takes, at most eight.
EnterTimed ==
    /\ stage = "enter" /\ pending /\ minDelay # 0
    /\ poolTimes' = Rounds(minDelay, POOL_INTERVAL_I)
    /\ rounds' = IF poolTimes' < MAX_POOL_TIMES_I THEN poolTimes' ELSE MAX_POOL_TIMES_I
    /\ stage' = "short"
    /\ UNCHANGED <<pending, arrived, asked, minDelay, i, slept, late>>

\* Sleep(ms), and return if a request is done.
Round_deaf(ms) ==
    /\ slept' = IF asked = 0 THEN slept ELSE slept + ms
    /\ late' = IF arrived THEN late + ms ELSE late
    /\ UNCHANGED stage

Round(ms) ==
    /\ slept' = IF asked = 0 THEN slept ELSE slept + ms
    /\ late' = IF arrived THEN late + ms ELSE late
    /\ stage' = IF arrived THEN "return" ELSE stage

ShortRound ==
    /\ stage = "short" /\ i < rounds
    /\ Round(POOL_INTERVAL_I)
    /\ i' = i + 1
    /\ UNCHANGED <<pending, arrived, asked, minDelay, poolTimes, rounds>>

\* if(pool_times_i == max_pool_times_i) return;
ShortRoundsAreEnough ==
    /\ stage = "short" /\ i = rounds /\ asked # 0
    /\ poolTimes = rounds
    /\ stage' = "return"
    /\ UNCHANGED <<pending, arrived, asked, minDelay, poolTimes, rounds, i, slept, late>>

\* The delay of which no round has been subtracted.
EnterLong_whole ==
    /\ stage = "short" /\ i = rounds /\ asked # 0
    /\ poolTimes # rounds
    /\ rounds' = Rounds(minDelay, POOL_INTERVAL_II)
    /\ i' = 0
    /\ stage' = "long"
    /\ UNCHANGED <<pending, arrived, asked, minDelay, poolTimes, slept, late>>

\* The rest of the delay, in long rounds.
EnterLong ==
    /\ stage = "short" /\ i = rounds /\ asked # 0
    /\ poolTimes # rounds
    /\ minDelay' = minDelay - rounds * POOL_INTERVAL_I
    /\ rounds' = Rounds(minDelay', POOL_INTERVAL_II)
    /\ i' = 0
    /\ stage' = "long"
    /\ UNCHANGED <<pending, arrived, asked, poolTimes, slept, late>>

LongRound ==
    /\ stage = "long" /\ i < rounds
    /\ Round(POOL_INTERVAL_II)
    /\ i' = i + 1
    /\ UNCHANGED <<pending, arrived, asked, minDelay, poolTimes, rounds>>

\* One round too many to end the loop.
LongRoundsDone_off ==
    /\ stage = "long" /\ i > rounds
    /\ stage' = "return"
    /\ UNCHANGED <<pending, arrived, asked, minDelay, poolTimes, rounds, i, slept, late>>

LongRoundsDone ==
    /\ stage = "long" /\ i = rounds
    /\ stage' = "return"
    /\ UNCHANGED <<pending, arrived, asked, minDelay, poolTimes, rounds, i, slept, late>>

\* while(true)
ForeverRound ==
    /\ stage = "short" /\ i = rounds /\ asked = 0
    /\ Round(POOL_INTERVAL_II)
    /\ UNCHANGED <<pending, arrived, asked, minDelay, poolTimes, rounds, i>>

PoolArriving ==
    \/ SleepOnce
    \/ EnterForever
    \/ EnterTimed
    \/ ShortRound
    \/ ShortRoundsAreEnough
    \/ EnterLong
    \/ LongRound
    \/ LongRoundsDone
    \/ ForeverRound

\* A pool thread sets a request's `done' flag.
Arrive ==
    /\ stage # "return" /\ pending /\ ~arrived
    /\ arrived' = TRUE
    /\ UNCHANGED <<stage, pending, asked, minDelay, poolTimes, rounds, i, slept, late>>

SleepNext == PoolArriving \/ Arrive

SleepSpec == SleepInit /\ [][SleepNext]_sleepVars

\* Sleep returns; a worker that is waited for finishes.
FairSleepSpec == SleepSpec /\ WF_sleepVars(PoolArriving) /\ WF_sleepVars(Arrive)

-----------------------------------------------------------------------------
\* The unsigned min_delay never wraps when the short rounds are taken off it:
\* MAX(min_delay, 0) could not have caught that.
SleepTypeOK ==
    /\ stage \in {"enter", "short", "long", "return"}
    /\ pending \in BOOLEAN /\ arrived \in BOOLEAN
    /\ asked \in Delays
    /\ minDelay \in Nat
    /\ poolTimes \in Nat /\ rounds \in Nat /\ i \in Nat
    /\ slept \in Nat /\ late \in Nat

\* Without a finished request the thread sleeps until the delay is over and
\* not a long round longer; with a delay of 0 it goes on until there is one.
TimeoutOnTime ==
    stage = "return" /\ pending /\ ~arrived =>
        /\ asked # 0
        /\ asked <= slept
        /\ slept < asked + (IF asked <= MAX_POOL_TIMES_I * POOL_INTERVAL_I
                            THEN POOL_INTERVAL_I ELSE POOL_INTERVAL_II)

\* A request that is done while the thread sleeps is seen at the end of the
\* round: at most a long round later, and a short one while the short rounds
\* last.
AnswerSeen ==
    /\ late <= POOL_INTERVAL_II
    /\ late > POOL_INTERVAL_I =>
          asked = 0 \/ slept > MAX_POOL_TIMES_I * POOL_INTERVAL_I
    /\ late > 0 => stage = "return"

\* The sleep is over in the end, unless it is one that Windows takes for ever.
Returns == pending \/ asked % DwordSize # Infinite => <>(stage = "return")
=============================================================================
