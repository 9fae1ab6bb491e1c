----------------------------- MODULE Callbacks -----------------------------
(***************************************************************************)
(* What the timer API promises a script, without queues or a loop: one     *)
(* callback at a time and to its end, a one-shot callback at most once, a  *)
(* cancelled callback never again.  EventLoop implements this              *)
(* specification for scripts that keep its clearing discipline.            *)
(***************************************************************************)
CONSTANTS Callback,     \* the callbacks a script may schedule
          Nobody        \* stands for "no JavaScript is running"

VARIABLES status,       \* where each callback is in its life
          running       \* the callback that is running

Init ==
    /\ status = [c \in Callback |-> "idle"]
    /\ running = Nobody

Schedule(c) ==
    /\ status[c] = "idle"
    /\ \E s \in {"once", "repeating"} : status' = [status EXCEPT ![c] = s]
    /\ UNCHANGED running

Cancel(c) ==
    /\ status[c] \in {"once", "repeating"}
    /\ running # c
    /\ status' = [status EXCEPT ![c] = "cancelled"]
    /\ UNCHANGED running

Call(c) ==
    /\ running = Nobody
    /\ status[c] \in {"once", "repeating"}
    /\ running' = c
    /\ UNCHANGED status

Return(c) ==
    /\ running = c
    /\ running' = Nobody
    /\ status' = IF status[c] = "once" THEN [status EXCEPT ![c] = "over"]
                 ELSE status

Next == \E c \in Callback : Schedule(c) \/ Cancel(c) \/ Call(c) \/ Return(c)

Spec == Init /\ [][Next]_<<status, running>>
=============================================================================
