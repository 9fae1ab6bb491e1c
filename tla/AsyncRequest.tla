---------------------------- MODULE AsyncRequest ----------------------------
(***************************************************************************)
(* What push_to_generic_event_queue promises its caller, whatever threads  *)
(* and queues are behind it: the request is refused on the spot, or its    *)
(* work is done, once, and then its callback is called, once.              *)
(* GenericQueue implements this specification.                             *)
(***************************************************************************)
CONSTANT Request

VARIABLE state          \* how far each request has come

States == {"idle", "refused", "accepted", "completed", "delivered"}

TypeOK == state \in [Request -> States]

Init == state = [r \in Request |-> "idle"]

Move(r, from, to) ==
    /\ state[r] = from
    /\ state' = [state EXCEPT ![r] = to]

Accept(r) == Move(r, "idle", "accepted")

\* A request that needs no worker is complete when it is accepted.
AcceptCompleted(r) == Move(r, "idle", "completed")

Refuse(r) == Move(r, "idle", "refused")

Complete(r) == Move(r, "accepted", "completed")

Deliver(r) == Move(r, "completed", "delivered")

Next == \E r \in Request :
            \/ Accept(r)
            \/ AcceptCompleted(r)
            \/ Refuse(r)
            \/ Complete(r)
            \/ Deliver(r)

Spec == Init /\ [][Next]_state

\* An accepted request's callback is called in the end.
EventuallyDelivered ==
    \A r \in Request : state[r] \in {"accepted", "completed"} ~> state[r] = "delivered"
=============================================================================
