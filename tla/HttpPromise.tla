---------------------------- MODULE HttpPromise ----------------------------
(***************************************************************************)
(* What the asynchronous HTTP client promises to its callers, whatever     *)
(* thread ends a request: a request handed in is settled once, with one    *)
(* outcome that never changes again, and its response handler is called    *)
(* exactly once, after it is settled.                                      *)
(***************************************************************************)
CONSTANTS
    Requests    \* the requests a caller may hand in

VARIABLES
    promise,    \* what GetRequestState reports of each request
    deliveries  \* how often each response handler has been called

vars == <<promise, deliveries>>

Outcomes == {"complete", "error", "cancelled"}

Init ==
    /\ promise = [r \in Requests |-> "none"]
    /\ deliveries = [r \in Requests |-> 0]

Send(r) ==
    /\ promise[r] = "none"
    /\ promise' = [promise EXCEPT ![r] = "requesting"]
    /\ UNCHANGED deliveries

\* A request that can't be sent at all is settled by the call that makes it.
Refuse(r) ==
    /\ promise[r] = "none"
    /\ promise' = [promise EXCEPT ![r] = "error"]
    /\ UNCHANGED deliveries

Settle(r) ==
    /\ promise[r] = "requesting"
    /\ \E o \in Outcomes : promise' = [promise EXCEPT ![r] = o]
    /\ UNCHANGED deliveries

Deliver(r) ==
    /\ promise[r] \in Outcomes
    /\ deliveries[r] = 0
    /\ deliveries' = [deliveries EXCEPT ![r] = 1]
    /\ UNCHANGED promise

Next == \E r \in Requests : Send(r) \/ Refuse(r) \/ Settle(r) \/ Deliver(r)

Fairness == \A r \in Requests : WF_vars(Deliver(r))

SafeSpec == Init /\ [][Next]_vars

Spec == SafeSpec /\ Fairness
============================================================================
