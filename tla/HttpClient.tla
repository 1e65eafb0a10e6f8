----------------------------- MODULE HttpClient -----------------------------
(***************************************************************************)
(* The HTTP client of core/network/impl/NetworkManagerComponentImpl.cpp.   *)
(* Callers hand requests to NetworkManagerComponent::SendRequest and may   *)
(* cancel them from any thread.  One poll thread starts the connections,   *)
(* reaps what was cancelled, completes what curl has finished and, once    *)
(* Stop clears _running, cancels everything it still holds.  The           *)
(* destructor cancels what was queued after the poll thread had gone.      *)
(*                                                                         *)
(* SetResponse is two steps, as in the code: a locked one that settles the *)
(* request and takes the handler, and the call of the handler after the    *)
(* unlock.  The order of _newRequests and of the map of active requests is *)
(* abstracted to sets: curl runs all transfers side by side.               *)
(***************************************************************************)
EXTENDS Naturals

CONSTANTS
    Requests,   \* the requests the callers may make
    Callers,    \* the threads that send and cancel
    Poll,       \* the poll thread
    Owner,      \* the thread that stops and destroys the manager
    NoReq       \* no request

ASSUME ThreadsAssumption ==
    /\ Poll \notin Callers
    /\ Owner \notin Callers
    /\ Poll # Owner
    /\ NoReq \notin Requests

Threads == Callers \union {Poll, Owner}

VARIABLES
    state,      \* HttpClientPendingRequest::_state, "none" before it is made
    armed,      \* _responseHandler is set
    attached,   \* _curl and _headers are held
    loc,        \* who holds the request: new, batch, active, or nobody (done)
    calling,    \* the request whose handler a thread has taken and will call
    calls,      \* how often each handler has been called
    running,    \* NetworkManagerComponent::_running
    pc,         \* where the poll thread is
    todo,       \* what is left of the poll thread's current loop
    cur,        \* the request the poll thread is finishing
    mgr         \* the manager: "up", "destroying" or "gone"

reqVars == <<state, armed, calling>>
pollVars == <<pc, todo, cur>>
mgrVars == <<running, mgr>>
vars == <<reqVars, attached, loc, calls, pollVars, mgrVars>>

Outcomes == {"complete", "error", "cancelled"}

At(l) == {r \in Requests : loc[r] = l}

Init ==
    /\ state = [r \in Requests |-> "none"]
    /\ armed = [r \in Requests |-> FALSE]
    /\ attached = [r \in Requests |-> FALSE]
    /\ loc = [r \in Requests |-> "none"]
    /\ calling = [t \in Threads |-> NoReq]
    /\ calls = [r \in Requests |-> 0]
    /\ running = TRUE
    /\ pc = "swap"
    /\ todo = {}
    /\ cur = NoReq
    /\ mgr = "up"

-----------------------------------------------------------------------------
(* HttpClientPendingRequest.                                               *)

\* Mutant of SetResponse: a settled request is settled again.
SetResponseOverwrites(t, r, o) ==
    /\ state' = [state EXCEPT ![r] = o]
    /\ armed' = [armed EXCEPT ![r] = FALSE]
    /\ calling' = [calling EXCEPT ![t] = IF armed[r] THEN r ELSE NoReq]

\* The part of SetResponse under _mutex: settle the request unless it is
\* settled, and take the handler out of it.
SetResponse(t, r, o) ==
    /\ state' = [state EXCEPT ![r] = IF @ = "requesting" THEN o ELSE @]
    /\ armed' = [armed EXCEPT ![r] = FALSE]
    /\ calling' = [calling EXCEPT ![t] = IF armed[r] THEN r ELSE NoReq]

\* After the unlock: the thread that took the handler calls it.
CallHandler(t) ==
    /\ calling[t] # NoReq
    /\ calls' = [calls EXCEPT ![calling[t]] = @ + 1]
    /\ calling' = [calling EXCEPT ![t] = NoReq]
    /\ UNCHANGED <<state, armed, attached, loc, pollVars, mgrVars>>

\* Mutant of Released: the easy handle stays in the multi handle.
NotReleased(r) == attached

\* ReleaseConnection: _curl and _headers are given back.
Released(r) == [attached EXCEPT ![r] = FALSE]

IsCancelled(r) == state[r] = "cancelled"

\* Mutant of CancelHeld: the request is dropped without an answer.
DropHeld(t, r) == UNCHANGED reqVars

\* The shutdown paths: a request that is still held is cancelled.
CancelHeld(t, r) == SetResponse(t, r, "cancelled")

-----------------------------------------------------------------------------
(* The callers.                                                            *)

\* SendRequest: an http:// or https:// URL is queued under _requestMutex,
\* which the poll thread holds while it drains the queue at shutdown; for any
\* other the error is set, and the handler called, by the caller itself.  The
\* caller's HttpClientRequest keeps the manager alive.
SendRequest(t, r) ==
    /\ mgr = "up"
    /\ calling[t] = NoReq
    /\ state[r] = "none"
    /\ \/ /\ pc # "drainNew"
          /\ state' = [state EXCEPT ![r] = "requesting"]
          /\ armed' = [armed EXCEPT ![r] = TRUE]
          /\ loc' = [loc EXCEPT ![r] = "new"]
          /\ UNCHANGED calling
       \/ /\ state' = [state EXCEPT ![r] = "error"]
          /\ calling' = [calling EXCEPT ![t] = r]
          /\ loc' = [loc EXCEPT ![r] = "done"]
          /\ UNCHANGED armed
    /\ UNCHANGED <<attached, calls, pollVars, mgrVars>>

CancelRequest(t, r) ==
    /\ calling[t] = NoReq
    /\ state[r] # "none"
    /\ SetResponse(t, r, "cancelled")
    /\ UNCHANGED <<attached, loc, calls, pollVars, mgrVars>>

-----------------------------------------------------------------------------
(* NetworkManagerComponent::Poll.                                          *)

PollAt(l) == pc = l /\ calling[Poll] = NoReq

\* The head of the loop: leave it when _running is clear, otherwise swap
\* _newRequests out under _requestMutex.
PollSwap ==
    /\ PollAt("swap")
    /\ pc' = IF running THEN "start" ELSE "drainNew"
    /\ loc' = [r \in Requests |-> IF running /\ loc[r] = "new"
                                  THEN "batch" ELSE loc[r]]
    /\ UNCHANGED <<reqVars, attached, calls, todo, cur, mgrVars>>

\* A request cancelled while it was queued is dropped; for any other the
\* connection is created, or can't be (curl_easy_init failed).
StartRequest(r) ==
    /\ PollAt("start")
    /\ loc[r] = "batch"
    /\ \/ /\ IsCancelled(r)
          /\ loc' = [loc EXCEPT ![r] = "done"]
          /\ UNCHANGED <<reqVars, attached>>
       \/ /\ ~IsCancelled(r)
          /\ attached' = [attached EXCEPT ![r] = TRUE]
          /\ loc' = [loc EXCEPT ![r] = "active"]
          /\ UNCHANGED reqVars
       \/ /\ ~IsCancelled(r)
          /\ SetResponse(Poll, r, "error")
          /\ loc' = [loc EXCEPT ![r] = "done"]
          /\ UNCHANGED attached
    /\ UNCHANGED <<calls, pollVars, mgrVars>>

BatchStarted ==
    /\ PollAt("start")
    /\ At("batch") = {}
    /\ pc' = "reap"
    /\ todo' = At("active")
    /\ UNCHANGED <<reqVars, attached, loc, calls, cur, mgrVars>>

\* One turn of the loop that closes the connections of cancelled requests.
Reap(r) ==
    /\ PollAt("reap")
    /\ r \in todo
    /\ todo' = todo \ {r}
    /\ IF IsCancelled(r)
       THEN attached' = Released(r) /\ loc' = [loc EXCEPT ![r] = "done"]
       ELSE UNCHANGED <<attached, loc>>
    /\ UNCHANGED <<reqVars, calls, pc, cur, mgrVars>>

\* curl_multi_perform moves the transfers on; any of them may have ended.
Perform ==
    /\ PollAt("reap")
    /\ todo = {}
    /\ pc' = "complete"
    /\ \E ended \in SUBSET At("active") : todo' = ended
    /\ UNCHANGED <<reqVars, attached, loc, calls, cur, mgrVars>>

CompleteConnection(r) ==
    /\ PollAt("complete")
    /\ r \in todo
    /\ \E o \in {"complete", "error"} : SetResponse(Poll, r, o)
    /\ todo' = todo \ {r}
    /\ cur' = r
    /\ pc' = "release"
    /\ UNCHANGED <<attached, loc, calls, mgrVars>>

\* After the handler has returned the request leaves _activeRequests.
ReleaseConnection ==
    /\ PollAt("release") \/ PollAt("drainRelease")
    /\ attached' = Released(cur)
    /\ loc' = [loc EXCEPT ![cur] = "done"]
    /\ cur' = NoReq
    /\ pc' = IF pc = "release" THEN "complete" ELSE "drainActive"
    /\ UNCHANGED <<reqVars, calls, todo, mgrVars>>

PassEnds ==
    /\ PollAt("complete")
    /\ todo = {}
    /\ pc' = "swap"
    /\ UNCHANGED <<reqVars, attached, loc, calls, todo, cur, mgrVars>>

\* Shutdown, under _requestMutex: cancel everything that is still queued.
DrainNew(r) ==
    /\ PollAt("drainNew")
    /\ loc[r] = "new"
    /\ CancelHeld(Poll, r)
    /\ loc' = [loc EXCEPT ![r] = "done"]
    /\ UNCHANGED <<attached, calls, pollVars, mgrVars>>

NewDrained ==
    /\ PollAt("drainNew")
    /\ At("new") = {}
    /\ pc' = "drainActive"
    /\ UNCHANGED <<reqVars, attached, loc, calls, todo, cur, mgrVars>>

\* Shutdown: cancel everything in flight; ReleaseConnection follows.
DrainActive(r) ==
    /\ PollAt("drainActive")
    /\ loc[r] = "active"
    /\ CancelHeld(Poll, r)
    /\ cur' = r
    /\ pc' = "drainRelease"
    /\ UNCHANGED <<attached, loc, calls, todo, mgrVars>>

PollExits ==
    /\ PollAt("drainActive")
    /\ At("active") = {}
    /\ pc' = "exited"
    /\ UNCHANGED <<reqVars, attached, loc, calls, todo, cur, mgrVars>>

PollStep ==
    \/ PollSwap \/ BatchStarted \/ Perform \/ ReleaseConnection \/ PassEnds
    \/ NewDrained \/ PollExits
    \/ \E r \in Requests :
          \/ StartRequest(r) \/ Reap(r) \/ CompleteConnection(r)
          \/ DrainNew(r) \/ DrainActive(r)

-----------------------------------------------------------------------------
(* Stop and the destructor.                                                *)

Stop ==
    /\ running
    /\ running' = FALSE
    /\ UNCHANGED <<reqVars, attached, loc, calls, pollVars, mgr>>

\* The last reference to the manager is dropped and Stop has joined the poll
\* thread; nothing can send any more.
Destroy ==
    /\ mgr = "up"
    /\ ~running
    /\ pc = "exited"
    /\ mgr' = "destroying"
    /\ UNCHANGED <<reqVars, attached, loc, calls, pollVars, running>>

\* The destructor cancels what was queued after the poll thread exited.
CancelLeftover(r) ==
    /\ mgr = "destroying"
    /\ calling[Owner] = NoReq
    /\ loc[r] = "new"
    /\ CancelHeld(Owner, r)
    /\ loc' = [loc EXCEPT ![r] = "done"]
    /\ UNCHANGED <<attached, calls, pollVars, mgrVars>>

Destroyed ==
    /\ mgr = "destroying"
    /\ calling[Owner] = NoReq
    /\ At("new") = {}
    /\ mgr' = "gone"
    /\ UNCHANGED <<reqVars, attached, loc, calls, pollVars, running>>

Next ==
    \/ \E t \in Callers, r \in Requests : SendRequest(t, r) \/ CancelRequest(t, r)
    \/ \E t \in Threads : CallHandler(t)
    \/ PollStep
    \/ Stop
    \/ Destroy
    \/ \E r \in Requests : CancelLeftover(r)
    \/ Destroyed

\* The operating system runs every thread that can run.  Nothing is assumed
\* of the remote servers (Perform may find nothing ended for ever), of the
\* callers or of the owner's decision to stop.
Fairness ==
    /\ WF_vars(PollStep)
    /\ \A t \in Threads : WF_vars(CallHandler(t))

SafeSpec == Init /\ [][Next]_vars

Spec == SafeSpec /\ Fairness

-----------------------------------------------------------------------------
PollPCs == {"swap", "start", "reap", "complete", "release", "drainNew",
            "drainActive", "drainRelease", "exited"}

\* The type invariant of the client's variables; the poll thread has a current
\* request exactly while it finishes one.
TypeOK ==
    /\ state \in [Requests -> Outcomes \union {"none", "requesting"}]
    /\ armed \in [Requests -> BOOLEAN]
    /\ attached \in [Requests -> BOOLEAN]
    /\ loc \in [Requests -> {"none", "new", "batch", "active", "done"}]
    /\ calling \in [Threads -> Requests \union {NoReq}]
    /\ calls \in [Requests -> Nat]
    /\ running \in BOOLEAN
    /\ pc \in PollPCs
    /\ todo \in SUBSET Requests
    /\ cur \in Requests \union {NoReq}
    /\ cur # NoReq <=> pc \in {"release", "drainRelease"}
    /\ mgr \in {"up", "destroying", "gone"}

\* The handler of a request is called at most once, whichever of a caller's
\* CancelRequest, the poll thread's CompleteConnection and the shutdown come
\* first (the comment in SetResponse: "the response handler should only fire
\* once").
HandlerFiresAtMostOnce == \A r \in Requests : calls[r] <= 1

\* A request that has been handed in and not answered is never forgotten:
\* some thread is about to call its handler, or the handler is still armed
\* and the request is somewhere the poll thread or the destructor will find
\* it.
NoRequestOrphaned ==
    \A r \in Requests :
        state[r] # "none" /\ calls[r] = 0 =>
            \/ \E t \in Threads : calling[t] = r
            \/ armed[r] /\ loc[r] \in {"new", "batch", "active"}

\* The poll thread lets go of a request only after it has released its curl
\* handle and headers: the _ASSERTE(!_curl && !_headers) of the destructor.
DroppedRequestsAreDetached ==
    \A r \in Requests : attached[r] => loc[r] = "active"

\* When the destructor of the manager has finished, every request that was
\* ever handed in has been answered, or the answering thread is on its way
\* into the handler.
DestructionAnswersAll ==
    mgr = "gone" =>
        \A r \in Requests : state[r] # "none" =>
            calls[r] = 1 \/ \E t \in Callers : calling[t] = r

\* Stop answers everything the poll thread has taken or will still find in
\* its queue, even when no server ever responds.
StopAnswersHeldRequests ==
    \A r \in Requests :
        (/\ ~running
         /\ \/ loc[r] \in {"batch", "active"}
            \/ loc[r] = "new" /\ pc \notin {"drainActive", "drainRelease",
                                            "exited"})
            ~> calls[r] = 1

\* The client implements the promise.
Promise == INSTANCE HttpPromise WITH promise <- state, deliveries <- calls

ImplementsPromise == Promise!Spec

\* It keeps it however late it is stopped: what Stop finds is answered too.
ClientKeepsPromise == ImplementsPromise /\ StopAnswersHeldRequests
=============================================================================
