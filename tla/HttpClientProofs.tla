-------------------------- MODULE HttpClientProofs --------------------------
(***************************************************************************)
(* For any sets of requests and callers: the type invariant of HttpClient, *)
(* its safety invariants, and the refinement of HttpPromise's safety part. *)
(* Behind them, for the groups of HttpClientGroup and any addresses, which *)
(* response is delivered under which handle.                               *)
(***************************************************************************)
EXTENDS HttpClient, HttpClientGroup, TLAPS

\* The thread that has taken a handler is the only one to have it, and it is
\* out of the request by then.
CallingOK ==
    /\ \A t \in Threads : calling[t] # NoReq =>
          /\ state[calling[t]] \in Outcomes
          /\ calls[calling[t]] = 0
    /\ \A t, u \in Threads :
          calling[t] = calling[u] /\ calling[t] # NoReq => t = u

\* A request is armed exactly while it is requesting, and only a settled
\* request has been answered, once.
SettledOK ==
    \A r \in Requests :
        /\ armed[r] <=> state[r] = "requesting"
        /\ state[r] = "none" <=> loc[r] = "none"
        /\ state[r] = "requesting" => loc[r] \in {"new", "batch", "active"}
        /\ calls[r] \in {0, 1}
        /\ calls[r] = 1 => state[r] \in Outcomes
        /\ state[r] \in Outcomes /\ calls[r] = 0 =>
              \E t \in Threads : calling[t] = r
        /\ attached[r] => loc[r] = "active"

\* What the poll thread's program counter says of its containers.
PollOK ==
    /\ pc \in {"reap", "complete", "release"} =>
          \A r \in todo : loc[r] = "active"
    /\ pc \in {"release", "drainRelease"} =>
          /\ cur \in Requests
          /\ loc[cur] = "active"
          /\ state[cur] \in Outcomes
          /\ cur \notin todo \/ pc = "drainRelease"
    /\ pc # "start" => \A r \in Requests : loc[r] # "batch"
    /\ pc = "exited" =>
          /\ \A r \in Requests : loc[r] # "active"
          /\ calling[Poll] = NoReq

\* What the state of the manager says.
ManagerOK ==
    /\ mgr = "up" => calling[Owner] = NoReq
    /\ mgr # "up" => pc = "exited"
    /\ mgr = "gone" =>
          /\ calling[Owner] = NoReq
          /\ \A r \in Requests : loc[r] # "new"

IInv == TypeOK /\ CallingOK /\ SettledOK /\ PollOK /\ ManagerOK

-----------------------------------------------------------------------------
LEMMA InitIInv == Init => IInv
  BY ThreadsAssumption
  DEF Init, IInv, TypeOK, CallingOK, SettledOK, PollOK, ManagerOK, Threads,
      Outcomes, PollPCs

\* SetResponse of a request that has been handed in, by a thread that is not
\* calling a handler, keeps the books of handlers and answers.
LEMMA SetResponseBooks ==
  ASSUME IInv, NEW t \in Threads, NEW r \in Requests, NEW o \in Outcomes,
         calling[t] = NoReq, state[r] # "none", SetResponse(t, r, o),
         UNCHANGED calls
  PROVE  /\ state' \in [Requests -> Outcomes \union {"none", "requesting"}]
         /\ armed' \in [Requests -> BOOLEAN]
         /\ calling' \in [Threads -> Requests \union {NoReq}]
         /\ state'[r] \in Outcomes
         /\ \A q \in Requests \ {r} : state'[q] = state[q]
         /\ \A u \in Threads \ {t} : calling'[u] = calling[u]
         /\ CallingOK'
         /\ \A q \in Requests :
               /\ armed'[q] <=> state'[q] = "requesting"
               /\ state'[q] = "none" <=> state[q] = "none"
               /\ state'[q] = "requesting" => state[q] = "requesting"
               /\ calls'[q] = 1 => state'[q] \in Outcomes
               /\ state'[q] \in Outcomes /\ calls'[q] = 0 =>
                     \E u \in Threads : calling'[u] = q
<1> USE ThreadsAssumption DEF IInv, TypeOK
<1>1. /\ state' \in [Requests -> Outcomes \union {"none", "requesting"}]
      /\ armed' \in [Requests -> BOOLEAN]
      /\ calling' \in [Threads -> Requests \union {NoReq}]
      /\ state'[r] \in Outcomes
      /\ state[r] \in Outcomes => state'[r] = state[r]
      /\ \A q \in Requests \ {r} : state'[q] = state[q]
      /\ \A q \in Requests \ {r} : armed'[q] = armed[q]
      /\ \A u \in Threads \ {t} : calling'[u] = calling[u]
      /\ armed'[r] = FALSE
      /\ calling'[t] = IF armed[r] THEN r ELSE NoReq
  BY DEF SetResponse, Outcomes
<1>2. armed[r] => calls[r] = 0 /\ \A u \in Threads : calling[u] # r
  BY DEF SettledOK, CallingOK, Outcomes
<1>3. CallingOK'
  BY <1>1, <1>2 DEF CallingOK
<1>4. ASSUME NEW q \in Requests
      PROVE  /\ armed'[q] <=> state'[q] = "requesting"
             /\ state'[q] = "none" <=> state[q] = "none"
             /\ state'[q] = "requesting" => state[q] = "requesting"
             /\ calls'[q] = 1 => state'[q] \in Outcomes
  BY <1>1, <1>4 DEF SettledOK, Outcomes
<1>5. ASSUME NEW q \in Requests, state'[q] \in Outcomes, calls'[q] = 0
      PROVE  \E u \in Threads : calling'[u] = q
  <2>1. CASE q = r /\ armed[r]
    BY <1>1, <2>1
  <2>2. CASE q = r /\ ~armed[r]
    <3>1. state[r] \in Outcomes
      BY <2>2 DEF SettledOK, Outcomes
    <3>2. PICK u \in Threads : calling[u] = r
      BY <1>5, <2>2, <3>1 DEF SettledOK
    <3>3. QED
      BY <1>1, <2>2, <3>2
  <2>3. CASE q # r
    <3>1. PICK u \in Threads : calling[u] = q
      BY <1>1, <1>5, <2>3 DEF SettledOK
    <3>2. QED
      BY <1>1, <3>1
  <2>4. QED
    BY <2>1, <2>2, <2>3
<1>6. QED
  BY <1>1, <1>3, <1>4, <1>5

\* The actions that neither settle a request nor call a handler.
LEMMA QuietStep ==
  ASSUME IInv,
         \/ PollSwap
         \/ \E r \in Requests : Reap(r)
         \/ BatchStarted \/ Perform \/ ReleaseConnection \/ PassEnds
         \/ NewDrained \/ PollExits
         \/ Stop \/ Destroy \/ Destroyed
  PROVE  IInv'
<1> USE ThreadsAssumption
    DEF IInv, TypeOK, CallingOK, SettledOK, PollOK, ManagerOK, PollAt,
        reqVars, pollVars, mgrVars, At, PollPCs
<1>1. CASE PollSwap
  BY <1>1 DEF PollSwap
<1>2. ASSUME NEW r \in Requests, Reap(r)
      PROVE  IInv'
  <2>1. CASE state[r] = "cancelled"
    <3>1. /\ loc[r] = "active" /\ pc = "reap"
          /\ attached' = [attached EXCEPT ![r] = FALSE]
          /\ loc' = [loc EXCEPT ![r] = "done"]
          /\ todo' = todo \ {r}
          /\ UNCHANGED <<state, armed, calling, calls, running, pc, cur, mgr>>
      BY <1>2, <2>1 DEF Reap, IsCancelled, Released
    <3>2. TypeOK'
      BY <3>1
    <3>3. CallingOK' /\ SettledOK'
      BY <2>1, <3>1 DEF Outcomes
    <3>4. PollOK' /\ ManagerOK'
      BY <3>1
    <3>5. QED
      BY <3>2, <3>3, <3>4
  <2>2. CASE state[r] # "cancelled"
    BY <1>2, <2>2 DEF Reap, IsCancelled
  <2>3. QED
    BY <2>1, <2>2
<1>3. CASE BatchStarted
  BY <1>3 DEF BatchStarted
<1>4. CASE Perform
  BY <1>4 DEF Perform
<1>5. CASE ReleaseConnection
  <2>1. /\ cur \in Requests /\ loc[cur] = "active" /\ state[cur] \in Outcomes
        /\ cur \notin todo \/ pc = "drainRelease"
    BY <1>5 DEF ReleaseConnection
  <2>2. /\ attached' = [attached EXCEPT ![cur] = FALSE]
        /\ loc' = [loc EXCEPT ![cur] = "done"]
        /\ cur' = NoReq
        /\ \/ pc = "release" /\ pc' = "complete"
           \/ pc = "drainRelease" /\ pc' = "drainActive"
        /\ UNCHANGED <<state, armed, calling, calls, running, todo, mgr>>
    BY <1>5 DEF ReleaseConnection, Released
  <2>3. TypeOK'
    BY <2>1, <2>2
  <2>4. CallingOK' /\ SettledOK'
    BY <2>1, <2>2 DEF Outcomes
  <2>5. PollOK' /\ ManagerOK'
    BY <2>1, <2>2
  <2>6. QED
    BY <2>3, <2>4, <2>5
<1>6. CASE PassEnds
  BY <1>6 DEF PassEnds
<1>7. CASE NewDrained
  BY <1>7 DEF NewDrained
<1>8. CASE PollExits
  BY <1>8 DEF PollExits
<1>9. CASE Stop
  <2>1. running' = FALSE /\ UNCHANGED <<state, armed, attached, loc, calling,
                                        calls, pc, todo, cur, mgr>>
    BY <1>9 DEF Stop
  <2>2. running' \in BOOLEAN
    BY <2>1
  <2>3. QED
    BY <2>1, <2>2
<1>10. CASE Destroy
  BY <1>10 DEF Destroy
<1>11. CASE Destroyed
  BY <1>11 DEF Destroyed
<1>12. QED
  BY <1>1, <1>2, <1>3, <1>4, <1>5, <1>6, <1>7, <1>8, <1>9, <1>10, <1>11

\* The call of a handler.
LEMMA CallStep ==
  ASSUME IInv, NEW t \in Threads, CallHandler(t)
  PROVE  IInv'
<1> USE ThreadsAssumption DEF IInv, TypeOK, pollVars, mgrVars
<1> DEFINE r == calling[t]
<1>1. /\ r \in Requests
      /\ state[r] \in Outcomes
      /\ calls[r] = 0
      /\ \A u \in Threads \ {t} : calling[u] # r
  BY DEF CallHandler, CallingOK
<1>2. /\ calls' = [calls EXCEPT ![r] = 1]
      /\ calling' = [calling EXCEPT ![t] = NoReq]
      /\ UNCHANGED <<state, armed, attached, loc, running, pc, todo, cur, mgr>>
  BY <1>1 DEF CallHandler
<1> HIDE DEF r
<1>3. TypeOK'
  BY <1>1, <1>2
<1>4. CallingOK'
  BY <1>1, <1>2 DEF CallingOK
<1>5. SettledOK'
  <2>1. ASSUME NEW q \in Requests, state[q] \in Outcomes, calls'[q] = 0
        PROVE  \E u \in Threads : calling'[u] = q
    <3>1. q # r /\ calls[q] = 0
      BY <1>1, <1>2, <2>1
    <3>2. PICK u \in Threads : calling[u] = q
      BY <2>1, <3>1 DEF SettledOK
    <3>3. u # t
      BY <3>1, <3>2 DEF r
    <3>4. QED
      BY <1>2, <3>2, <3>3
  <2>2. QED
    BY <1>1, <1>2, <2>1 DEF SettledOK
<1>6. PollOK'
  BY <1>2 DEF PollOK, Threads
<1>7. ManagerOK'
  BY <1>2 DEF ManagerOK, Threads
<1>8. QED
  BY <1>3, <1>4, <1>5, <1>6, <1>7

\* The callers' actions.
LEMMA CallerStep ==
  ASSUME IInv, NEW t \in Callers, NEW r \in Requests,
         SendRequest(t, r) \/ CancelRequest(t, r)
  PROVE  IInv'
<1> USE ThreadsAssumption DEF IInv, TypeOK, Threads, pollVars, mgrVars
<1> DEFINE Queued ==
             /\ mgr = "up" /\ calling[t] = NoReq /\ state[r] = "none"
             /\ pc # "drainNew"
             /\ state' = [state EXCEPT ![r] = "requesting"]
             /\ armed' = [armed EXCEPT ![r] = TRUE]
             /\ loc' = [loc EXCEPT ![r] = "new"]
             /\ UNCHANGED <<attached, calling, calls, pollVars, mgrVars>>
           Refused ==
             /\ mgr = "up" /\ calling[t] = NoReq /\ state[r] = "none"
             /\ state' = [state EXCEPT ![r] = "error"]
             /\ calling' = [calling EXCEPT ![t] = r]
             /\ loc' = [loc EXCEPT ![r] = "done"]
             /\ UNCHANGED <<armed, attached, calls, pollVars, mgrVars>>
<1>0. SendRequest(t, r) => Queued \/ Refused
  BY DEF SendRequest
<1>1. CASE Queued
  BY <1>1 DEF CallingOK, SettledOK, PollOK, ManagerOK, Outcomes
<1>2. CASE Refused
  <2>1. /\ state[r] = "none" /\ calls[r] = 0
        /\ \A u \in Threads : calling[u] # r
    BY <1>2 DEF SettledOK, CallingOK, Outcomes
  <2>2. TypeOK'
    BY <1>2 DEF Outcomes
  <2>3. CallingOK'
    BY <1>2, <2>1 DEF CallingOK, Outcomes
  <2>4. SettledOK'
    <3>1. ASSUME NEW q \in Requests, state'[q] \in Outcomes, calls'[q] = 0
          PROVE  \E u \in Threads : calling'[u] = q
      <4>1. CASE q = r
        BY <1>2, <4>1
      <4>2. CASE q # r
        <5>1. PICK u \in Threads : calling[u] = q
          BY <1>2, <3>1, <4>2 DEF SettledOK
        <5>2. QED
          BY <1>2, <5>1
      <4>3. QED
        BY <4>1, <4>2
    <3>2. QED
      BY <1>2, <2>1, <3>1 DEF SettledOK, Outcomes
  <2>5. PollOK' /\ ManagerOK'
    BY <1>2 DEF SettledOK, PollOK, ManagerOK, Outcomes
  <2>6. QED
    BY <2>2, <2>3, <2>4, <2>5
<1>3. CASE CancelRequest(t, r)
  <2>1. /\ SetResponse(t, r, "cancelled")
        /\ calling[t] = NoReq /\ state[r] # "none"
        /\ UNCHANGED <<attached, loc, calls, running, pc, todo, cur, mgr>>
    BY <1>3 DEF CancelRequest
  <2>2. CallingOK' /\ SettledOK' /\ TypeOK'
    BY <2>1, SetResponseBooks DEF SettledOK, Outcomes
  <2>3. PollOK'
    BY <2>1, SetResponseBooks DEF PollOK, Outcomes
  <2>4. ManagerOK'
    BY <2>1, SetResponseBooks DEF ManagerOK, Outcomes
  <2>5. QED
    BY <2>2, <2>3, <2>4
<1>4. QED
  BY <1>0, <1>1, <1>2, <1>3

\* The poll thread's and the destructor's actions that settle a request.
LEMMA SettleStep ==
  ASSUME IInv, NEW r \in Requests,
         \/ StartRequest(r) \/ CompleteConnection(r)
         \/ DrainNew(r) \/ DrainActive(r) \/ CancelLeftover(r)
  PROVE  IInv'
<1> USE ThreadsAssumption
    DEF IInv, TypeOK, PollAt, IsCancelled, CancelHeld, reqVars, pollVars,
        mgrVars
<1>0. Poll \in Threads /\ Owner \in Threads /\ Poll # Owner
  BY DEF Threads
<1>1. CASE StartRequest(r)
  <2>0. PollAt("start") /\ loc[r] = "batch" /\ state[r] # "none"
    BY <1>1 DEF StartRequest, SettledOK
  <2>1. CASE /\ IsCancelled(r)
             /\ loc' = [loc EXCEPT ![r] = "done"]
             /\ UNCHANGED <<reqVars, attached, calls, pollVars, mgrVars>>
    BY <2>0, <2>1 DEF CallingOK, SettledOK, PollOK, ManagerOK, Outcomes
  <2>2. CASE /\ attached' = [attached EXCEPT ![r] = TRUE]
             /\ loc' = [loc EXCEPT ![r] = "active"]
             /\ UNCHANGED <<reqVars, calls, pollVars, mgrVars>>
    BY <2>0, <2>2 DEF CallingOK, SettledOK, PollOK, ManagerOK, Outcomes
  <2>3. CASE /\ SetResponse(Poll, r, "error")
             /\ loc' = [loc EXCEPT ![r] = "done"]
             /\ UNCHANGED <<attached, calls, pollVars, mgrVars>>
    <3>1. "error" \in Outcomes /\ calling[Poll] = NoReq /\ pc = "start"
      BY <2>0 DEF Outcomes
    <3>2. TypeOK' /\ CallingOK' /\ SettledOK'
      BY <1>0, <2>0, <2>3, <3>1, SetResponseBooks DEF SettledOK, Outcomes
    <3>3. PollOK' /\ ManagerOK'
      BY <1>0, <2>0, <2>3, <3>1, SetResponseBooks
      DEF PollOK, ManagerOK, Outcomes
    <3>4. QED
      BY <3>2, <3>3
  <2>4. QED
    BY <1>1, <2>1, <2>2, <2>3 DEF StartRequest
<1>2. CASE CompleteConnection(r)
  <2>1. PICK o \in {"complete", "error"} : SetResponse(Poll, r, o)
    BY <1>2 DEF CompleteConnection
  <2>2. /\ SetResponse(Poll, r, o) /\ o \in Outcomes
        /\ calling[Poll] = NoReq /\ state[r] # "none" /\ pc = "complete"
        /\ loc[r] = "active" /\ r \in todo
        /\ todo' = todo \ {r} /\ cur' = r /\ pc' = "release"
        /\ UNCHANGED <<attached, loc, calls, running, mgr>>
    BY <1>2, <2>1 DEF CompleteConnection, SettledOK, PollOK, Outcomes
  <2>3. TypeOK' /\ CallingOK' /\ SettledOK'
    BY <1>0, <2>2, SetResponseBooks DEF SettledOK, PollPCs, Outcomes
  <2>4. PollOK' /\ ManagerOK'
    BY <1>0, <2>2, SetResponseBooks DEF PollOK, ManagerOK, Outcomes
  <2>5. QED
    BY <2>3, <2>4
<1>3. CASE DrainNew(r)
  <2>1. /\ SetResponse(Poll, r, "cancelled") /\ "cancelled" \in Outcomes
        /\ calling[Poll] = NoReq /\ state[r] # "none" /\ pc = "drainNew"
        /\ loc[r] = "new"
        /\ loc' = [loc EXCEPT ![r] = "done"]
        /\ UNCHANGED <<attached, calls, running, pc, todo, cur, mgr>>
    BY <1>3 DEF DrainNew, SettledOK, Outcomes
  <2>2. TypeOK' /\ CallingOK' /\ SettledOK'
    BY <1>0, <2>1, SetResponseBooks DEF SettledOK, Outcomes
  <2>3. PollOK' /\ ManagerOK'
    BY <1>0, <2>1, SetResponseBooks DEF PollOK, ManagerOK, Outcomes
  <2>4. QED
    BY <2>2, <2>3
<1>4. CASE DrainActive(r)
  <2>1. /\ SetResponse(Poll, r, "cancelled") /\ "cancelled" \in Outcomes
        /\ calling[Poll] = NoReq /\ state[r] # "none" /\ pc = "drainActive"
        /\ loc[r] = "active" /\ cur' = r /\ pc' = "drainRelease"
        /\ UNCHANGED <<attached, loc, calls, running, todo, mgr>>
    BY <1>4 DEF DrainActive, SettledOK, Outcomes
  <2>2. TypeOK' /\ CallingOK' /\ SettledOK'
    BY <1>0, <2>1, SetResponseBooks DEF SettledOK, PollPCs, Outcomes
  <2>3. PollOK' /\ ManagerOK'
    BY <1>0, <2>1, SetResponseBooks DEF PollOK, ManagerOK, Outcomes
  <2>4. QED
    BY <2>2, <2>3
<1>5. CASE CancelLeftover(r)
  <2>1. /\ SetResponse(Owner, r, "cancelled") /\ "cancelled" \in Outcomes
        /\ calling[Owner] = NoReq /\ state[r] # "none"
        /\ mgr = "destroying" /\ loc[r] = "new"
        /\ loc' = [loc EXCEPT ![r] = "done"]
        /\ UNCHANGED <<attached, calls, running, pc, todo, cur, mgr>>
    BY <1>5 DEF CancelLeftover, SettledOK, Outcomes
  <2>2. TypeOK' /\ CallingOK' /\ SettledOK'
    BY <1>0, <2>1, SetResponseBooks DEF SettledOK, Outcomes
  <2>3. PollOK' /\ ManagerOK'
    BY <1>0, <2>1, SetResponseBooks DEF PollOK, ManagerOK, Outcomes
  <2>4. QED
    BY <2>2, <2>3
<1>6. QED
  BY <1>1, <1>2, <1>3, <1>4, <1>5

LEMMA NextIInv == IInv /\ [Next]_vars => IInv'
<1> SUFFICES ASSUME IInv, [Next]_vars PROVE IInv'
  OBVIOUS
<1>1. CASE Next
  BY <1>1, QuietStep, CallStep, CallerStep, SettleStep DEF Next, PollStep
<1>2. CASE UNCHANGED vars
  BY <1>2
  DEF vars, reqVars, pollVars, mgrVars, IInv, TypeOK, CallingOK, SettledOK,
      PollOK, ManagerOK
<1>3. QED
  BY <1>1, <1>2

-----------------------------------------------------------------------------
(* The theorems.                                                           *)

\* The inductive invariant holds of every behaviour of the client.
THEOREM Invariant == SafeSpec => []IInv
  BY InitIInv, NextIInv, PTL DEF SafeSpec

\* Type correctness.
THEOREM TypeCorrect == SafeSpec => []TypeOK
<1>1. IInv => TypeOK
  BY DEF IInv
<1>2. QED
  BY <1>1, Invariant, PTL

\* No interleaving of completion, cancellation and shutdown calls a response
\* handler twice.
THEOREM AtMostOnce == SafeSpec => []HandlerFiresAtMostOnce
<1>1. IInv => HandlerFiresAtMostOnce
  <2> SUFFICES ASSUME IInv, NEW r \in Requests
               PROVE  calls[r] <= 1
    BY DEF HandlerFiresAtMostOnce
  <2>1. calls[r] = 0 \/ calls[r] = 1
    BY DEF IInv, SettledOK, TypeOK
  <2>2. QED
    BY <2>1
<1>2. QED
  BY <1>1, Invariant, PTL

\* No interleaving loses a request that has been handed in.
THEOREM NoneOrphaned == SafeSpec => []NoRequestOrphaned
<1>1. IInv => NoRequestOrphaned
  BY DEF IInv, TypeOK, SettledOK, NoRequestOrphaned, Outcomes
<1>2. QED
  BY <1>1, Invariant, PTL

\* The destructor's assertion on the curl handle holds when the poll thread
\* drops a request.
THEOREM DroppedDetached == SafeSpec => []DroppedRequestsAreDetached
<1>1. IInv => DroppedRequestsAreDetached
  BY DEF IInv, SettledOK, DroppedRequestsAreDetached
<1>2. QED
  BY <1>1, Invariant, PTL

\* Once the manager is gone no request is left without an answer.
THEOREM DestructionAnswers == SafeSpec => []DestructionAnswersAll
<1>1. IInv => DestructionAnswersAll
  <2> SUFFICES ASSUME IInv, mgr = "gone",
                      NEW r \in Requests, state[r] # "none", calls[r] # 1
               PROVE  \E t \in Callers : calling[t] = r
    BY DEF DestructionAnswersAll
  <2>1. loc[r] \notin {"new", "batch", "active"}
    BY DEF IInv, PollOK, ManagerOK
  <2>2. state[r] \in Outcomes /\ calls[r] = 0
    BY <2>1 DEF IInv, TypeOK, SettledOK
  <2>3. PICK t \in Threads : calling[t] = r
    BY <2>2 DEF IInv, SettledOK
  <2>4. t # Poll /\ t # Owner
    BY <2>3, ThreadsAssumption DEF IInv, PollOK, ManagerOK
  <2>5. QED
    BY <2>3, <2>4 DEF Threads
<1>2. QED
  BY <1>1, Invariant, PTL

\* Every step of the client is a step of the promise or leaves it alone.
THEOREM Refinement == SafeSpec => Promise!SafeSpec
<1>1. Init => Promise!Init
  BY DEF Init, Promise!Init
<1>2. IInv /\ [Next]_vars => [Promise!Next]_(Promise!vars)
  <2> SUFFICES ASSUME IInv, [Next]_vars
               PROVE  [Promise!Next]_(Promise!vars)
    OBVIOUS
  <2> USE DEF Promise!Next, Promise!vars
  <2>1. ASSUME NEW t \in Threads, NEW r \in Requests, NEW o \in Outcomes,
               state[r] # "none", SetResponse(t, r, o), UNCHANGED calls
        PROVE  Promise!Settle(r) \/ UNCHANGED Promise!vars
    BY <2>1
    DEF SetResponse, Promise!Settle, Promise!Outcomes, Outcomes, IInv, TypeOK
  <2>2. ASSUME NEW t \in Callers, NEW r \in Requests, SendRequest(t, r)
        PROVE  Promise!Send(r) \/ Promise!Refuse(r)
    BY <2>2 DEF SendRequest, Promise!Send, Promise!Refuse
  <2>3. ASSUME NEW t \in Threads, CallHandler(t)
        PROVE  calling[t] \in Requests /\ Promise!Deliver(calling[t])
    <3>1. /\ calling[t] \in Requests
          /\ state[calling[t]] \in Outcomes
          /\ calls[calling[t]] = 0
      BY <2>3 DEF CallHandler, IInv, TypeOK, CallingOK
    <3>2. calls' = [calls EXCEPT ![calling[t]] = 1] /\ UNCHANGED state
      BY <2>3, <3>1 DEF CallHandler
    <3>3. QED
      BY <3>1, <3>2 DEF Promise!Deliver, Promise!Outcomes, Outcomes
  <2>4. ASSUME NEW t \in Callers, NEW r \in Requests, CancelRequest(t, r)
        PROVE  Promise!Settle(r) \/ UNCHANGED Promise!vars
    BY <2>1, <2>4 DEF CancelRequest, Threads, Outcomes
  <2>5. ASSUME NEW r \in Requests,
               \/ StartRequest(r) \/ CompleteConnection(r)
               \/ DrainNew(r) \/ DrainActive(r) \/ CancelLeftover(r)
        PROVE  Promise!Settle(r) \/ UNCHANGED Promise!vars
    BY <2>1, <2>5
    DEF StartRequest, CompleteConnection, DrainNew, DrainActive,
        CancelLeftover, CancelHeld, PollAt, reqVars, Threads, Outcomes, IInv,
        SettledOK, PollOK
  <2>6. ASSUME \/ PollSwap
               \/ \E r \in Requests : Reap(r)
               \/ BatchStarted \/ Perform \/ ReleaseConnection \/ PassEnds
               \/ NewDrained \/ PollExits
               \/ Stop \/ Destroy \/ Destroyed
        PROVE  UNCHANGED Promise!vars
    BY <2>6
    DEF PollSwap, Reap, BatchStarted, Perform, ReleaseConnection, PassEnds,
        NewDrained, PollExits, Stop, Destroy, Destroyed, reqVars
  <2>7. CASE UNCHANGED vars
    BY <2>7 DEF vars, reqVars
  <2>8. QED
    BY <2>2, <2>3, <2>4, <2>5, <2>6, <2>7 DEF Next, PollStep
<1>3. QED
  BY <1>1, <1>2, Invariant, PTL DEF SafeSpec, Promise!SafeSpec
-----------------------------------------------------------------------------
(* The groups of the module interface, whose requests the client answers.  *)

\* A request has an address from SendRequest on, and _pending and the handle
\* have no other; either may be nullptr when the handler has been there first.
AddrsOK ==
    \A r \in ComRequests :
        /\ phase[r] = "new" <=> addr[r] = Null
        /\ held[r] \/ settled[r] # "no" => phase[r] # "new"
        /\ handler[r] = "armed" <=> settled[r] = "no"
        /\ handler[r] = "keyed" => r \in Grouped
        /\ cancel[r] # "no" => phase[r] = "sent"
        /\ pending[r] # Null =>
              phase[r] \in {"assigned", "sent"} /\ pending[r] = addr[r]
        /\ phase[r] \in {"assigned", "sent"} /\ settled[r] = "no" => pending[r] # Null
        /\ handle[r] # Null => phase[r] = "sent" /\ handle[r] = addr[r]

\* What the handler has read is the address, or Null before the assignment.
KeysOK ==
    \A r \in Grouped :
        handler[r] \in {"keyed", "done"} =>
            key[r] \in Keys /\ (key[r] # Null => key[r] = addr[r])

\* So is what the group has under a key, and what it has given out.
PairsOK == \A p \in responses \union got : p[1] # Null => p[1] = addr[p[2]]

\* A settled request that has been assigned has its response or can get it.
AnswersOK ==
    \A r \in ComRequests :
        phase[r] \in {"assigned", "sent"} /\ settled[r] # "no" =>
            response[r] \/ pending[r] # Null

\* No two requests have an address in common.
AddrsDiffer ==
    \A q, r \in ComRequests : addr[q] = addr[r] /\ addr[q] # Null => q = r

\* A response is where its handler has put it until the game has taken it.
ResponsesKept ==
    \A r \in Grouped :
        handler[r] = "done" /\ key[r] # Null => <<key[r], r>> \in responses \union got

GroupInv == GroupTypeOK /\ AddrsOK /\ KeysOK /\ PairsOK /\ AnswersOK
                /\ (~Reuses => AddrsDiffer /\ ResponsesKept)

\* The sending of a request.
LEMMA GroupSends ==
  ASSUME GroupInv, NEW r \in ComRequests,
         CoreSend(r) \/ Assign(r) \/ ReturnHandle(r)
  PROVE  GroupInv'
<1> USE GroupAssumption
    DEF GroupInv, GroupTypeOK, Keys, groupVars, coreVars, comVars
<1>1. CASE CoreSend(r)
  <2> USE <1>1 DEF CoreSend
  <2>1. PICK a \in FreeAddrs : addr' = [addr EXCEPT ![r] = a]
    OBVIOUS
  <2>2. a \in Addrs
    BY <2>1 DEF FreeAddrs
  <2>3. GroupTypeOK'
    <3>1. addr' \in [ComRequests -> Keys]
      BY <2>1, <2>2
    <3>2. phase' \in [ComRequests -> {"new", "core", "assigned", "sent"}]
      OBVIOUS
    <3>3. held' \in [ComRequests -> BOOLEAN]
      OBVIOUS
    <3>4. settled' \in [ComRequests -> {"no", "answered", "cancelled"}]
      OBVIOUS
    <3>5. handler' \in [ComRequests -> {"armed", "taken", "keyed", "done"}]
      OBVIOUS
    <3> QED BY <3>1, <3>2, <3>3, <3>4, <3>5
  <2>4. AnswersOK'
    BY <2>1, <2>3 DEF AnswersOK
  <2>5. AddrsOK'
    BY <2>1, <2>2 DEF AddrsOK
  <2>6. KeysOK' /\ PairsOK'
    <3>1. addr[r] = Null /\ addr' = [addr EXCEPT ![r] = a]
      BY <2>1 DEF AddrsOK
    <3>2. \A q \in ComRequests \ {r} : addr'[q] = addr[q] /\ handler'[q] = handler[q]
      BY <3>1
    <3>3. handler[r] \in {"armed", "taken"} /\ handler'[r] \in {"armed", "taken"}
      BY DEF AddrsOK
    <3>4. KeysOK'
      BY <3>2, <3>3 DEF KeysOK
    <3>5. \A p \in responses \union got : p[2] \in ComRequests
      OBVIOUS
    <3>6. PairsOK'
      BY <3>1, <3>2, <3>5 DEF PairsOK
    <3> QED BY <3>4, <3>6
  <2>7. ~Reuses => AddrsDiffer'
    BY <2>1, <2>2 DEF AddrsDiffer, FreeAddrs
  <2>8. ~Reuses => ResponsesKept'
    BY DEF ResponsesKept
  <2> QED BY <2>3, <2>4, <2>5, <2>6, <2>7, <2>8
<1>2. CASE Assign(r)
  <2> USE <1>2 DEF Assign
  <2>1. GroupTypeOK'
    OBVIOUS
  <2>2. addr[r] # Null
    BY DEF AddrsOK
  <2>3. AnswersOK'
    BY <2>1, <2>2 DEF AnswersOK
  <2>4. AddrsOK'
    BY <2>2 DEF AddrsOK
  <2>5. KeysOK' /\ PairsOK'
    BY DEF KeysOK, PairsOK
  <2>6. ~Reuses => AddrsDiffer' /\ ResponsesKept'
    BY DEF AddrsDiffer, ResponsesKept
  <2> QED BY <2>1, <2>3, <2>4, <2>5, <2>6
<1>3. CASE ReturnHandle(r)
  <2> USE <1>3 DEF ReturnHandle
  <2>1. GroupTypeOK'
    OBVIOUS
  <2>2. AnswersOK'
    BY <2>1 DEF AnswersOK
  <2>3. AddrsOK'
    BY DEF AddrsOK
  <2>4. KeysOK' /\ PairsOK'
    BY DEF KeysOK, PairsOK
  <2>5. ~Reuses => AddrsDiffer' /\ ResponsesKept'
    BY DEF AddrsDiffer, ResponsesKept
  <2> QED BY <2>1, <2>2, <2>3, <2>4, <2>5
<1> QED BY <1>1, <1>2, <1>3

\* What the client does with a request and what the game asks of it.
LEMMA GroupRequests ==
  ASSUME GroupInv, NEW r \in ComRequests,
         Answer(r) \/ CancelTests(r) \/ CancelLoads(r) \/ CancelCalls(r)
            \/ CancelReturns(r) \/ CoreReleases(r) \/ RequestGetResponse(r)
  PROVE  GroupInv'
<1> USE GroupAssumption
    DEF GroupInv, GroupTypeOK, Keys, groupVars, coreVars, comVars
<1>1. CASE Answer(r) \/ (CancelCalls(r) /\ settled' # settled)
  <2>1. /\ settled[r] = "no" /\ handler' = [handler EXCEPT ![r] = "taken"]
        /\ \E s \in {"answered", "cancelled"} : settled' = [settled EXCEPT ![r] = s]
        /\ \/ UNCHANGED cancel
           \/ cancel[r] = "loaded" /\ cancel' = [cancel EXCEPT ![r] = "called"]
        /\ held[r] \/ cancel[r] = "loaded"
        /\ UNCHANGED <<addr, held, key, phase, broken, pending, response, handle, groupVars>>
    BY <1>1 DEF Answer, CancelCalls
  <2>2. GroupTypeOK' /\ handler[r] = "armed"
    BY <2>1 DEF AddrsOK
  <2>3. AnswersOK'
    BY <2>1, <2>2 DEF AnswersOK, AddrsOK
  <2>4. AddrsOK' /\ KeysOK' /\ PairsOK'
    BY <2>1, <2>2 DEF AddrsOK, KeysOK, PairsOK
  <2>5. ~Reuses => AddrsDiffer' /\ ResponsesKept'
    BY <2>1, <2>2 DEF AddrsDiffer, ResponsesKept
  <2> QED BY <2>2, <2>3, <2>4, <2>5
<1>2. CASE \/ CancelTests(r) \/ CancelLoads(r) \/ CancelReturns(r)
           \/ (CancelCalls(r) /\ settled' = settled)
  <2>1. /\ UNCHANGED <<coreVars, phase, pending, response, handle, groupVars>>
        /\ broken' \in BOOLEAN
        /\ cancel' \in [ComRequests -> {"no", "tested", "loaded", "called"}]
        /\ \A q \in ComRequests : cancel'[q] # "no" => phase[q] = "sent"
    <3>0. /\ cancel \in [ComRequests -> {"no", "tested", "loaded", "called"}]
          /\ broken \in BOOLEAN
          /\ \A q \in ComRequests : cancel[q] # "no" => phase[q] = "sent"
      BY DEF AddrsOK
    <3> USE DEF coreVars, groupVars
    <3>1. CASE CancelTests(r)
      BY ONLY r \in ComRequests, <3>0, <3>1 DEF CancelTests, Idle
    <3>2. CASE CancelLoads(r)
      BY ONLY r \in ComRequests, <3>0, <3>2 DEF CancelLoads
    <3>3. CASE CancelReturns(r)
      BY ONLY r \in ComRequests, <3>0, <3>3 DEF CancelReturns
    <3>4. CASE CancelCalls(r) /\ settled' = settled
      <4>1. settled[r] = "no" /\ settled' = [settled EXCEPT ![r] = "cancelled"]
              => settled' # settled
        OBVIOUS
      <4> QED BY ONLY r \in ComRequests, <3>0, <3>4, <4>1 DEF CancelCalls
    <3> QED BY <1>2, <3>1, <3>2, <3>3, <3>4
  <2>2. AddrsOK'
    BY <2>1 DEF AddrsOK
  <2> QED
    BY <2>1, <2>2 DEF KeysOK, PairsOK, AnswersOK, AddrsDiffer, ResponsesKept
<1>3. CASE CoreReleases(r)
  <2> USE <1>3 DEF CoreReleases
  <2> QED
    BY DEF AddrsOK, KeysOK, PairsOK, AnswersOK, AddrsDiffer, ResponsesKept
<1>4. CASE RequestGetResponse(r)
  <2> USE <1>4 DEF RequestGetResponse, Idle
  <2> QED
    BY DEF AddrsOK, KeysOK, PairsOK, AnswersOK, AddrsDiffer, ResponsesKept
<1> QED BY <1>1, <1>2, <1>3, <1>4

\* The two parts of the handler.
LEMMA GroupHandler ==
  ASSUME GroupInv, NEW r \in ComRequests,
         HandlerTakesKey(r) \/ OnRequest(r)
  PROVE  GroupInv'
<1> USE GroupAssumption
    DEF GroupInv, GroupTypeOK, Keys, groupVars, coreVars, comVars
<1>1. CASE HandlerTakesKey(r)
  <2> USE <1>1 DEF HandlerTakesKey, Reply, KeyOf
  <2>1. GroupTypeOK'
    BY ZenonT(40)
  <2>2. AnswersOK'
    BY <2>1 DEF AnswersOK
  <2>3. AddrsOK' /\ KeysOK' /\ PairsOK'
    BY <2>1 DEF AddrsOK, KeysOK, PairsOK
  <2>4. ~Reuses => AddrsDiffer' /\ ResponsesKept'
    BY <2>1 DEF AddrsDiffer, ResponsesKept
  <2> QED BY <2>1, <2>2, <2>3, <2>4
<1>2. CASE OnRequest(r)
  <2> USE <1>2 DEF OnRequest
  <2>1. responses \subseteq Inserted(r)
    BY DEF Inserted
  <2>2. r \in Grouped /\ key[r] \in Keys /\ (key[r] # Null => key[r] = addr[r])
    BY DEF AddrsOK, KeysOK
  <2>3. Inserted(r) \subseteq responses \union {<<key[r], r>>}
    BY DEF Inserted
  <2>4. GroupTypeOK'
    BY <2>2, <2>3
  <2>5. AnswersOK' /\ AddrsOK' /\ KeysOK'
    BY <2>2, <2>4 DEF AnswersOK, AddrsOK, KeysOK
  <2>6. PairsOK'
    BY <2>2, <2>3 DEF PairsOK
  <2>7. ASSUME ~Reuses PROVE AddrsDiffer' /\ ResponsesKept'
    <3>1. AddrsDiffer'
      BY <2>7 DEF AddrsDiffer
    <3>2. key[r] # Null => <<key[r], r>> \in Inserted(r)
      <4>1. SUFFICES ASSUME key[r] # Null, NEW p \in responses, p[1] = key[r]
                     PROVE  p = <<key[r], r>>
        BY DEF Inserted
      <4>2. p[2] \in Grouped /\ p = <<p[1], p[2]>>
        OBVIOUS
      <4>3. addr[p[2]] = addr[r] /\ addr[r] # Null
        BY <2>2, <4>1 DEF PairsOK
      <4> QED BY <2>2, <2>7, <4>1, <4>2, <4>3 DEF AddrsDiffer
    <3>3. ResponsesKept'
      BY <2>1, <2>7, <3>2 DEF ResponsesKept
    <3> QED BY <3>1, <3>3
  <2> QED BY <2>4, <2>5, <2>6, <2>7
<1> QED BY <1>1, <1>2

\* What is in the group has been put there under the address of its request, which
\* is its handle unless SendRequest has returned nullptr.
THEOREM GroupInvariant == GroupSpec => []GroupInv
<1>1. GroupInit => GroupInv
  <2>1. GroupInit => GroupTypeOK
    <3> SUFFICES ASSUME GroupInit PROVE GroupTypeOK
      OBVIOUS
    <3> USE DEF GroupInit, Keys
    <3>1. /\ phase \in [ComRequests -> {"new", "core", "assigned", "sent"}]
          /\ cancel \in [ComRequests -> {"no", "tested", "loaded", "called"}]
          /\ settled \in [ComRequests -> {"no", "answered", "cancelled"}]
          /\ handler \in [ComRequests -> {"armed", "taken", "keyed", "done"}]
      OBVIOUS
    <3>2. /\ addr \in [ComRequests -> Keys] /\ pending \in [ComRequests -> Keys]
          /\ handle \in [ComRequests -> Keys]
          /\ key \in [ComRequests -> Keys \union {"unset"}]
      OBVIOUS
    <3>3. /\ held \in [ComRequests -> BOOLEAN] /\ response \in [ComRequests -> BOOLEAN]
          /\ broken \in BOOLEAN
      OBVIOUS
    <3>4. responses \subseteq Keys \X Grouped /\ got \subseteq Keys \X Grouped
      OBVIOUS
    <3> QED BY <3>1, <3>2, <3>3, <3>4 DEF GroupTypeOK
  <2>2. GroupInit => AddrsOK /\ KeysOK /\ PairsOK /\ AnswersOK
    BY GroupAssumption DEF GroupInit, AddrsOK, KeysOK, PairsOK, AnswersOK
  <2>3. GroupInit => AddrsDiffer /\ ResponsesKept
    BY GroupAssumption DEF GroupInit, AddrsDiffer, ResponsesKept
  <2> QED BY <2>1, <2>2, <2>3 DEF GroupInv
<1>2. GroupInv /\ [GroupNext]_networkVars => GroupInv'
  <2> SUFFICES ASSUME GroupInv, [GroupNext]_networkVars PROVE GroupInv'
    OBVIOUS
  <2>1. CASE UNCHANGED networkVars
    BY <2>1 DEF GroupInv, GroupTypeOK, Keys, AddrsOK,
       KeysOK, PairsOK, AnswersOK, AddrsDiffer, ResponsesKept, networkVars, coreVars,
       comVars, groupVars
  <2>2. CASE GroupGetResponse
    <3>1. /\ responses \union got = (responses \union got)'
          /\ responses' \subseteq responses
          /\ UNCHANGED <<coreVars, comVars>>
      BY <2>2 DEF GroupGetResponse
    <3>2. GroupTypeOK'
      BY <3>1 DEF GroupInv, GroupTypeOK, Keys, coreVars, comVars
    <3> QED
      BY <3>1, <3>2 DEF GroupInv, AddrsOK, KeysOK, PairsOK, AnswersOK, AddrsDiffer,
         ResponsesKept, coreVars, comVars, Keys
  <2> QED
    BY <2>1, <2>2, GroupSends, GroupRequests, GroupHandler DEF GroupNext
<1> QED BY <1>1, <1>2, PTL DEF GroupSpec

\* GetResponse of a request that is settled returns true, whoever has taken
\* _pending away, also when addresses are used again (run http_group).
THEOREM SettledAnswer == GroupSpec => []SettledRequestsHaveResponses
<1>1. GroupInv => SettledRequestsHaveResponses
  BY DEF GroupInv, AnswersOK, SettledRequestsHaveResponses
<1> QED BY <1>1, GroupInvariant, PTL

\* A response comes under the handle that SendRequest has returned for its
\* request and that no other has, and while no address is used twice it waits
\* under its address, whatever SendRequest has returned (run http_group).
THEOREM UnderTheirHandle ==
  ASSUME ~Reuses PROVE GroupSpec => []ResponsesComeUnderTheirHandle
<1>1. GroupInv => ResponsesComeUnderTheirHandle
  <2>1. SUFFICES ASSUME GroupInv PROVE ResponsesComeUnderTheirHandle
    OBVIOUS
  <2>2. ASSUME NEW p \in got \union responses, p[1] # Null
        PROVE  /\ handle[p[2]] \in {p[1], Null}
               /\ \A q \in Grouped : handle[q] = p[1] => q = p[2]
    <3>1. p[2] \in Grouped /\ p[2] \in ComRequests /\ p[1] = addr[p[2]]
      BY <2>1, <2>2, GroupAssumption DEF GroupInv, GroupTypeOK, PairsOK
    <3>2. \A q \in ComRequests : handle[q] # Null => handle[q] = addr[q]
      BY <2>1 DEF GroupInv, AddrsOK
    <3> QED
      BY <2>1, <2>2, <3>1, <3>2, GroupAssumption DEF GroupInv, AddrsDiffer
  <2> QED
    BY <2>1, <2>2 DEF GroupInv, ResponsesKept, ResponsesComeUnderTheirHandle
<1> QED BY <1>1, GroupInvariant, PTL
=============================================================================
