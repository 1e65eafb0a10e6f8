--------------------------- MODULE HttpClientGroup ---------------------------
(***************************************************************************)
(* HttpClientRequestImpl and HttpClientRequestGroupImpl of                 *)
(* core.impl/MGDFNetworkImpl.cpp: the COM objects a game uses to send a    *)
(* request, to ask for its response, or to collect the responses of a      *)
(* group under the handles SendRequest has returned.                       *)
(*                                                                         *)
(* A handle is the address of the request's HttpClientPendingRequest.  The *)
(* network component (module HttpClient) appears as what it promises: a    *)
(* pending request is settled once, its handler runs once, and the         *)
(* component then lets go of it.                                           *)
(*                                                                         *)
(* SendRequest and CancelRequest take no lock.  SendRequest is three steps: *)
(* the component's SendRequest returns, _pending is assigned, and _pending *)
(* is read again for the handle; CancelRequest tests _pending, reads it and *)
(* calls the object.  The poll thread may run the handler, which resets    *)
(* _pending, between any two.                                              *)
(***************************************************************************)
EXTENDS FiniteSets

CONSTANTS
    ComRequests, \* the request objects of the game; each is sent once
    Grouped,    \* those that are sent in the group
    Addrs,      \* the addresses the allocator hands out
    Null,       \* nullptr
    Reuses      \* the allocator hands a freed address out again

ASSUME GroupAssumption ==
    /\ Grouped \subseteq ComRequests
    /\ Null \notin Addrs
    /\ Reuses \in BOOLEAN

VARIABLES
    phase,      \* SendRequest: "new", "core" before the assignment,
                \* "assigned" before the return, "sent"
    cancel,     \* CancelRequest: "no", "tested", "loaded", or "called" while
                \* the handler it runs has not returned
    broken,     \* CancelRequest has called a member of no object, or of a freed
                \* one, and does not come back; the other threads go on, which
                \* is one of the things that may happen then
    addr,       \* the address of the pending request
    held,       \* the network component holds the pending request
    settled,    \* "no", "answered" or "cancelled"
    handler,    \* "armed", "taken", "keyed" (has read its key) or "done"
    pending,    \* HttpClientRequestImpl::_pending
    response,   \* HttpClientRequestImpl::_response is set
    key,        \* the local of the handler; "unset" before it is read
    handle,     \* what SendRequest has returned
    responses,  \* HttpClientRequestGroupImpl::_responses, as a set of pairs
    got         \* the pairs the group has given to the game

coreVars == <<addr, held, settled, handler, key>>
comVars == <<phase, cancel, broken, pending, response, handle>>
groupVars == <<responses, got>>
networkVars == <<coreVars, comVars, groupVars>>

GroupInit ==
    /\ phase = [r \in ComRequests |-> "new"]
    /\ cancel = [r \in ComRequests |-> "no"]
    /\ broken = FALSE
    /\ addr = [r \in ComRequests |-> Null]
    /\ held = [r \in ComRequests |-> FALSE]
    /\ settled = [r \in ComRequests |-> "no"]
    /\ handler = [r \in ComRequests |-> "armed"]
    /\ pending = [r \in ComRequests |-> Null]
    /\ response = [r \in ComRequests |-> FALSE]
    /\ key = [r \in ComRequests |-> "unset"]
    /\ handle = [r \in ComRequests |-> Null]
    /\ responses = {}
    /\ got = {}

\* Some shared pointer keeps the pending request of r allocated.
InUse(r) == phase[r] = "core" \/ pending[r] # Null \/ held[r]

FreeAddrs ==
    Addrs \ {addr[r] : r \in {q \in ComRequests : InUse(q) \/ ~Reuses}}

-----------------------------------------------------------------------------
\* NetworkManagerComponent::SendRequest makes the pending request and keeps
\* it; one whose URL is no http URL is settled before the call returns.
CoreSend(r) ==
    /\ phase[r] = "new"
    /\ phase' = [phase EXCEPT ![r] = "core"]
    /\ \E a \in FreeAddrs : addr' = [addr EXCEPT ![r] = a]
    /\ \/ held' = [held EXCEPT ![r] = TRUE] /\ UNCHANGED <<settled, handler>>
       \/ /\ settled' = [settled EXCEPT ![r] = "answered"]
          /\ handler' = [handler EXCEPT ![r] = "taken"]
          /\ UNCHANGED held
    /\ UNCHANGED <<key, cancel, broken, pending, response, handle, groupVars>>

\* The assignment to _pending, after the call that may have run the handler.
Assign(r) ==
    /\ phase[r] = "core"
    /\ held[r] \/ handler[r] = "done"
    /\ phase' = [phase EXCEPT ![r] = "assigned"]
    /\ pending' = [pending EXCEPT ![r] = addr[r]]
    /\ UNCHANGED <<coreVars, cancel, broken, response, handle, groupVars>>

\* The return of the handle, for which _pending is read again.
ReturnHandle(r) ==
    /\ phase[r] = "assigned"
    /\ phase' = [phase EXCEPT ![r] = "sent"]
    /\ handle' = [handle EXCEPT ![r] = IF r \in Grouped THEN pending[r] ELSE Null]
    /\ UNCHANGED <<coreVars, cancel, broken, pending, response, groupVars>>

\* The poll thread completes the request.
Answer(r) ==
    /\ held[r]
    /\ settled[r] = "no"
    /\ settled' = [settled EXCEPT ![r] = "answered"]
    /\ handler' = [handler EXCEPT ![r] = "taken"]
    /\ UNCHANGED <<addr, held, key, comVars, groupVars>>

\* The game uses a request from one thread: CancelRequest and GetResponse of
\* the request come after SendRequest and one after the other.
Idle(r) == phase[r] = "sent" /\ cancel[r] = "no"

\* CancelRequest: if (_pending).
CancelTests(r) ==
    /\ Idle(r)
    /\ pending[r] # Null
    /\ cancel' = [cancel EXCEPT ![r] = "tested"]
    /\ UNCHANGED <<coreVars, phase, broken, pending, response, handle, groupVars>>

\* _pending->: the pointer is read again.
CancelLoads(r) ==
    /\ cancel[r] = "tested"
    /\ IF pending[r] = Null
       THEN broken' = TRUE /\ UNCHANGED cancel
       ELSE cancel' = [cancel EXCEPT ![r] = "loaded"] /\ UNCHANGED broken
    /\ UNCHANGED <<coreVars, phase, pending, response, handle, groupVars>>

\* HttpClientPendingRequest::CancelRequest on what was read.
CancelCalls(r) ==
    /\ cancel[r] = "loaded"
    /\ \/ /\ ~InUse(r)
          /\ broken' = TRUE
          /\ UNCHANGED <<settled, handler, cancel>>
       \/ /\ InUse(r) /\ settled[r] # "no"
          /\ cancel' = [cancel EXCEPT ![r] = "no"]
          /\ UNCHANGED <<settled, handler, broken>>
       \/ /\ InUse(r) /\ settled[r] = "no"
          /\ settled' = [settled EXCEPT ![r] = "cancelled"]
          /\ handler' = [handler EXCEPT ![r] = "taken"]
          /\ cancel' = [cancel EXCEPT ![r] = "called"]
          /\ UNCHANGED broken
    /\ UNCHANGED <<addr, held, key, phase, pending, response, handle, groupVars>>

\* The handler that CancelRequest has run returns.
CancelReturns(r) ==
    /\ cancel[r] = "called"
    /\ handler[r] = "done"
    /\ cancel' = [cancel EXCEPT ![r] = "no"]
    /\ UNCHANGED <<coreVars, phase, broken, pending, response, handle, groupVars>>

\* The component drops its reference: after the handler it has called itself,
\* or when it finds the request cancelled.
CoreReleases(r) ==
    /\ held[r]
    /\ handler[r] = "done" \/ settled[r] = "cancelled"
    /\ held' = [held EXCEPT ![r] = FALSE]
    /\ UNCHANGED <<addr, settled, handler, key, comVars, groupVars>>

\* Mutant of Reply: the handler leaves the response to GetResponse.
NoReply(r) == UNCHANGED response

Reply(r) == response' = [response EXCEPT ![r] = TRUE]

KeyOf(r) == pending[r]

\* The part of the handler under the request's _mutex; for a request that is
\* in no group the handler does nothing.
HandlerTakesKey(r) ==
    /\ handler[r] = "taken"
    /\ IF r \in Grouped
       THEN /\ Reply(r)
            /\ key' = [key EXCEPT ![r] = KeyOf(r)]
            /\ pending' = [pending EXCEPT ![r] = Null]
            /\ handler' = [handler EXCEPT ![r] = "keyed"]
       ELSE /\ handler' = [handler EXCEPT ![r] = "done"]
            /\ UNCHANGED <<key, pending, response>>
    /\ UNCHANGED <<addr, held, settled, phase, cancel, broken, handle, groupVars>>

\* Mutant of Inserted: only one response waits at a time.
InsertedAlone(r) == {<<key[r], r>>}

\* unordered_map::insert: an entry with the same key is left as it is.
Inserted(r) ==
    IF \E p \in responses : p[1] = key[r]
    THEN responses ELSE responses \union {<<key[r], r>>}

\* HttpClientRequestGroupImpl::OnRequest.
OnRequest(r) ==
    /\ handler[r] = "keyed"
    /\ responses' = Inserted(r)
    /\ handler' = [handler EXCEPT ![r] = "done"]
    /\ UNCHANGED <<addr, held, settled, key, comVars, got>>

\* HttpClientRequestImpl::GetResponse when it returns true.
RequestGetResponse(r) ==
    /\ Idle(r)
    /\ ~response[r]
    /\ pending[r] # Null
    /\ settled[r] # "no"
    /\ response' = [response EXCEPT ![r] = TRUE]
    /\ pending' = IF r \in Grouped THEN pending ELSE [pending EXCEPT ![r] = Null]
    /\ UNCHANGED <<coreVars, phase, cancel, broken, handle, groupVars>>

\* HttpClientRequestGroupImpl::GetResponse of a group that is not empty.
GroupGetResponse ==
    \E p \in responses :
        /\ responses' = responses \ {p}
        /\ got' = got \union {p}
        /\ UNCHANGED <<coreVars, comVars>>

GroupNext ==
    \/ \E r \in ComRequests :
          \/ CoreSend(r) \/ Assign(r) \/ ReturnHandle(r) \/ Answer(r)
          \/ CancelTests(r) \/ CancelLoads(r) \/ CancelCalls(r) \/ CancelReturns(r)
          \/ CoreReleases(r) \/ HandlerTakesKey(r) \/ OnRequest(r)
          \/ RequestGetResponse(r)
    \/ GroupGetResponse

GroupSpec == GroupInit /\ [][GroupNext]_networkVars

-----------------------------------------------------------------------------
Keys == Addrs \union {Null}

\* The type invariant of the requests and the group.
GroupTypeOK ==
    /\ phase \in [ComRequests -> {"new", "core", "assigned", "sent"}]
    /\ cancel \in [ComRequests -> {"no", "tested", "loaded", "called"}]
    /\ broken \in BOOLEAN
    /\ addr \in [ComRequests -> Keys]
    /\ held \in [ComRequests -> BOOLEAN]
    /\ settled \in [ComRequests -> {"no", "answered", "cancelled"}]
    /\ handler \in [ComRequests -> {"armed", "taken", "keyed", "done"}]
    /\ pending \in [ComRequests -> Keys]
    /\ response \in [ComRequests -> BOOLEAN]
    /\ key \in [ComRequests -> Keys \union {"unset"}]
    /\ handle \in [ComRequests -> Keys]
    /\ responses \subseteq Keys \X Grouped
    /\ got \subseteq Keys \X Grouped

\* Once a request is settled, GetResponse of the request returns true from
\* then on ("true if the request has received a response, been cancelled, or
\* failed"), before, while and after the group's handler takes _pending away.
SettledRequestsHaveResponses ==
    /\ GroupTypeOK
    /\ \A r \in ComRequests :
        phase[r] = "sent" /\ settled[r] # "no" => response[r] \/ pending[r] # Null

\* What the group gives out, or has to give out, under a handle is the response
\* of the request that SendRequest returned this handle for, and no other
\* request has it; and a response that has reached the group under an address
\* waits there until the game has taken it, whether SendRequest returned this
\* address or nullptr.  All this as long as no address is used twice.
ResponsesComeUnderTheirHandle ==
    /\ \A p \in got \union responses : p[1] # Null =>
          /\ handle[p[2]] \in {p[1], Null}
          /\ \A q \in Grouped : handle[q] = p[1] => q = p[2]
    /\ \A r \in Grouped :
          handler[r] = "done" /\ key[r] # Null =>
              <<key[r], r>> \in responses \union got

\* A request that is sent in a group gets a handle ("a unique pointer to the
\* request in the group").  It doesn't: the handler can reset _pending before
\* it is read for the return.
GroupedRequestsGetHandles ==
    \A r \in Grouped : phase[r] = "sent" => handle[r] # Null

\* CancelRequest calls the request it has tested for.  It doesn't: the handler
\* can reset _pending after the test, and the object can be freed before the call.
CancelFindsItsRequest == ~broken

\* Two requests of which neither response has been collected never have the
\* same handle ("a unique pointer to the request in the group [...] used to
\* identify the request in the group when calling GetResponse later").
HandlesAreUnique ==
    \A q, r \in Grouped :
        q # r /\ handle[q] # Null /\ handle[q] = handle[r] =>
            <<handle[q], q>> \in got \/ <<handle[r], r>> \in got

\* The assertion in the handler, _ASSERTE(self->_pending).
HandlerFindsPending == \A r \in ComRequests : key[r] # Null
=============================================================================
