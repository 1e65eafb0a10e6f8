---------------------------- MODULE HttpServer -----------------------------
(* The HTTP server (HttpServer.cpp) under the queue of WebServerImpl         *)
(* (MGDFNetworkImpl.cpp), through which the module receives requests and     *)
(* sockets.  Civetweb is external: a worker of its own for each request and  *)
(* each connection, which calls the handlers of HttpServer.cpp, and mg_stop, *)
(* which closes the connections and joins the workers.                       *)
(*                                                                           *)
(* An action is one critical section of _mutex or of a pending response, or  *)
(* one call of a handler.  What is said and in which encoding is left out.   *)
EXTENDS FiniteSets, Sequences, SequencesExt

CONSTANTS
    Requests,   \* HTTP requests
    Sockets,    \* ServerWebSocket objects
    Conns,      \* addresses of mg_connection
    NoSocket,
    Owner,      \* the thread that releases the WebServerImpl
    User,       \* the threads that use what was received
    Reuses      \* TRUE: an address may be that of a later connection again

ASSUME ServerAssumption ==
    /\ NoSocket \notin Sockets \union Conns /\ Requests \intersect Sockets = {}
    /\ {Owner, User} \intersect Conns = {} /\ Owner # User
    /\ Reuses \in BOOLEAN

VARIABLES
    work,       \* the worker of each request
    pending,    \* _pendingResponses
    response,   \* Response and Ready of each pending response
    replied,    \* _sent of each request object
    replies,    \* what was sent on the connection of each request
    wpc,        \* the worker of each connection
    cur,        \* the socket made for the connection that is at an address
    listed,     \* the keys of _webSockets
    on,         \* _connection of each socket
    sockState,  \* _state of each socket
    sockLife,   \* alive, then its destructor before and after it read _state
    dropper,    \* the thread that runs the destructor
    sending,    \* sockets in the middle of SendFrame
    strayed,    \* a close frame went to the connection of another socket
    received,   \* _requests of the WebServerImpl
    held,       \* what the module has a reference to
    owner,      \* the WebServerImpl: its construction, its members' release
    server,     \* the HttpServer
    stopper     \* the thread that runs its destructor

reqVars == <<work, pending, response, replied, replies>>
workerVars == <<wpc, cur, listed>>
sockVars == <<on, sockState, sockLife, dropper, sending, strayed>>
userVars == <<received, held, owner>>
serverVars == <<server, stopper>>
httpVars == <<reqVars, workerVars, sockVars, userVars, serverVars>>

ServerInit ==
    /\ work = [r \in Requests |-> "idle"]
    /\ pending = {}
    /\ response = [r \in Requests |-> "none"]
    /\ replied = [r \in Requests |-> FALSE]
    /\ replies = [r \in Requests |-> "none"]
    /\ wpc = [c \in Conns |-> "free"]
    /\ cur = [c \in Conns |-> NoSocket]
    /\ listed = {}
    /\ on = [s \in Sockets |-> NoSocket]
    /\ sockState = [s \in Sockets |-> "open"]
    /\ sockLife = [s \in Sockets |-> "none"]
    /\ dropper = [s \in Sockets |-> NoSocket]
    /\ sending = {} /\ strayed = FALSE
    /\ received = <<>> /\ held = {} /\ owner = "new"
    /\ server = "up" /\ stopper = NoSocket

-----------------------------------------------------------------------------
(* References.                                                             *)

\* The shared_ptrs of the queue, of the module and of the workers' frames.
Referenced(x) ==
    \/ x \in ToSet(received) \union held
    \/ x \in Requests /\ work[x] \in {"call", "return"}
    \/ \E c \in Conns : cur[c] = x /\ wpc[c] \in {"hand", "return", "data", "force"}

ServerReferenced ==
    \/ owner \in {"new", "up"}
    \/ \E s \in Sockets : sockLife[s] \notin {"none", "dead"}

\* Thread t may have dropped the last reference to the server, and then runs
\* its destructor, of which setting _closing is the first statement.
DropServer(t) ==
    IF server = "up" /\ ~ServerReferenced'
    THEN server' = "closing" /\ stopper' = t
    ELSE UNCHANGED serverVars

\* Thread t may have dropped the last reference to socket s.
DropSocket(s, t) ==
    IF sockLife[s] = "alive" /\ ~Referenced(s)'
    THEN sockLife' = [sockLife EXCEPT ![s] = "dying"] /\ dropper' = [dropper EXCEPT ![s] = t]
    ELSE UNCHANGED <<sockLife, dropper>>

\* A thread is back from the destructors it ran.
Back(t) ==
    /\ \A s \in Sockets : dropper[s] = t => sockLife[s] = "dead"
    /\ stopper = t => server = "gone"

\* Mutant of Answers: Ready is not looked at.
AnswersAgain(r, code) == response' = [response EXCEPT ![r] = code]

\* The first answer is the one that counts.
Answers(r, code) ==
    response' = IF response[r] = "none" THEN [response EXCEPT ![r] = code]
                                        ELSE response

\* Mutant of Discards: the destructor does not answer.
DiscardsSilently(r) == UNCHANGED <<replied, response>>

\* ~HttpServerRequest, when the last reference goes.
Discards(r) == replied' = [replied EXCEPT ![r] = TRUE] /\ Answers(r, "500")

DropRequest(r) ==
    IF ~Referenced(r)' /\ ~replied[r] THEN Discards(r) ELSE UNCHANGED <<replied, response>>

-----------------------------------------------------------------------------
(* HandleRequest, on the worker of a request.                              *)

\* The handlers are set after the server has begun to listen.
Rejects == owner = "new" \/ server # "up"

Arrive(r) ==
    /\ work[r] = "idle" /\ server # "gone"
    /\ IF Rejects
       THEN /\ replies' = [replies EXCEPT ![r] = "503"]
            /\ work' = [work EXCEPT ![r] = "done"]
            /\ UNCHANGED pending
       ELSE /\ pending' = pending \union {r}
            /\ work' = [work EXCEPT ![r] = "call"]
            /\ UNCHANGED replies
    /\ UNCHANGED <<response, replied, workerVars, sockVars, userVars, serverVars>>

\* The handler of WebServerImpl captures its `this`.  Once that has been
\* released what it does is undefined; the model takes it to keep nothing.
Received(x) == received' = IF owner = "up" THEN Append(received, x) ELSE received

CallHandler(r) ==
    /\ work[r] = "call"
    /\ Received(r)
    /\ work' = [work EXCEPT ![r] = "return"]
    /\ UNCHANGED <<pending, response, replied, replies, workerVars, sockVars, held, owner,
                   serverVars>>

HandlerReturns(r) ==
    /\ work[r] = "return"
    /\ work' = [work EXCEPT ![r] = "wait"]
    /\ UNCHANGED <<pending, replies, workerVars, sockVars, userVars, serverVars>>
    /\ DropRequest(r)

\* The pending responses but r's.
Without(r) == pending \ {r}

\* The wait has ended: the response is forgotten and sent.
Reply(r) ==
    /\ work[r] = "wait" /\ response[r] # "none"
    /\ pending' = Without(r)
    /\ replies' = [replies EXCEPT ![r] = response[r]]
    /\ work' = [work EXCEPT ![r] = "done"]
    /\ UNCHANGED <<response, replied, workerVars, sockVars, userVars, serverVars>>

-----------------------------------------------------------------------------
(* The workers of web socket connections.                                  *)

ConnAt(c, at) == wpc[c] = at /\ Back(c)

Goto(c, at) == wpc' = [wpc EXCEPT ![c] = at]

\* HandleWebSocketConnect lets the connection in; s is the object that
\* HandleWebSocketReady will make for it.
HandleWebSocketConnect(c, s) ==
    /\ ConnAt(c, "free") /\ ~Rejects
    /\ sockLife[s] = "none" /\ \A d \in Conns : cur[d] # s
    /\ Reuses \/ \A u \in Sockets : on[u] # c
    /\ Goto(c, "ready")
    /\ cur' = [cur EXCEPT ![c] = s]
    /\ on' = [on EXCEPT ![s] = c]
    /\ UNCHANGED <<reqVars, listed, sockState, sockLife, dropper, sending, strayed,
                   userVars, serverVars>>

\* HandleWebSocketReady: no socket is made for a server on its way out.
Ready(c) ==
    /\ ConnAt(c, "ready")
    /\ IF server = "up"
       THEN /\ sockLife' = [sockLife EXCEPT ![cur[c]] = "alive"]
            /\ listed' = listed \union {c}
            /\ Goto(c, "hand")
            /\ UNCHANGED cur
       ELSE /\ Goto(c, "open")
            /\ cur' = [cur EXCEPT ![c] = NoSocket]
            /\ UNCHANGED <<sockLife, listed>>
    /\ UNCHANGED <<reqVars, on, sockState, dropper, sending, strayed, userVars, serverVars>>

HandOver(c) ==
    /\ ConnAt(c, "hand")
    /\ Received(cur[c])
    /\ Goto(c, "return")
    /\ UNCHANGED <<reqVars, cur, listed, sockVars, held, owner, serverVars>>

\* HandleWebSocketData finds the socket under _mutex and delivers to it.
Data(c) ==
    /\ ConnAt(c, "open")
    /\ c \in listed /\ sockLife[cur[c]] = "alive"
    /\ Goto(c, "data")
    /\ UNCHANGED <<reqVars, cur, listed, sockVars, userVars, serverVars>>

\* HandleWebSocketReady or HandleWebSocketData returns.
Return(c) ==
    /\ ConnAt(c, "return") \/ ConnAt(c, "data")
    /\ Goto(c, "open")
    /\ UNCHANGED <<reqVars, cur, listed, on, sockState, sending, strayed, userVars,
                   serverVars>>
    /\ \E s \in {cur[c]} : DropSocket(s, c)

\* The connection ends: the peer closed it, or mg_stop does.  A socket that is
\* listed and not being destroyed is taken along.
HandleClose(c) ==
    /\ ConnAt(c, "open")
    /\ listed' = listed \ {c}
    /\ IF c \in listed /\ sockLife[cur[c]] = "alive"
       THEN Goto(c, "force") /\ UNCHANGED cur
       ELSE Goto(c, "free") /\ cur' = [cur EXCEPT ![c] = NoSocket]
    /\ UNCHANGED <<reqVars, sockVars, userVars, serverVars>>

\* Mutant of Unlocked: _state is written without the lock.
LockIgnored(s) == TRUE

\* The unique lock that ForceClose waits for.
Unlocked(s) == s \notin sending

ForceClose(c) ==
    /\ ConnAt(c, "force") /\ Unlocked(cur[c])
    /\ sockState' = [sockState EXCEPT ![cur[c]] = "closed"]
    /\ Goto(c, "free")
    /\ cur' = [cur EXCEPT ![c] = NoSocket]
    /\ UNCHANGED <<reqVars, listed, on, sending, strayed, userVars, serverVars>>
    /\ \E s \in {cur[c]} : DropSocket(s, c)

-----------------------------------------------------------------------------
(* ServerWebSocket, on the threads of the module or in its destructor.     *)

SendFrame(s) ==
    /\ s \in held \ sending /\ sockState[s] = "open"
    /\ sending' = sending \union {s}
    /\ UNCHANGED <<reqVars, workerVars, on, sockState, sockLife, dropper, strayed, userVars,
                   serverVars>>

FrameSent(s) ==
    /\ s \in sending
    /\ sending' = sending \ {s}
    /\ UNCHANGED <<reqVars, workerVars, on, sockState, sockLife, dropper, strayed, userVars,
                   serverVars>>

\* ~ServerWebSocket reads _state and returns, or goes on without the lock.
DestructorReads(s) ==
    /\ sockLife[s] = "dying"
    /\ sockLife' = [sockLife EXCEPT ![s] = IF sockState[s] = "closed" THEN "dead" ELSE "closing"]
    /\ UNCHANGED <<reqVars, workerVars, on, sockState, dropper, sending, strayed, userVars>>
    /\ DropServer(dropper[s])

\* HttpServer::CloseWebSocket: whoever is listed at the address gets the close.
CloseWebSocket(s) ==
    /\ sockLife[s] = "closing"
    /\ sockLife' = [sockLife EXCEPT ![s] = "dead"]
    /\ listed' = listed \ {on[s]}
    /\ strayed' = (strayed \/ (on[s] \in listed /\ cur[on[s]] # s))
    /\ UNCHANGED <<reqVars, wpc, cur, on, sockState, dropper, sending, userVars>>
    /\ DropServer(dropper[s])

-----------------------------------------------------------------------------
(* The WebServerImpl and the module.                                       *)

SetHandlers ==
    /\ owner = "new" /\ owner' = "up"
    /\ UNCHANGED <<reqVars, workerVars, sockVars, received, held, serverVars>>

RequestRecieved ==
    /\ owner = "up" /\ received # <<>>
    /\ held' = held \union {Head(received)}
    /\ received' = Tail(received)
    /\ UNCHANGED <<reqVars, workerVars, sockVars, owner, serverVars>>

SendResponse(r) ==
    /\ r \in held /\ ~replied[r]
    /\ replied' = [replied EXCEPT ![r] = TRUE]
    /\ Answers(r, "answer")
    /\ UNCHANGED <<work, pending, replies, workerVars, sockVars, userVars, serverVars>>

\* Thread t drops what x refers to, a request or a socket.
Drop(x, t) ==
    \/ x \in Requests /\ DropRequest(x) /\ UNCHANGED <<sockLife, dropper>>
    \/ x \in Sockets /\ DropSocket(x, t) /\ UNCHANGED <<replied, response>>

Release(x) ==
    /\ x \in held \ sending
    /\ held' = held \ {x}
    /\ UNCHANGED <<work, pending, replies, workerVars, on, sockState, sending, strayed,
                   received, owner, serverVars>>
    /\ Drop(x, User)

\* The last reference to the WebServerImpl: its members go in the reverse of
\* their order, first _server and then what is left in _requests.
ReleaseServer ==
    /\ owner = "up"
    /\ owner' = "released"
    /\ UNCHANGED <<reqVars, workerVars, sockVars, received, held>>
    /\ DropServer(Owner)

ReleaseQueue ==
    /\ owner = "released" /\ Back(Owner)
    /\ UNCHANGED <<work, pending, replies, workerVars, on, sockState, sending, strayed, held,
                   serverVars>>
    /\ IF received = <<>>
       THEN owner' = "gone" /\ UNCHANGED <<received, replied, response, sockLife, dropper>>
       ELSE /\ received' = Tail(received)
            /\ \E x \in {Head(received)} : Drop(x, Owner)
            /\ UNCHANGED owner

\* ~HttpServer answers for everybody who has not; then mg_stop.
Drain ==
    /\ server = "closing"
    /\ server' = "stopping"
    /\ response' = [r \in Requests |->
                       IF r \in pending /\ response[r] = "none" THEN "503"
                                                                ELSE response[r]]
    /\ UNCHANGED <<work, pending, replied, replies, workerVars, sockVars, userVars, stopper>>

\* mg_stop has joined the workers, which the worker that calls it never is.
Stopped ==
    /\ server = "stopping" /\ stopper \notin Conns
    /\ \A r \in Requests : work[r] \in {"idle", "done"}
    /\ \A c \in Conns : ConnAt(c, "free")
    /\ server' = "gone"
    /\ UNCHANGED <<reqVars, workerVars, sockVars, userVars, stopper>>

RequestStep(r) == CallHandler(r) \/ HandlerReturns(r) \/ Reply(r)

ConnStep(c) == Ready(c) \/ HandOver(c) \/ Return(c) \/ ForceClose(c)

SocketStep(s) == FrameSent(s) \/ DestructorReads(s) \/ CloseWebSocket(s)

ServerStep == Drain \/ Stopped

ServerNext ==
    \/ \E r \in Requests : Arrive(r) \/ RequestStep(r) \/ SendResponse(r)
    \/ \E c \in Conns : ConnStep(c) \/ Data(c) \/ HandleClose(c)
    \/ \E c \in Conns, s \in Sockets : HandleWebSocketConnect(c, s)
    \/ \E s \in Sockets : SendFrame(s) \/ SocketStep(s)
    \/ \E x \in Requests \union Sockets : Release(x)
    \/ SetHandlers \/ RequestRecieved \/ ReleaseServer \/ ReleaseQueue
    \/ ServerStep

\* Threads that can run are run, and mg_stop closes the connections.  Nobody
\* has to answer a request, or to release what he received; writers do not
\* keep the lock from ForceClose for ever.
ServerFairness ==
    /\ \A r \in Requests : WF_httpVars(RequestStep(r))
    /\ \A c \in Conns : WF_httpVars(Ready(c) \/ HandOver(c) \/ Return(c))
                     /\ SF_httpVars(ForceClose(c))
                     /\ SF_httpVars(server = "stopping" /\ HandleClose(c))
    /\ \A s \in Sockets : WF_httpVars(SocketStep(s))
    /\ WF_httpVars(ServerStep)

ServerSpec == ServerInit /\ [][ServerNext]_httpVars /\ ServerFairness

-----------------------------------------------------------------------------
\* The type invariant of the server.  A pending response is listed exactly as
\* long as a worker waits for it.
ServerTypeOK ==
    /\ work \in [Requests -> {"idle", "call", "return", "wait", "done"}]
    /\ pending = {r \in Requests : work[r] \in {"call", "return", "wait"}}
    /\ response \in [Requests -> {"none", "answer", "500", "503"}]
    /\ replied \in [Requests -> BOOLEAN]
    /\ replies \in [Requests -> {"none", "answer", "500", "503"}]
    /\ wpc \in [Conns -> {"free", "ready", "hand", "return", "open", "data", "force"}]
    /\ cur \in [Conns -> Sockets \union {NoSocket}]
    /\ listed \subseteq {c \in Conns : cur[c] # NoSocket}
    /\ on \in [Sockets -> Conns \union {NoSocket}]
    /\ sockState \in [Sockets -> {"open", "closed"}]
    /\ sockLife \in [Sockets -> {"none", "alive", "dying", "closing", "dead"}]
    /\ dropper \in [Sockets -> Conns \union {NoSocket, Owner, User}]
    /\ {strayed} \subseteq BOOLEAN /\ sending \subseteq held \intersect Sockets
    /\ ToSet(received) \union held \subseteq Requests \union Sockets
    /\ owner \in {"new", "up", "released", "gone"}
    /\ server \in {"up", "closing", "stopping", "gone"}
    /\ stopper \in Conns \union {NoSocket, Owner, User}

\* A frame is written only to the connection its socket was made for, while
\* that is up ("holding a shared lock prevents the connection close handler
\* from completing (and civetweb from then freeing the connection)
\* mid-write"), and a socket that says it is open has its connection.
OpenSocketsHaveConnections ==
    /\ ServerTypeOK
    /\ \A s \in Sockets :
        \/ s \in sending
        \/ sockLife[s] = "alive" /\ sockState[s] = "open"
        => cur[on[s]] = s

\* Once there is an answer it stays, whatever comes of the module, of the
\* request's destructor and of the server's, and it is what the client gets.
FirstAnswerIsFinal ==
    [][\A r \in Requests :
          response[r] # "none" =>
              /\ response'[r] = response[r]
              /\ replies'[r] \in {"none", response[r]}]_httpVars

\* A request that the module throws away is answered, also when that happens
\* before its handler has returned.
DiscardedRequestsAreAnswered ==
    \A r \in Requests :
        work[r] = "wait" /\ ~Referenced(r) ~> replies[r] # "none"

\* The server's destructor returns on every thread but its own workers,
\* although it may wait for a worker whose request nobody ever answers.
ServerStops ==
    server = "closing" /\ stopper \in {Owner, User} ~> server = "gone"

\* So that no thread that waits in the server waits for ever.
WaitsOfTheServerEnd == DiscardedRequestsAreAnswered /\ ServerStops

-----------------------------------------------------------------------------
(* What a comment of the source says and the code does not do.             *)

\* CloseWebSocket "removes the websocket from the connection map and, if the
\* connection is still open, sends a close frame": that websocket and that
\* connection, not another at the same address.
CloseReachesItsSocket == ~strayed
=============================================================================
