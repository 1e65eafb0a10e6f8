-------------------------- MODULE WebSocketClient ---------------------------
(***************************************************************************)
(* One WebSocketClient of NetworkManagerComponentImpl.cpp, between the     *)
(* thread that owns it and the poll thread.  The poll thread finds a       *)
(* socket that is due through a weak reference, connects it, and then      *)
(* keeps a raw pointer to it in _activeWebSockets; the destructor asks for *)
(* the close and waits until the poll thread acknowledges it by setting    *)
(* the closed state.                                                       *)
(*                                                                         *)
(* Fail, Shutdown and the closing branch of Pump are split where they      *)
(* unlock, so the notify of the condition variable is a step of its own.   *)
(* A call of curl succeeds, fails or would block, as its codes allow.      *)
(* _out and _sendQueue are one queue here: the poll thread appends the one *)
(* to the other before it sends.                                           *)
(***************************************************************************)
EXTENDS Naturals, Sequences

CONSTANTS
    MaxMsgs,    \* bound: how many messages the user sends
    Reconnects  \* _reconnectInterval > 0

ASSUME SocketAssumption == MaxMsgs \in Nat /\ Reconnects \in BOOLEAN

VARIABLES
    state,      \* _state
    life,       \* "alive"; then _closing and _forceClose are set and the
                \* destructor is "checking", "asleep" or done ("freed")
    destroyer,  \* the thread the destructor runs on
    touched,    \* the poll thread has touched the object after it was freed
    userRef,    \* the owner holds a reference
    dueRef,     \* the poll thread's vector of due sockets holds one
    waiting,    \* entries of _pendingWebSockets that are not due yet
    due,        \* entries of _pendingWebSockets that are due
    active,     \* the raw pointer is in _activeWebSockets
    curl,       \* _curl is held
    connecting, \* _connecting
    offset,     \* _sendOffset: "none", or the connection it counts bytes of
    recv,       \* _recvBuffer: "none", or the connection its bytes are from
    torn,       \* a message was put together from two connections
    queue,      \* _sendQueue \o _out
    sent,       \* how many messages the user has sent
    wire,       \* the messages that have gone out complete, in order
    cut,        \* the messages a lost connection has cut off
    running,    \* NetworkManagerComponent::_running
    pc          \* where the poll thread is

objVars == <<state, life, destroyer, touched>>
refVars == <<userRef, dueRef>>
planVars == <<waiting, due, active>>
connVars == <<curl, connecting, offset, recv, torn>>
msgVars == <<queue, sent, wire, cut>>
vars == <<objVars, refVars, planVars, connVars, msgVars, running, pc>>

Init ==
    /\ state = "closed" /\ life = "alive" /\ destroyer = "nobody"
    /\ userRef = TRUE /\ dueRef = FALSE
    /\ waiting = 0 /\ due = 1 /\ active = FALSE
    /\ curl = FALSE /\ connecting = FALSE
    /\ offset = "none" /\ recv = "none" /\ torn = FALSE
    /\ queue = <<>> /\ sent = 0 /\ wire = <<>> /\ cut = {}
    /\ running = TRUE /\ pc = "top" /\ touched = FALSE

-----------------------------------------------------------------------------
(* The owner of the socket.                                                *)

Send ==
    /\ userRef
    /\ sent < MaxMsgs
    /\ sent' = sent + 1
    /\ queue' = Append(queue, sent + 1)
    /\ UNCHANGED <<objVars, refVars, planVars, connVars, wire, cut, running, pc>>

\* The last reference is gone: _closing is set and the wait begins.
EnterDestructor(t) == life' = "checking" /\ destroyer' = t

DropRef ==
    /\ userRef
    /\ userRef' = FALSE
    /\ IF dueRef THEN UNCHANGED <<life, destroyer>> ELSE EnterDestructor("user")
    /\ UNCHANGED <<state, touched, dueRef, planVars, connVars, msgVars, running, pc>>

\* Mutant of MayFree: the destructor does not wait.
FreeAtOnce == TRUE

MayFree == state = "closed"

\* The predicate of the destructor's wait, evaluated under _mutex.
DestructorChecks ==
    /\ life = "checking"
    /\ life' = IF MayFree THEN "freed" ELSE "asleep"
    /\ UNCHANGED <<state, destroyer, touched, refVars, planVars, connVars,
                   msgVars, running, pc>>

SpuriousWakeup ==
    /\ life = "asleep"
    /\ life' = "checking"
    /\ UNCHANGED <<state, destroyer, touched, refVars, planVars, connVars,
                   msgVars, running, pc>>

Stop ==
    /\ running
    /\ running' = FALSE
    /\ UNCHANGED <<objVars, refVars, planVars, connVars, msgVars, pc>>

\* The clock passes the time of a pending entry.
BecomesDue ==
    /\ waiting > 0
    /\ waiting' = waiting - 1
    /\ due' = due + 1
    /\ UNCHANGED <<objVars, refVars, active, connVars, msgVars, running, pc>>

-----------------------------------------------------------------------------
(* The poll thread; while it is in the destructor it does nothing else.    *)

PollAt(l) == pc = l /\ (destroyer = "poll" => life = "freed")

LoopTop ==
    /\ PollAt("top")
    /\ pc' = IF running THEN "due" ELSE "down"
    /\ UNCHANGED <<objVars, refVars, planVars, connVars, msgVars, running>>

LeftDue == 0

\* Under _webSocketMutex the due entries are erased; one whose socket still
\* has an owner is kept alive by the vector.
CollectDue ==
    /\ PollAt("due")
    /\ due' = LeftDue
    /\ dueRef' = (due > 0 /\ userRef)
    /\ pc' = IF due > 0 /\ userRef THEN "connect" ELSE "perform"
    /\ UNCHANGED <<objVars, userRef, waiting, active, connVars, msgVars, running>>

\* Bytes left in a buffer are from an older connection now.
Aged(c) == IF c = "this" THEN "old" ELSE c

Connect ==
    /\ PollAt("connect")
    /\ state' = "connecting"
    /\ offset' = Aged(offset) /\ recv' = Aged(recv)
    /\ \/ curl' = TRUE /\ connecting' = TRUE /\ active' = TRUE /\ pc' = "dropDue"
       \/ pc' = "fail" /\ UNCHANGED <<curl, connecting, active>>
    /\ UNCHANGED <<life, destroyer, touched, refVars, waiting, due, torn,
                   msgVars, running>>

\* The vector goes out of scope; if the owner's reference has gone in the
\* meantime the destructor runs here.
DropDue ==
    /\ PollAt("dropDue")
    /\ dueRef' = FALSE
    /\ pc' = "perform"
    /\ IF userRef THEN UNCHANGED <<life, destroyer>> ELSE EnterDestructor("poll")
    /\ UNCHANGED <<state, touched, userRef, planVars, connVars, msgVars, running>>

\* curl_multi_perform, and CompleteConnection when the handshake has ended.
Perform ==
    /\ PollAt("perform")
    /\ pc' = IF active THEN "pump" ELSE "top"
    /\ \/ UNCHANGED <<state, curl, connecting>>
       \/ /\ active /\ connecting
          /\ connecting' = FALSE
          /\ \/ state' = "open" /\ UNCHANGED curl
             \/ curl' = FALSE /\ UNCHANGED state
    /\ UNCHANGED <<life, destroyer, touched, refVars, planVars, offset, recv,
                   torn, msgVars, running>>

\* The close is acknowledged under _mutex: by Pump when the destructor has
\* asked for it, by Shutdown when the poll loop has ended.
AcknowledgeClose ==
    /\ \/ PollAt("pump") /\ life # "alive"
       \/ PollAt("down") /\ active
    /\ curl' = FALSE
    /\ state' = "closed"
    /\ pc' = "notify"
    /\ UNCHANGED <<life, destroyer, touched, refVars, planVars, connecting,
                   offset, recv, torn, msgVars, running>>

\* The rest of Pump's beginning: wait for the handshake, fail when it has
\* failed, or go on to send.
Pump ==
    /\ PollAt("pump")
    /\ life = "alive"
    /\ pc' = IF connecting THEN "top" ELSE IF curl THEN "send" ELSE "fail"
    /\ UNCHANGED <<objVars, refVars, planVars, connVars, msgVars, running>>

\* One curl_ws_send of the head of the queue: it goes out to its end, or the
\* call would block after a part of it, or the connection has failed.
SendHead ==
    /\ PollAt("send")
    /\ queue # <<>>
    /\ \/ /\ wire' = Append(wire, Head(queue))
          /\ queue' = Tail(queue)
          /\ torn' = (torn \/ offset = "old")
          /\ offset' = "none"
          /\ UNCHANGED pc
       \/ /\ offset' \in IF offset = "none" THEN {"none", "this"} ELSE {offset}
          /\ pc' = "recv"
          /\ UNCHANGED <<wire, queue, torn>>
       \/ pc' = "fail" /\ UNCHANGED <<wire, queue, torn, offset>>
    /\ UNCHANGED <<objVars, refVars, planVars, curl, connecting, recv, sent,
                   cut, running>>

AllSent ==
    /\ PollAt("send")
    /\ queue = <<>>
    /\ pc' = "recv"
    /\ UNCHANGED <<objVars, refVars, planVars, connVars, msgVars, running>>

\* One curl_ws_recv: nothing there, a part of a message, its last part (the
\* handler is called and the buffer cleared), or the end of the connection.
Receive ==
    /\ PollAt("recv")
    /\ \/ pc' = "top" /\ UNCHANGED <<recv, torn>>
       \/ recv' = (IF recv = "none" THEN "this" ELSE recv) /\ UNCHANGED <<pc, torn>>
       \/ recv' = "none" /\ torn' = (torn \/ recv = "old") /\ UNCHANGED pc
       \/ pc' = "fail" /\ UNCHANGED <<recv, torn>>
    /\ UNCHANGED <<objVars, refVars, planVars, curl, connecting, offset,
                   msgVars, running>>

\* Mutant of QueueAfterFail: what was cut off is sent again.
QueueResends == queue

\* A message that has gone out in part is dropped.
QueueAfterFail == IF offset = "none" THEN queue ELSE Tail(queue)

\* Mutant of Rescheduling: the first failure is the last.
NeverRescheduling == FALSE

Rescheduling == life = "alive" /\ Reconnects

\* Fail up to its first unlock, where it decides whether to reconnect.
FailDrops ==
    /\ PollAt("fail")
    /\ curl' = FALSE
    /\ queue' = QueueAfterFail
    /\ cut' = IF offset = "none" THEN cut ELSE cut \union {Head(queue)}
    /\ offset' = "none" /\ recv' = "none"
    /\ pc' = IF Rescheduling THEN "schedule" ELSE "close"
    /\ UNCHANGED <<objVars, refVars, planVars, connecting, torn, sent, wire, running>>

\* ScheduleWebSocketConnect with a weak reference to the socket.
FailSchedules ==
    /\ PollAt("schedule")
    /\ waiting' = waiting + 1
    /\ pc' = "close"
    /\ UNCHANGED <<objVars, refVars, due, active, connVars, msgVars, running>>

FailCloses ==
    /\ PollAt("close")
    /\ state' = "closed"
    /\ pc' = "notify"
    /\ UNCHANGED <<life, destroyer, touched, refVars, planVars, connVars,
                   msgVars, running>>

\* Mutant of Woken: the notify is forgotten.
NotWoken == life

Woken == IF life = "asleep" THEN "checking" ELSE life

\* _cv.notify_all() after the unlock, and the erase of the raw pointer, which
\* does not touch the object.  An attempt that failed in Connect was never
\* active and its vector of due sockets is still there.
Notify ==
    /\ PollAt("notify")
    /\ touched' = (touched \/ life = "freed")
    /\ life' = Woken
    /\ active' = FALSE
    /\ pc' = IF active THEN "top" ELSE "dropDue"
    /\ UNCHANGED <<state, destroyer, refVars, waiting, due, connVars, msgVars,
                   running>>

PollExits ==
    /\ PollAt("down")
    /\ ~active
    /\ pc' = "exited"
    /\ UNCHANGED <<objVars, refVars, planVars, connVars, msgVars, running>>

PollStep ==
    \/ LoopTop \/ CollectDue \/ Connect \/ DropDue \/ Perform
    \/ AcknowledgeClose \/ Pump \/ SendHead \/ AllSent \/ Receive
    \/ FailDrops \/ FailSchedules \/ FailCloses \/ Notify \/ PollExits

Next ==
    \/ Send \/ DropRef \/ DestructorChecks \/ SpuriousWakeup \/ Stop
    \/ BecomesDue
    \/ PollStep

\* A peer that never stops sending would keep the receive loop busy: it is
\* assumed to pause now and then.
ReceiveEnds == Receive /\ pc' # "recv"

\* Threads that can run are run, and time passes.
Fairness ==
    /\ WF_vars(PollStep)
    /\ SF_vars(ReceiveEnds)
    /\ WF_vars(DestructorChecks)
    /\ WF_vars(BecomesDue)

SafeSpec == Init /\ [][Next]_vars

Spec == SafeSpec /\ Fairness

-----------------------------------------------------------------------------
\* The type invariant of the socket's variables.
TypeOK ==
    /\ state \in {"closed", "connecting", "open"}
    /\ life \in {"alive", "checking", "asleep", "freed"}
    /\ destroyer \in {"nobody", "user", "poll"}
    /\ {userRef, dueRef, active, curl, connecting, torn, touched, running}
         \subseteq BOOLEAN
    /\ waiting \in Nat /\ due \in Nat
    /\ {offset, recv} \subseteq {"none", "this", "old"}
    /\ queue \in Seq(1..MaxMsgs) /\ wire \in Seq(1..MaxMsgs)
    /\ sent \in 0..MaxMsgs /\ cut \subseteq 1..MaxMsgs
    /\ pc \in {"top", "due", "connect", "dropDue", "perform", "pump", "send",
               "recv", "fail", "schedule", "close", "notify", "down", "exited"}

\* The raw pointer in _activeWebSockets refers to a living object until only
\* the notify and the erase are left, whatever thread drops the last
\* reference and whenever it does.
ActivePointerIsLive == active /\ pc # "notify" => life # "freed"

\* The socket is planned for at most one connection: it is scheduled once, or
\* being connected, or active, never two of these; two would leak a curl
\* handle and leave two raw pointers to one object.
OneConnectionPlanned ==
    LET attempting == \/ pc \in {"connect", "fail", "schedule"}
                      \/ active /\ pc \notin {"close", "notify"}
    IN waiting + due + (IF attempting THEN 1 ELSE 0) <= 1

\* A live socket is attended to, by one attempt at a time (with the types).
SocketIsAttendedOnce == TypeOK /\ ActivePointerIsLive /\ OneConnectionPlanned

\* Over any number of reconnections messages go out in the order of the Send
\* calls and each at most once; one of which the peer may have seen a part is
\* not sent again (Fail: "drop any partially transmitted message rather than
\* risk duplicating it on reconnect"); none, sent or received, is put together
\* from the bytes of two connections.
MessagesStayWholeAndInOrder ==
    /\ \A i, j \in DOMAIN wire : i < j => wire[i] < wire[j]
    /\ \A i \in DOMAIN wire : wire[i] \notin cut
    /\ ~torn

\* A destructor on the owner's thread returns, also when the close races a
\* reconnection, a failure or Stop.
OwnersDestructorReturns == destroyer = "user" ~> life = "freed"

\* While it is wanted, a socket that reconnects never stays closed.
ReconnectsWhileWanted ==
    state = "closed" ~> state # "closed" \/ ~userRef \/ ~running

\* A socket comes to what its owner wants of it: it is connected again while it
\* is held, and gone after it has been let go of.
SocketFollowsItsOwner == OwnersDestructorReturns /\ ReconnectsWhileWanted

-----------------------------------------------------------------------------
(* What comments of the source say and the code does not do.               *)

\* "setting the closed state must be the last access of this object from the
\* poll thread, as it releases any destructor waiting on the socket".
ClosedIsTheLastAccess == ~touched

\* "this is safe as a WebSocketClients destructor blocks until the poll thread
\* has acknowledged the close": every destructor is acknowledged in the end.
EveryCloseIsAcknowledged == destroyer # "nobody" ~> life = "freed"
=============================================================================
