------------------------ MODULE WebSocketClientProofs ------------------------
(***************************************************************************)
(* For any number of messages, reconnections and spurious wakeups: the raw *)
(* pointer of the poll thread refers to a living socket, a socket has one  *)
(* connection at a time, and its messages go out whole and in order.       *)
(*                                                                         *)
(* Control is the inductive invariant of the first two, of who holds the   *)
(* socket at which point of the poll loop.  The messages rest on it: that  *)
(* no byte of one connection is left for the next needs that a socket is   *)
(* not connected again before FailDrops has emptied both buffers.          *)
(*                                                                         *)
(* The other end, module HttpServer, comes behind it with an invariant of  *)
(* its own: whom a worker of civetweb, a web socket and a request belong   *)
(* to, whichever of them ends first.                                       *)
(***************************************************************************)
EXTENDS WebSocketClient, HttpServer, TLAPS

\* The flags are flags.
Flags ==
    /\ userRef \in BOOLEAN /\ dueRef \in BOOLEAN /\ active \in BOOLEAN
    /\ curl \in BOOLEAN /\ connecting \in BOOLEAN /\ touched \in BOOLEAN
    /\ running \in BOOLEAN

\* The types of all else but what is sent and received.
Places ==
    /\ state \in {"closed", "connecting", "open"}
    /\ life \in {"alive", "checking", "asleep", "freed"}
    /\ destroyer \in {"nobody", "user", "poll"}
    /\ waiting \in Nat /\ due \in Nat
    /\ pc \in {"top", "due", "connect", "dropDue", "perform", "pump", "send",
               "recv", "fail", "schedule", "close", "notify", "down", "exited"}

\* A reference keeps the socket alive.  From a connection attempt until the
\* vector of due sockets goes out of scope the poll thread has one, unless it
\* works on the active socket.
RefsOK ==
    /\ userRef \/ dueRef => life = "alive"
    /\ pc \in {"connect", "dropDue"} => dueRef
    /\ pc \in {"fail", "schedule", "close", "notify"} => active \/ dueRef

\* A socket is connected only when it is not connected.
PlanOK ==
    /\ OneConnectionPlanned
    /\ pc \in {"pump", "send", "recv"} => active
    /\ pc = "connect" => ~active
    /\ pc \in {"down", "exited"} => ~running

\* An active socket is closed only for the time of the notify, and freed only
\* when it is closed.
LiveOK == active /\ pc # "notify" => state # "closed" /\ life # "freed"

Control == Flags /\ Places /\ RefsOK /\ PlanOK /\ LiveOK

\* The types of what is sent and received.
Messages ==
    /\ {offset, recv} \subseteq {"none", "this", "old"}
    /\ queue \in Seq(1..MaxMsgs) /\ wire \in Seq(1..MaxMsgs)
    /\ sent \in 0..MaxMsgs /\ cut \subseteq 1..MaxMsgs

\* Bytes are left in a buffer while the socket is active, or when it will not
\* be connected any more.
BuffersOK ==
    /\ offset # "none" => queue # <<>>
    /\ offset # "old" /\ recv # "old" /\ torn = FALSE
    /\ offset # "none" \/ recv # "none" =>
          \/ active /\ pc \notin {"schedule", "close", "notify"}
          \/ life # "alive"
          \/ /\ ~running
             /\ pc \in {"top", "down", "exited"} \/ (pc = "notify" /\ active)

\* What is in the queue comes after what has gone out and what was cut off.
OrderOK ==
    /\ \A i, j \in DOMAIN wire : i < j => wire[i] < wire[j]
    /\ \A i, j \in DOMAIN queue : i < j => queue[i] < queue[j]
    /\ \A i \in DOMAIN wire : wire[i] \notin cut
    /\ \A i \in DOMAIN wire, j \in DOMAIN queue : wire[i] < queue[j]
    /\ \A c \in cut, j \in DOMAIN queue : c < queue[j]
    /\ \A i \in DOMAIN wire : wire[i] <= sent
    /\ \A j \in DOMAIN queue : queue[j] <= sent
    /\ \A c \in cut : c <= sent

IInv == Control /\ Messages /\ BuffersOK /\ OrderOK

-----------------------------------------------------------------------------
(* Who holds the socket.                                                   *)

\* The steps of the poll thread between two unlocks, of the user's Send and of
\* Stop, which leave the object, the references and the plan alone.
LEMMA QuietStep ==
    ASSUME Control,
           \/ Send \/ Stop \/ LoopTop \/ Pump \/ SendHead \/ AllSent \/ Receive
           \/ FailDrops \/ PollExits
    PROVE  Control'
<1> USE DEF Control, objVars, refVars, planVars, connVars, msgVars, PollAt
<1>1. /\ UNCHANGED <<state, life, destroyer, touched, userRef, dueRef, waiting, due,
                     active, connecting>>
      /\ curl' = curl \/ curl' = FALSE
      /\ running' = running \/ running' = FALSE
  BY DEF Send, Stop, LoopTop, Pump, SendHead, AllSent, Receive, FailDrops, PollExits
<1>2. \/ pc' = pc
      \/ pc = "top" /\ pc' \in {"due", "down"}
      \/ pc = "pump" /\ pc' \in {"top", "send", "fail"}
      \/ pc = "send" /\ pc' \in {"recv", "fail"}
      \/ pc = "recv" /\ pc' \in {"top", "fail"}
      \/ pc = "fail" /\ pc' \in {"schedule", "close"}
      \/ pc = "down" /\ pc' = "exited"
  BY DEF Send, Stop, LoopTop, Pump, SendHead, AllSent, Receive, FailDrops, PollExits
<1>3. pc' = "down" => ~running' \/ pc = "down"
  BY DEF Send, Stop, LoopTop, Pump, SendHead, AllSent, Receive, FailDrops, PollExits
<1>4. RefsOK' /\ LiveOK'
  BY <1>1, <1>2 DEF RefsOK, LiveOK, PlanOK
<1>5. OneConnectionPlanned'
  BY <1>1, <1>2 DEF PlanOK, OneConnectionPlanned, Places, Flags
<1>6. PlanOK'
  BY <1>1, <1>2, <1>3, <1>5 DEF PlanOK
<1>7. Flags'
  BY <1>1 DEF Flags
<1>8. Places'
  BY <1>1, <1>2 DEF Places
<1> QED BY <1>4, <1>6, <1>7, <1>8

\* The last reference, the destructor and the clock.
LEMMA OwnerStep ==
    ASSUME Control, DropRef \/ DestructorChecks \/ SpuriousWakeup \/ BecomesDue
    PROVE  Control'
<1> USE DEF Control, objVars, refVars, planVars, connVars, msgVars
<1>1. UNCHANGED <<state, touched, dueRef, active, curl, connecting, running, pc>>
  BY DEF DropRef, DestructorChecks, SpuriousWakeup, BecomesDue
<1>2. Flags'
  <2>1. userRef' = userRef \/ userRef' = FALSE
    BY DEF DropRef, DestructorChecks, SpuriousWakeup, BecomesDue
  <2> QED BY <1>1, <2>1 DEF Flags
<1>3. waiting' + due' = waiting + due /\ waiting' \in Nat /\ due' \in Nat
  BY DEF DropRef, DestructorChecks, SpuriousWakeup, BecomesDue, Places
<1>4. /\ life' = "freed" => life = "freed" \/ state = "closed"
      /\ userRef' \/ dueRef => life' = "alive"
      /\ life' \in {"alive", "checking", "asleep", "freed"}
      /\ destroyer' \in {"nobody", "user", "poll"}
  BY DEF DropRef, EnterDestructor, DestructorChecks, MayFree, SpuriousWakeup, BecomesDue,
     RefsOK, Places
<1>5. Places' /\ RefsOK' /\ LiveOK'
  BY <1>1, <1>3, <1>4 DEF Places, RefsOK, LiveOK
<1>6. PlanOK'
  BY <1>1, <1>3 DEF PlanOK, OneConnectionPlanned, Places
<1> QED BY <1>2, <1>5, <1>6

\* The poll thread takes a reference, connects and drops the reference.
LEMMA ConnectStep ==
    ASSUME Control, CollectDue \/ Connect \/ DropDue
    PROVE  Control'
<1> USE DEF Control, objVars, refVars, planVars, connVars, msgVars, PollAt
<1>1. CASE CollectDue
  <2>1. /\ due' = 0 /\ UNCHANGED <<waiting, active, state, life, userRef, running>>
        /\ \/ due > 0 /\ userRef /\ pc' = "connect" /\ dueRef' = TRUE
           \/ pc' = "perform" /\ dueRef' = FALSE
    BY <1>1 DEF CollectDue, LeftDue, Flags, Places
  <2>2. Flags'
    BY <1>1, <2>1 DEF CollectDue, Flags
  <2>3. Places'
    BY <1>1, <2>1 DEF CollectDue, Places
  <2>4. RefsOK' /\ LiveOK'
    BY <1>1, <2>1 DEF CollectDue, RefsOK, LiveOK
  <2>5. PlanOK'
    BY <1>1, <2>1 DEF CollectDue, PlanOK, OneConnectionPlanned, Places
  <2> QED BY <2>2, <2>3, <2>4, <2>5
<1>2. CASE Connect
  <2>1. /\ pc = "connect" /\ state' = "connecting"
        /\ UNCHANGED <<life, destroyer, touched, userRef, dueRef, waiting, due, running>>
        /\ \/ curl' = TRUE /\ connecting' = TRUE /\ active' = TRUE /\ pc' = "dropDue"
           \/ pc' = "fail" /\ UNCHANGED <<curl, connecting, active>>
    BY <1>2 DEF Connect
  <2>2. Flags'
    BY <2>1 DEF Flags
  <2>3. Places'
    BY <2>1 DEF Places
  <2>4. RefsOK' /\ LiveOK'
    BY <2>1 DEF RefsOK, LiveOK, PlanOK
  <2>5. PlanOK'
    BY <2>1 DEF PlanOK, OneConnectionPlanned, Places
  <2> QED BY <2>2, <2>3, <2>4, <2>5
<1>3. CASE DropDue
  <2>1. /\ pc = "dropDue" /\ pc' = "perform" /\ dueRef' = FALSE
        /\ UNCHANGED <<state, touched, userRef, waiting, due, active, curl, connecting,
                       running>>
        /\ \/ userRef /\ UNCHANGED <<life, destroyer>>
           \/ ~userRef /\ life' = "checking" /\ destroyer' = "poll"
    BY <1>3 DEF DropDue, EnterDestructor
  <2>2. Flags'
    BY <2>1 DEF Flags
  <2>3. Places'
    BY <2>1 DEF Places
  <2>4. RefsOK' /\ LiveOK'
    BY <2>1 DEF RefsOK, LiveOK
  <2>5. PlanOK'
    BY <2>1 DEF PlanOK, OneConnectionPlanned, Places
  <2> QED BY <2>2, <2>3, <2>4, <2>5
<1> QED BY <1>1, <1>2, <1>3

\* The handshake, and the ways a connection ends.
LEMMA EndStep ==
    ASSUME Control,
           Perform \/ AcknowledgeClose \/ FailSchedules \/ FailCloses \/ Notify
    PROVE  Control'
<1> USE DEF Control, objVars, refVars, planVars, connVars, msgVars, PollAt
<1>1. CASE Perform
  <2>1. /\ pc = "perform"
        /\ \/ active /\ pc' = "pump"
           \/ ~active /\ pc' = "top"
        /\ UNCHANGED <<life, destroyer, touched, userRef, dueRef, waiting, due, active,
                       running>>
        /\ curl' = curl \/ curl' = FALSE
        /\ connecting' = connecting \/ connecting' = FALSE
        /\ state' = state \/ state' = "open"
    BY <1>1 DEF Perform
  <2>2. Flags'
    BY <2>1 DEF Flags
  <2>3. Places'
    BY <2>1 DEF Places
  <2>4. RefsOK' /\ LiveOK'
    BY <2>1 DEF RefsOK, LiveOK
  <2>5. PlanOK'
    BY <2>1 DEF PlanOK, OneConnectionPlanned, Places
  <2> QED BY <2>2, <2>3, <2>4, <2>5
<1>2. CASE AcknowledgeClose \/ FailCloses
  <2>1. /\ pc' = "notify" /\ state' = "closed"
        /\ pc \in {"pump", "close"} \/ (pc = "down" /\ active)
        /\ UNCHANGED <<life, destroyer, touched, userRef, dueRef, waiting, due, active,
                       connecting, running>>
        /\ curl' = curl \/ curl' = FALSE
    BY <1>2 DEF AcknowledgeClose, FailCloses
  <2>2. Flags'
    BY <2>1 DEF Flags
  <2>3. Places'
    BY <2>1 DEF Places
  <2>4. RefsOK' /\ LiveOK'
    BY <2>1 DEF RefsOK, LiveOK, PlanOK
  <2>5. PlanOK'
    BY <2>1 DEF PlanOK, OneConnectionPlanned, Places
  <2> QED BY <2>2, <2>3, <2>4, <2>5
<1>3. CASE FailSchedules
  <2>1. /\ pc = "schedule" /\ pc' = "close" /\ waiting' = waiting + 1
        /\ UNCHANGED <<state, life, destroyer, touched, userRef, dueRef, due, active,
                       curl, connecting, running>>
    BY <1>3 DEF FailSchedules
  <2>2. Flags'
    BY <2>1 DEF Flags
  <2>3. Places'
    BY <2>1 DEF Places
  <2>4. RefsOK' /\ LiveOK'
    BY <2>1 DEF RefsOK, LiveOK
  <2>5. PlanOK'
    BY <2>1 DEF PlanOK, OneConnectionPlanned, Places
  <2> QED BY <2>2, <2>3, <2>4, <2>5
<1>4. CASE Notify
  <2>1. /\ pc = "notify" /\ active' = FALSE
        /\ \/ active /\ pc' = "top"
           \/ ~active /\ pc' = "dropDue"
        /\ life' \in {life, "checking"} /\ (life = "alive" => life' = "alive")
        /\ UNCHANGED <<state, destroyer, userRef, dueRef, waiting, due, curl, connecting,
                       running>>
    BY <1>4 DEF Notify, Woken
  <2>2. Flags'
    <3>1. touched' \in BOOLEAN
      BY <1>4 DEF Notify, Flags
    <3> QED BY <2>1, <3>1 DEF Flags
  <2>3. Places'
    BY <2>1 DEF Places
  <2>4. RefsOK' /\ LiveOK'
    BY <2>1 DEF RefsOK, LiveOK
  <2>5. PlanOK'
    BY <2>1 DEF PlanOK, OneConnectionPlanned, Places
  <2> QED BY <2>2, <2>3, <2>4, <2>5
<1> QED BY <1>1, <1>2, <1>3, <1>4

-----------------------------------------------------------------------------
(* What is sent and received.                                              *)

\* Append leaves the entries where they are, Tail moves them forward.
LEMMA Entries ==
    ASSUME NEW S, NEW q \in Seq(S)
    PROVE  /\ \A x : \A j \in DOMAIN Append(q, x) :
                 \/ j \in DOMAIN q /\ Append(q, x)[j] = q[j]
                 \/ j = Len(q) + 1 /\ Append(q, x)[j] = x
           /\ q # <<>> =>
                 /\ 1 \in DOMAIN q /\ Head(q) = q[1] /\ q[1] \in S
                 /\ Tail(q) \in Seq(S)
                 /\ \A j \in DOMAIN Tail(q) :
                       j \in Nat /\ j > 0 /\ j + 1 \in DOMAIN q /\ Tail(q)[j] = q[j + 1]
<1>1. ASSUME NEW x, NEW j \in DOMAIN Append(q, x)
      PROVE  \/ j \in DOMAIN q /\ Append(q, x)[j] = q[j]
             \/ j = Len(q) + 1 /\ Append(q, x)[j] = x
  <2>1. DOMAIN q = 1 .. Len(q) /\ j \in 1 .. Len(q) + 1
    OBVIOUS
  <2>2. CASE j \in 1 .. Len(q)
    BY <2>1, <2>2
  <2>3. CASE j = Len(q) + 1
    BY <2>3
  <2> QED BY <2>1, <2>2, <2>3
<1>2. ASSUME q # <<>>
      PROVE  /\ 1 \in DOMAIN q /\ Head(q) = q[1] /\ q[1] \in S
             /\ Tail(q) \in Seq(S)
             /\ \A j \in DOMAIN Tail(q) :
                   j \in Nat /\ j > 0 /\ j + 1 \in DOMAIN q /\ Tail(q)[j] = q[j + 1]
  BY <1>2
<1> QED BY <1>1, <1>2

\* The messages that the user has numbered are not mixed up with the next.
LEMMA SendStep == ASSUME IInv, Send PROVE Messages' /\ BuffersOK' /\ OrderOK'
<1> USE SocketAssumption DEF IInv, Control
<1>1. /\ sent' = sent + 1 /\ sent < MaxMsgs /\ queue' = Append(queue, sent + 1)
      /\ UNCHANGED <<offset, recv, torn, wire, cut, active, life, running, pc>>
  BY DEF Send, objVars, planVars, connVars
<1>2. sent \in Nat /\ queue \in Seq(1..MaxMsgs) /\ wire \in Seq(1..MaxMsgs)
      /\ cut \subseteq 1..MaxMsgs
  BY DEF Messages
<1>3. Messages'
  BY <1>1, <1>2 DEF Messages
<1>4. BuffersOK'
  BY <1>1, <1>2 DEF BuffersOK
<1>5. \A j \in DOMAIN queue' : \/ j \in DOMAIN queue /\ queue'[j] = queue[j]
                               \/ j = Len(queue) + 1 /\ queue'[j] = sent + 1
  BY <1>1, <1>2, Entries
<1>6. OrderOK'
  BY <1>1, <1>2, <1>5 DEF OrderOK
<1> QED BY <1>3, <1>4, <1>6

\* The head goes out complete.
LEMMA HeadGoesOut ==
    ASSUME IInv, queue # <<>>, wire' = Append(wire, Head(queue)), queue' = Tail(queue),
           UNCHANGED <<sent, cut>>
    PROVE  queue' \in Seq(1..MaxMsgs) /\ wire' \in Seq(1..MaxMsgs) /\ OrderOK'
<1> USE SocketAssumption DEF IInv
<1>1. /\ sent \in Nat /\ queue \in Seq(1..MaxMsgs) /\ wire \in Seq(1..MaxMsgs)
      /\ cut \subseteq 1..MaxMsgs
  BY DEF Messages
<1>2. /\ 1 \in DOMAIN queue /\ Head(queue) = queue[1] /\ queue[1] \in 1..MaxMsgs
      /\ queue' \in Seq(1..MaxMsgs) /\ wire' \in Seq(1..MaxMsgs)
  BY <1>1, Entries
<1>3. \A j \in DOMAIN queue' :
          j \in Nat /\ j > 0 /\ j + 1 \in DOMAIN queue /\ queue'[j] = queue[j + 1]
  BY <1>1, Entries
<1>4. \A i \in DOMAIN wire' : \/ i \in DOMAIN wire /\ wire'[i] = wire[i]
                              \/ i = Len(wire) + 1 /\ wire'[i] = queue[1]
  BY <1>1, <1>2, Entries
<1>5. \A i \in DOMAIN wire : i \in 1 .. Len(wire) /\ wire[i] \in Nat
  BY <1>1
<1>7. \A j \in DOMAIN queue' : queue[1] < queue'[j]
  BY <1>2, <1>3 DEF OrderOK
<1>8. /\ \A i \in DOMAIN wire' : wire'[i] \notin cut
      /\ \A i \in DOMAIN wire' : wire'[i] <= sent
  BY <1>1, <1>2, <1>4, <1>5 DEF OrderOK
<1>9. ASSUME NEW i \in DOMAIN wire', NEW j \in DOMAIN wire', i < j
      PROVE  wire'[i] < wire'[j]
  <2>1. i \in DOMAIN wire /\ wire'[i] = wire[i]
    BY <1>1, <1>4, <1>5, <1>9
  <2>2. CASE j \in DOMAIN wire /\ wire'[j] = wire[j]
    BY <1>9, <2>1, <2>2 DEF OrderOK
  <2>3. CASE wire'[j] = queue[1]
    BY <1>2, <2>1, <2>3 DEF OrderOK
  <2> QED BY <1>4, <2>2, <2>3
<1>10. /\ \A i, j \in DOMAIN queue' : i < j => queue'[i] < queue'[j]
       /\ \A c \in cut, j \in DOMAIN queue' : c < queue'[j]
       /\ \A j \in DOMAIN queue' : queue'[j] <= sent
  BY <1>3 DEF OrderOK
<1>11. \A i \in DOMAIN wire', j \in DOMAIN queue' : wire'[i] < queue'[j]
  BY <1>3, <1>4, <1>7 DEF OrderOK
<1> QED BY <1>2, <1>8, <1>9, <1>10, <1>11 DEF OrderOK

\* The head is sent, in part or to its end, or the connection fails.
LEMMA SendHeadStep == ASSUME IInv, SendHead PROVE Messages' /\ BuffersOK' /\ OrderOK'
<1> USE DEF IInv, Control
<1>1. /\ pc = "send" /\ active /\ queue # <<>>
      /\ UNCHANGED <<life, running, active, recv, sent, cut>>
  BY DEF SendHead, PollAt, PlanOK, objVars, planVars
<1>2. CASE wire' = Append(wire, Head(queue)) /\ queue' = Tail(queue)
           /\ torn' = (torn \/ offset = "old") /\ offset' = "none" /\ UNCHANGED pc
  <2>1. queue' \in Seq(1..MaxMsgs) /\ wire' \in Seq(1..MaxMsgs) /\ OrderOK'
    BY <1>1, <1>2, HeadGoesOut
  <2>2. Messages' /\ BuffersOK'
    BY <1>1, <1>2, <2>1 DEF Messages, BuffersOK
  <2> QED BY <2>1, <2>2
<1>3. CASE UNCHANGED <<wire, queue, torn>> /\ pc' \in {"recv", "fail"}
           /\ offset' \in {offset, "this"} \ {"old"}
  BY <1>1, <1>3 DEF Messages, BuffersOK, OrderOK
<1> QED BY <1>1, <1>2, <1>3 DEF SendHead, BuffersOK, Messages

\* Messages are put together from one connection.
LEMMA ReceiveStep == ASSUME IInv, Receive PROVE Messages' /\ BuffersOK' /\ OrderOK'
<1> USE DEF IInv, Control
<1>1. /\ pc = "recv" /\ active
      /\ UNCHANGED <<life, running, active, offset, queue, wire, sent, cut>>
  BY DEF Receive, PollAt, PlanOK, objVars, planVars, msgVars
<1>2. recv' \in {"none", "this", recv} /\ pc' \in {"recv", "top", "fail"}
  BY <1>1 DEF Receive
<1>3. torn' = FALSE
  BY DEF Receive, BuffersOK
<1> QED BY <1>1, <1>2, <1>3 DEF Messages, BuffersOK, OrderOK

\* Both buffers are emptied, and a message that has gone out in part is dropped.
LEMMA FailDropsStep == ASSUME IInv, FailDrops PROVE Messages' /\ BuffersOK' /\ OrderOK'
<1> USE DEF IInv, Control
<1>1. offset' = "none" /\ recv' = "none" /\ UNCHANGED <<torn, sent, wire>>
  BY DEF FailDrops
<1>2. CASE offset = "none"
  <2>1. queue' = queue /\ cut' = cut
    BY <1>2 DEF FailDrops, QueueAfterFail
  <2> QED BY <1>1, <2>1 DEF Messages, BuffersOK, OrderOK
<1>3. CASE offset # "none"
  <2>1. queue # <<>> /\ queue' = Tail(queue) /\ cut' = cut \union {Head(queue)}
    BY <1>3 DEF FailDrops, QueueAfterFail, BuffersOK
  <2>2. /\ sent \in Nat /\ queue \in Seq(1..MaxMsgs) /\ wire \in Seq(1..MaxMsgs)
        /\ cut \subseteq 1..MaxMsgs
    BY DEF Messages
  <2>3. 1 \in DOMAIN queue /\ Head(queue) = queue[1] /\ queue[1] \in 1..MaxMsgs
    BY <2>1, <2>2, Entries
  <2>4. /\ queue' \in Seq(1..MaxMsgs)
        /\ \A j \in DOMAIN queue' :
            j \in Nat /\ j > 0 /\ j + 1 \in DOMAIN queue /\ queue'[j] = queue[j + 1]
    BY <2>1, <2>2, Entries
  <2>5. \A i \in DOMAIN wire : i \in Nat /\ wire[i] \in Nat
    BY <2>2, SocketAssumption
  <2>6. \A j \in DOMAIN queue : j \in Nat /\ queue[j] \in Nat
    BY <2>2, SocketAssumption
  <2>7. OrderOK'
    BY <1>1, <2>1, <2>2, <2>3, <2>4, <2>5, <2>6 DEF OrderOK
  <2>8. Messages' /\ BuffersOK'
    BY <1>1, <2>1, <2>2, <2>3, <2>4 DEF Messages, BuffersOK
  <2> QED BY <2>7, <2>8
<1> QED BY <1>2, <1>3

\* A new connection begins with empty buffers.
LEMMA ConnectKeeps == ASSUME IInv, Connect PROVE Messages' /\ BuffersOK' /\ OrderOK'
<1> USE DEF IInv, Control
<1>1. offset = "none" /\ recv = "none"
  BY DEF Connect, PollAt, BuffersOK, RefsOK, PlanOK
<1>2. offset' = "none" /\ recv' = "none" /\ UNCHANGED <<torn, queue, wire, sent, cut>>
  BY <1>1 DEF Connect, Aged, msgVars
<1> QED BY <1>2 DEF Messages, BuffersOK, OrderOK

\* The other steps leave the messages and the buffers alone.
LEMMA OtherSteps ==
    ASSUME IInv,
           \/ DropRef \/ DestructorChecks \/ SpuriousWakeup \/ Stop \/ BecomesDue
           \/ LoopTop \/ CollectDue \/ DropDue \/ Perform \/ AcknowledgeClose \/ Pump
           \/ AllSent \/ FailSchedules \/ FailCloses \/ Notify \/ PollExits
    PROVE  Messages' /\ BuffersOK' /\ OrderOK'
<1> USE DEF IInv, Control
<1>1. UNCHANGED <<offset, recv, torn, queue, sent, wire, cut>>
  BY DEF DropRef, DestructorChecks, SpuriousWakeup, Stop, BecomesDue, LoopTop, CollectDue,
     DropDue, Perform, AcknowledgeClose, Pump, AllSent, FailSchedules, FailCloses, Notify,
     PollExits, connVars, msgVars
<1>2. Messages' /\ OrderOK'
  BY <1>1 DEF Messages, OrderOK
<1>3. ASSUME offset # "none" \/ recv # "none"
      PROVE  \/ active' /\ pc' \notin {"schedule", "close", "notify"}
             \/ life' # "alive"
             \/ /\ ~running'
                /\ pc' \in {"top", "down", "exited"} \/ (pc' = "notify" /\ active')
  <2>1. life' = "alive" => life = "alive"
    BY DEF DropRef, EnterDestructor, DestructorChecks, SpuriousWakeup, Stop, BecomesDue,
       LoopTop, CollectDue, DropDue, Perform, AcknowledgeClose, Pump, AllSent,
       FailSchedules, FailCloses, Notify, Woken, PollExits, objVars
  <2>2. running' => running
    BY DEF DropRef, DestructorChecks, SpuriousWakeup, Stop, BecomesDue, LoopTop,
       CollectDue, DropDue, Perform, AcknowledgeClose, Pump, AllSent, FailSchedules,
       FailCloses, Notify, PollExits
  <2>3. CASE DropRef \/ DestructorChecks \/ SpuriousWakeup \/ Stop \/ BecomesDue
    <3>1. UNCHANGED <<active, pc>>
      BY <2>3 DEF DropRef, DestructorChecks, SpuriousWakeup, Stop, BecomesDue, planVars
    <3> QED BY <1>3, <2>1, <2>2, <3>1 DEF BuffersOK
  <2>4. CASE LoopTop \/ CollectDue \/ DropDue \/ Perform \/ Pump \/ AllSent \/ PollExits
    <3>1. /\ UNCHANGED <<active, running>>
          /\ pc' \notin {"schedule", "close", "notify"}
          /\ pc = "top" /\ ~running => pc' = "down"
          /\ pc = "down" => pc' = "exited"
          /\ pc # "exited"
      BY <2>4 DEF LoopTop, CollectDue, DropDue, Perform, Pump, AllSent, PollExits, PollAt,
         planVars
    <3> QED BY <1>3, <2>1, <3>1 DEF BuffersOK
  <2>5. CASE AcknowledgeClose
    <3>1. /\ UNCHANGED <<active, life, running>> /\ pc' = "notify"
          /\ life # "alive" \/ (active /\ ~running)
      BY <2>5 DEF AcknowledgeClose, PollAt, planVars, PlanOK
    <3> QED BY <3>1
  <2>6. CASE FailSchedules \/ FailCloses
    <3>1. UNCHANGED <<life, running>> /\ pc \in {"schedule", "close"}
      BY <2>6 DEF FailSchedules, FailCloses, PollAt, objVars
    <3> QED BY <1>3, <3>1 DEF BuffersOK
  <2>7. CASE Notify
    <3>1. pc = "notify" /\ UNCHANGED running /\ (active => pc' = "top")
      BY <2>7 DEF Notify, PollAt
    <3> QED BY <1>3, <2>1, <3>1 DEF BuffersOK
  <2> QED BY <2>3, <2>4, <2>5, <2>6, <2>7
<1>4. BuffersOK'
  BY <1>1, <1>3 DEF BuffersOK
<1> QED BY <1>2, <1>4

-----------------------------------------------------------------------------
\* The invariant holds in every state.
THEOREM SocketInvariant == Spec => []IInv
<1>1. Init => IInv
  <2>1. Init => Flags
    BY DEF Init, Flags
  <2>4. Init => Places /\ RefsOK /\ LiveOK
    BY DEF Init, Places, RefsOK, LiveOK
  <2>2. Init => PlanOK
    BY DEF Init, PlanOK, OneConnectionPlanned
  <2>3. Init => Messages /\ BuffersOK /\ OrderOK
    BY SocketAssumption DEF Init, Messages, BuffersOK, OrderOK
  <2> QED BY <2>1, <2>2, <2>3, <2>4 DEF IInv, Control
<1>2. IInv /\ [Next]_vars => IInv'
  <2>1. IInv /\ Next => Control'
    BY QuietStep, OwnerStep, ConnectStep, EndStep DEF IInv, Next, PollStep
  <2>2. IInv /\ Next => Messages' /\ BuffersOK' /\ OrderOK'
    BY SendStep, SendHeadStep, ReceiveStep, FailDropsStep, ConnectKeeps, OtherSteps
    DEF Next, PollStep
  <2>3. IInv /\ UNCHANGED vars => IInv'
    <3> SUFFICES ASSUME IInv, UNCHANGED vars PROVE IInv'
      OBVIOUS
    <3> USE DEF IInv, Control, vars, objVars, refVars, planVars, connVars, msgVars
    <3>1. Flags' /\ Places' /\ RefsOK' /\ LiveOK'
      BY DEF Flags, Places, RefsOK, LiveOK
    <3>2. PlanOK' /\ Messages'
      BY DEF PlanOK, OneConnectionPlanned, Messages
    <3>3. BuffersOK' /\ OrderOK'
      BY DEF BuffersOK, OrderOK
    <3> QED BY <3>1, <3>2, <3>3
  <2> QED BY <2>1, <2>2, <2>3 DEF IInv
<1> QED BY <1>1, <1>2, PTL DEF Spec, SafeSpec

\* The raw pointer in _activeWebSockets refers to a living object, whichever
\* thread drops the last reference and whenever it does, and a socket has one
\* connection planned at most (run websocket_client).
THEOREM AttendedOnce == Spec => []SocketIsAttendedOnce
<1>1. IInv => TypeOK
  <2>1. IInv => {userRef, dueRef, active, curl, connecting, torn, touched, running}
                  \subseteq BOOLEAN
    BY DEF IInv, Control, Flags, BuffersOK
  <2> QED BY <2>1 DEF IInv, Control, Places, Messages, TypeOK
<1>2. IInv => ActivePointerIsLive /\ OneConnectionPlanned
  BY DEF IInv, Control, LiveOK, PlanOK, ActivePointerIsLive
<1> QED BY <1>1, <1>2, SocketInvariant, PTL DEF SocketIsAttendedOnce

\* Over any number of reconnections messages go out once and in the order of
\* Send, and are put together from one connection (run websocket_client).
THEOREM WholeAndInOrder == Spec => []MessagesStayWholeAndInOrder
<1>1. IInv => MessagesStayWholeAndInOrder
  BY DEF IInv, BuffersOK, OrderOK, MessagesStayWholeAndInOrder
<1> QED BY <1>1, SocketInvariant, PTL

-----------------------------------------------------------------------------
(* The sockets and requests of the server.                                 *)

\* What was let in and is not released: the queue and what the module has.
Kept == ToSet(received) \union held

\* The places of a connection's worker at which it holds its socket.
Holding == {"hand", "return", "data", "force"}

Anyone == Conns \union {NoSocket, Owner, User}

ReqTypes ==
    /\ work \in [Requests -> {"idle", "call", "return", "wait", "done"}]
    /\ pending = {r \in Requests : work[r] \in {"call", "return", "wait"}}
    /\ response \in [Requests -> {"none", "answer", "500", "503"}]
    /\ replied \in [Requests -> BOOLEAN]
    /\ replies \in [Requests -> {"none", "answer", "500", "503"}]

ConnTypes ==
    /\ wpc \in [Conns -> {"free", "ready", "open"} \union Holding]
    /\ cur \in [Conns -> Sockets \union {NoSocket}]
    /\ listed \subseteq {c \in Conns : cur[c] # NoSocket}

SockTypes ==
    /\ on \in [Sockets -> Conns \union {NoSocket}]
    /\ sockState \in [Sockets -> {"open", "closed"}]
    /\ sockLife \in [Sockets -> {"none", "alive", "dying", "closing", "dead"}]
    /\ dropper \in [Sockets -> Anyone]
    /\ strayed \in BOOLEAN

UserTypes ==
    /\ received \in Seq(Requests \union Sockets)
    /\ held \subseteq Requests \union Sockets
    /\ sending \subseteq held \intersect Sockets
    /\ owner \in {"new", "up", "released", "gone"}

ServerTypes ==
    /\ server \in {"up", "closing", "stopping", "gone"}
    /\ stopper \in Anyone

\* Where a connection's worker is, and with which socket.
WorkersOK ==
    \A c \in Conns :
        /\ wpc[c] \in {"free", "ready", "force"} => c \notin listed
        /\ wpc[c] \in {"ready"} \union Holding => cur[c] # NoSocket
        /\ cur[c] # NoSocket => on[cur[c]] = c

\* A socket that somebody refers to lives, and one that is written to is open.
AliveOK ==
    /\ \A s \in Sockets : s \in Kept => sockLife[s] = "alive"
    /\ \A c \in Conns : wpc[c] \in Holding => sockLife[cur[c]] = "alive"
    /\ \A s \in sending : sockState[s] = "open"

\* A request that has not arrived, or that was turned away, is nowhere.
AnswersOK ==
    \A r \in Requests :
        /\ response[r] = "none" /\ work[r] \in {"idle", "done"} => r \notin Kept
        /\ response[r] # "none" =>
               work[r] # "idle" /\ replies[r] \in {"none", response[r]}
        /\ replies[r] # "none" => work[r] = "done"

\* A connection has one socket, which is listed until it is told of the end.
SocketsOK ==
    /\ \A s, u \in Sockets : on[s] = on[u] /\ on[s] # NoSocket => s = u
    /\ \A s \in Sockets :
          sockLife[s] = "alive" /\ sockState[s] = "open" =>
              /\ on[s] \in Conns /\ cur[on[s]] = s
              /\ on[s] \in listed \/ wpc[on[s]] = "force"

Types == ReqTypes /\ ConnTypes /\ SockTypes /\ UserTypes /\ ServerTypes

ServerInv == Types /\ WorkersOK /\ AliveOK /\ AnswersOK /\ (~Reuses => SocketsOK)

\* Values of the model are not taken for others.
LEMMA ServerConstants ==
  /\ NoSocket \notin Sockets /\ NoSocket \notin Conns
  /\ Requests \intersect Sockets = {}
  /\ Owner \in Anyone /\ User \in Anyone /\ Conns \subseteq Anyone
BY ServerAssumption DEF ServerAssumption, Anyone

\* What a queue holds.
LEMMA QueueElements ==
  ASSUME NEW T, NEW q \in Seq(T)
  PROVE  /\ ToSet(q) \subseteq T
         /\ \A x \in T : /\ Append(q, x) \in Seq(T)
                         /\ ToSet(Append(q, x)) = ToSet(q) \union {x}
         /\ q # <<>> => /\ Head(q) \in T /\ Tail(q) \in Seq(T)
                        /\ ToSet(q) = {Head(q)} \union ToSet(Tail(q))
<1>1. \A p \in Seq(T) : ToSet(p) = {p[i] : i \in 1 .. Len(p)}
  BY DEF ToSet
<1>2. ASSUME NEW x \in T
      PROVE  Append(q, x) \in Seq(T) /\ ToSet(Append(q, x)) = ToSet(q) \union {x}
  <2>1. /\ Append(q, x) \in Seq(T) /\ Len(Append(q, x)) = Len(q) + 1
        /\ Append(q, x)[Len(q) + 1] = x
        /\ \A i \in 1 .. Len(q) : Append(q, x)[i] = q[i]
    OBVIOUS
  <2>2. ToSet(q) = {q[i] : i \in 1 .. Len(q)}
    BY <1>1
  <2>3. ToSet(Append(q, x)) = {Append(q, x)[i] : i \in 1 .. Len(q) + 1}
    BY <1>1, <2>1
  <2>4. \A i \in 1 .. Len(q) + 1 : i \in 1 .. Len(q) \/ i = Len(q) + 1
    OBVIOUS
  <2>5. \A i \in 1 .. Len(q) : i \in 1 .. Len(q) + 1
    OBVIOUS
  <2>6. Len(q) + 1 \in 1 .. Len(q) + 1
    OBVIOUS
  <2>7. ToSet(Append(q, x)) \subseteq ToSet(q) \union {x}
    BY <2>1, <2>2, <2>3, <2>4
  <2>8. ToSet(q) \union {x} \subseteq ToSet(Append(q, x))
    BY <2>1, <2>2, <2>3, <2>5, <2>6
  <2> QED BY <2>1, <2>7, <2>8
<1>3. ASSUME q # <<>>
      PROVE  /\ Head(q) \in T /\ Tail(q) \in Seq(T)
             /\ ToSet(q) = {Head(q)} \union ToSet(Tail(q))
  <2>1. /\ Head(q) \in T /\ Tail(q) \in Seq(T) /\ Head(q) = q[1]
        /\ Len(q) > 0 /\ Len(Tail(q)) = Len(q) - 1
        /\ \A i \in 1 .. Len(Tail(q)) : Tail(q)[i] = q[i + 1]
    BY <1>3
  <2>2. \A i \in 1 .. Len(q) : i = 1 \/ (i - 1 \in 1 .. Len(Tail(q)) /\ i = (i - 1) + 1)
    BY <2>1
  <2>3. \A i \in 1 .. Len(Tail(q)) : i + 1 \in 1 .. Len(q)
    BY <2>1
  <2>4. ToSet(q) = {q[i] : i \in 1 .. Len(q)}
    BY <1>1
  <2>5. ToSet(Tail(q)) = {Tail(q)[i] : i \in 1 .. Len(Tail(q))}
    BY <1>1, <2>1
  <2>6. ASSUME NEW y \in ToSet(q) PROVE y \in {Head(q)} \union ToSet(Tail(q))
    <3>1. PICK i \in 1 .. Len(q) : y = q[i]
      BY <2>4
    <3> QED BY <2>1, <2>2, <2>5, <3>1
  <2>7. ASSUME NEW y \in ToSet(Tail(q)) PROVE y \in ToSet(q)
    <3>1. PICK i \in 1 .. Len(Tail(q)) : y = Tail(q)[i]
      BY <2>5
    <3> QED BY <2>1, <2>3, <2>4, <3>1
  <2>8. Head(q) \in ToSet(q)
    BY <2>1, <2>4
  <2> QED BY <2>1, <2>6, <2>7, <2>8
<1>4. ToSet(q) \subseteq T
  BY <1>1
<1> QED BY <1>2, <1>3, <1>4

\* The queue of the WebServerImpl gets longer by what was received.
LEMMA QueueGrows ==
  ASSUME UserTypes, NEW x \in Requests \union Sockets, held' = held,
         received' \in {received, Append(received, x)}
  PROVE  received' \in Seq(Requests \union Sockets) /\ Kept' \subseteq Kept \union {x}
<1>1. PICK q \in Seq(Requests \union Sockets) : q = received
  BY DEF UserTypes
<1>2. PICK p \in Seq(Requests \union Sockets) :
          p = received' /\ ToSet(p) \subseteq ToSet(q) \union {x}
  <2>1. /\ Append(q, x) \in Seq(Requests \union Sockets)
        /\ ToSet(Append(q, x)) = ToSet(q) \union {x}
    BY QueueElements
  <2> QED BY <1>1, <2>1
<1> QED BY <1>1, <1>2 DEF Kept

\* The thread that may have dropped the last reference to a socket.
LEMMA Dropping ==
  ASSUME SockTypes, NEW s \in Sockets, NEW t \in Anyone, DropSocket(s, t),
         \A u \in Sockets : u \in Kept' => sockLife[u] = "alive",
         \A c \in Conns : wpc'[c] \in Holding => sockLife[cur'[c]] = "alive"
  PROVE  /\ sockLife' \in [Sockets -> {"none", "alive", "dying", "closing", "dead"}]
         /\ dropper' \in [Sockets -> Anyone]
         /\ \A u \in Sockets : u \in Kept' => sockLife'[u] = "alive"
         /\ \A c \in Conns : wpc'[c] \in Holding /\ cur'[c] \in Sockets =>
                sockLife'[cur'[c]] = "alive"
         /\ \A u \in Sockets : sockLife'[u] = "alive" => sockLife[u] = "alive"
<1>1. CASE UNCHANGED <<sockLife, dropper>>
  BY <1>1 DEF SockTypes
<1>2. CASE /\ ~Referenced(s)'
           /\ sockLife' = [sockLife EXCEPT ![s] = "dying"]
           /\ dropper' = [dropper EXCEPT ![s] = t]
  <2>1. s \notin Kept'
    BY <1>2 DEF Referenced, Kept
  <2>2. \A c \in Conns : wpc'[c] \in Holding => cur'[c] # s
    BY <1>2 DEF Referenced, Holding
  <2>3. /\ sockLife' \in [Sockets -> {"none", "alive", "dying", "closing", "dead"}]
        /\ dropper' \in [Sockets -> Anyone]
    BY <1>2 DEF SockTypes
  <2>4. \A u \in Sockets \ {s} : sockLife'[u] = sockLife[u]
    BY <1>2 DEF SockTypes
  <2>5. sockLife'[s] = "dying"
    BY <1>2 DEF SockTypes
  <2> QED BY <2>1, <2>2, <2>3, <2>4, <2>5
<1> QED BY <1>1, <1>2 DEF DropSocket

\* The thread that may have dropped the last reference to the server.
LEMMA ServerDropped ==
  ASSUME ServerTypes, NEW t \in Anyone, DropServer(t)
  PROVE  ServerTypes'
BY DEF ServerTypes, DropServer, serverVars

\* Requests are answered once; nothing else of the server is touched.
LEMMA AnswerStep ==
  ASSUME ReqTypes, NEW r \in Requests, DropRequest(r)
  PROVE  /\ response' \in [Requests -> {"none", "answer", "500", "503"}]
         /\ replied' \in [Requests -> BOOLEAN]
         /\ \A q \in Requests : response[q] # "none" => response'[q] = response[q]
         /\ \A q \in Requests \ {r} : response'[q] = response[q]
<1>1. CASE UNCHANGED <<replied, response>>
  BY <1>1 DEF ReqTypes
<1>2. CASE Discards(r)
  <2>1. /\ replied' = [replied EXCEPT ![r] = TRUE]
        /\ response' = IF response[r] = "none" THEN [response EXCEPT ![r] = "500"]
                                               ELSE response
    BY <1>2 DEF Discards, Answers
  <2>2. replied' \in [Requests -> BOOLEAN]
    BY <2>1 DEF ReqTypes
  <2> QED BY <2>1, <2>2 DEF ReqTypes
<1> QED BY <1>1, <1>2 DEF DropRequest

\* The requests and their workers.
LEMMA RequestSteps ==
  ASSUME ServerInv, NEW r \in Requests,
         Arrive(r) \/ RequestStep(r) \/ SendResponse(r)
  PROVE  ServerInv'
<1> USE DEF ServerInv, Types
<1>1. /\ UNCHANGED <<wpc, cur, listed, on, sockState, sockLife, dropper, sending,
                    strayed, held, owner, server, stopper>>
      /\ received' \in Seq(Requests \union Sockets)
      /\ Kept' \subseteq Kept \union (IF CallHandler(r) THEN {r} ELSE {})
  <2>1. CASE CallHandler(r)
    <3>1. /\ UNCHANGED <<wpc, cur, listed, on, sockState, sockLife, dropper, sending,
                         strayed, held, owner, server, stopper>>
          /\ received' \in {received, Append(received, r)}
      BY <2>1 DEF CallHandler, Received, workerVars, sockVars, serverVars
    <3> QED BY <2>1, <3>1, QueueGrows
  <2>2. CASE ~CallHandler(r)
    <3>1. received' = received
      BY <2>2 DEF Arrive, RequestStep, HandlerReturns, Reply, SendResponse,
         userVars
    <3>2. UNCHANGED <<wpc, cur, listed, on, sockState, sockLife, dropper, sending,
                    strayed, held, owner, server, stopper>>
      BY <2>2 DEF Arrive, RequestStep, HandlerReturns, Reply, SendResponse,
         userVars, workerVars, sockVars, serverVars
    <3> QED BY <2>2, <3>1, <3>2 DEF UserTypes, Kept
  <2> QED BY <2>1, <2>2
<1>2. ConnTypes' /\ SockTypes' /\ UserTypes' /\ ServerTypes' /\ WorkersOK'
  BY <1>1 DEF ConnTypes, SockTypes, UserTypes, ServerTypes, WorkersOK
<1>4. AliveOK'
  <2>1. \A s \in Sockets : s \in Kept' => s \in Kept
    BY <1>1, ServerConstants
  <2> QED BY <1>1, <2>1 DEF AliveOK
<1>5. ~Reuses => SocketsOK'
  BY <1>1 DEF SocketsOK
<1>6. ReqTypes' /\ AnswersOK'
  <2>1. CASE Arrive(r)
    <3>1. /\ work[r] = "idle" /\ response' = response /\ replied' = replied
          /\ \/ /\ replies' = [replies EXCEPT ![r] = "503"]
                /\ work' = [work EXCEPT ![r] = "done"] /\ pending' = pending
             \/ /\ pending' = pending \union {r} /\ replies' = replies
                /\ work' = [work EXCEPT ![r] = "call"]
      BY <2>1 DEF Arrive
    <3>2. Kept' \subseteq Kept
      BY <1>1, <3>1 DEF CallHandler
    <3>3. response[r] = "none" /\ replies[r] = "none"
      BY <3>1 DEF AnswersOK, ReqTypes
    <3>4. ReqTypes'
      BY <3>1 DEF ReqTypes
    <3>5. AnswersOK'
      BY <3>1, <3>2, <3>3 DEF ReqTypes, AnswersOK
    <3> QED BY <3>4, <3>5
  <2>2. CASE CallHandler(r)
    <3>1. /\ work[r] = "call" /\ work' = [work EXCEPT ![r] = "return"]
          /\ UNCHANGED <<pending, response, replied, replies>>
      BY <2>2 DEF CallHandler
    <3>2. ReqTypes'
      BY <3>1 DEF ReqTypes
    <3>3. Kept' \subseteq Kept \union {r}
      BY <1>1
    <3>4. AnswersOK'
      BY <3>1, <3>3 DEF ReqTypes, AnswersOK
    <3> QED BY <3>2, <3>4
  <2>3. CASE HandlerReturns(r)
    <3>1. /\ work[r] = "return" /\ work' = [work EXCEPT ![r] = "wait"]
          /\ UNCHANGED <<pending, replies>> /\ DropRequest(r)
      BY <2>3 DEF HandlerReturns
    <3>2. Kept' \subseteq Kept
      BY <1>1, <3>1 DEF CallHandler
    <3>3. /\ response' \in [Requests -> {"none", "answer", "500", "503"}]
          /\ replied' \in [Requests -> BOOLEAN]
          /\ \A q \in Requests : response[q] # "none" => response'[q] = response[q]
          /\ \A q \in Requests \ {r} : response'[q] = response[q]
      BY <3>1, AnswerStep
    <3>4. ReqTypes'
      BY <3>1, <3>3 DEF ReqTypes
    <3>5. replies[r] = "none"
      BY <3>1 DEF AnswersOK
    <3>6. AnswersOK'
      BY <3>1, <3>2, <3>3, <3>5 DEF ReqTypes, AnswersOK
    <3> QED BY <3>4, <3>6
  <2>4. CASE Reply(r)
    <3>1. /\ work[r] = "wait" /\ response[r] # "none" /\ pending' = pending \ {r}
          /\ replies' = [replies EXCEPT ![r] = response[r]]
          /\ work' = [work EXCEPT ![r] = "done"]
          /\ UNCHANGED <<response, replied>>
      BY <2>4 DEF Reply, Without
    <3>2. Kept' \subseteq Kept
      BY <1>1, <3>1 DEF CallHandler
    <3>3. ReqTypes'
      BY <3>1 DEF ReqTypes
    <3>4. AnswersOK'
      BY <3>1, <3>2 DEF ReqTypes, AnswersOK
    <3> QED BY <3>3, <3>4
  <2>5. CASE SendResponse(r)
    <3>1. /\ r \in Kept /\ UNCHANGED <<work, pending, replies, received, held>>
          /\ replied' = [replied EXCEPT ![r] = TRUE]
          /\ response' = IF response[r] = "none" THEN [response EXCEPT ![r] = "answer"]
                                                 ELSE response
      BY <2>5 DEF SendResponse, Answers, userVars, Kept
    <3>2. Kept' = Kept
      BY <3>1 DEF Kept
    <3>3. replied' \in [Requests -> BOOLEAN]
      BY <3>1 DEF ReqTypes
    <3>4. response' \in [Requests -> {"none", "answer", "500", "503"}]
      BY <3>1 DEF ReqTypes
    <3>5. ReqTypes'
      BY <3>1, <3>3, <3>4 DEF ReqTypes
    <3>6. response[r] = "none" => work[r] \notin {"idle", "done"} /\ replies[r] = "none"
      BY <3>1 DEF AnswersOK
    <3>7. AnswersOK'
      BY <3>1, <3>2, <3>6 DEF ReqTypes, AnswersOK
    <3> QED BY <3>5, <3>7
  <2> QED BY <2>1, <2>2, <2>3, <2>4, <2>5 DEF RequestStep
<1> QED BY <1>2, <1>4, <1>5, <1>6

\* The connections: of what the requests rest on only the queue gets longer.
LEMMA ConnectionSteps ==
  ASSUME ServerInv, NEW c \in Conns,
         ConnStep(c) \/ Data(c) \/ HandleClose(c)
            \/ \E s \in Sockets : HandleWebSocketConnect(c, s)
  PROVE  ServerInv'
<1> USE DEF ServerInv, Types
<1>0. NoSocket \notin Sockets /\ c \in Anyone
  BY ServerConstants
<1>1. ReqTypes' /\ AnswersOK'
  <2>1. UNCHANGED <<work, pending, response, replied, replies, held>>
    BY DEF ConnStep, Ready, HandOver, Return, ForceClose, Data,
       HandleClose, HandleWebSocketConnect, reqVars, userVars
  <2>2. \A x \in Kept' : x \in Kept \/ x \in Sockets
    <3>1. CASE HandOver(c)
      <4>1. /\ wpc[c] = "hand" /\ held' = held
            /\ received' \in {received, Append(received, cur[c])}
        BY <3>1 DEF HandOver, ConnAt, Received
      <4>2. cur[c] \in Sockets
        BY <4>1 DEF ConnTypes, WorkersOK, Holding
      <4>3. PICK s \in Sockets : s = cur[c]
        BY <4>2
      <4>4. Kept' \subseteq Kept \union {s}
        BY <4>1, <4>3, QueueGrows
      <4> QED BY <4>4
    <3>2. CASE ~HandOver(c)
      <4>1. received' = received
        BY <3>2 DEF ConnStep, Ready, Return, ForceClose, Data,
           HandleClose, HandleWebSocketConnect, userVars
      <4> QED BY <2>1, <4>1 DEF Kept
    <3> QED BY <3>1, <3>2
  <2>3. \A r \in Requests : r \in Kept' => r \in Kept
    BY <2>2, ServerConstants
  <2> QED BY <2>1, <2>3 DEF ReqTypes, AnswersOK
<1>2. CASE \E s \in Sockets : HandleWebSocketConnect(c, s)
  <2>1. PICK s \in Sockets : HandleWebSocketConnect(c, s)
    BY <1>2
  <2>2. /\ wpc[c] = "free" /\ sockLife[s] = "none" /\ \A d \in Conns : cur[d] # s
        /\ Reuses \/ \A u \in Sockets : on[u] # c
        /\ wpc' = [wpc EXCEPT ![c] = "ready"] /\ cur' = [cur EXCEPT ![c] = s]
        /\ on' = [on EXCEPT ![s] = c]
        /\ UNCHANGED <<listed, sockState, sockLife, dropper, sending, strayed,
                      received, held, owner, server, stopper>>
    BY <2>1 DEF HandleWebSocketConnect, ConnAt, Goto, userVars, serverVars
  <2>3. c \notin listed
    BY <2>2 DEF WorkersOK
  <2>4. ConnTypes'
    BY <1>0, <2>2, <2>3 DEF ConnTypes
  <2>5. SockTypes' /\ UserTypes' /\ ServerTypes'
    BY <2>2 DEF SockTypes, UserTypes, ServerTypes
  <2>6. WorkersOK'
    BY <1>0, <2>2, <2>3 DEF ConnTypes, SockTypes, WorkersOK, Holding
  <2>7. Kept' = Kept
    BY <2>2 DEF Kept
  <2>8. AliveOK'
    <3>1. \A d \in Conns : wpc'[d] \in Holding => wpc'[d] = wpc[d] /\ cur'[d] = cur[d]
      BY <2>2 DEF Holding, ConnTypes
    <3> QED BY <2>2, <2>7, <3>1 DEF AliveOK
  <2>9. ASSUME ~Reuses PROVE SocketsOK'
    <3>1. \A u \in Sockets : u # s => on'[u] = on[u] /\ on[u] # c
      BY <2>2, <2>9 DEF SockTypes
    <3>2. on'[s] = c /\ sockLife'[s] = "none"
      BY <2>2 DEF SockTypes
    <3>3. \A d \in Conns \ {c} : cur'[d] = cur[d] /\ wpc'[d] = wpc[d]
      BY <2>2 DEF ConnTypes
    <3>4. \A u, v \in Sockets : on'[u] = on'[v] /\ on'[u] # NoSocket => u = v
      BY <2>9, <3>1, <3>2 DEF SocketsOK
    <3> QED BY <2>2, <2>9, <3>1, <3>2, <3>3, <3>4 DEF SocketsOK
  <2> QED BY <1>1, <2>4, <2>5, <2>6, <2>8, <2>9
<1>3. CASE Ready(c)
  <2>1. /\ wpc[c] = "ready"
        /\ UNCHANGED <<on, sockState, dropper, sending, strayed, received, held, owner,
                      server, stopper>>
    BY <1>3 DEF Ready, ConnAt, userVars, serverVars
  <2>2. cur[c] \in Sockets /\ c \notin listed /\ on[cur[c]] = c
    BY <2>1 DEF WorkersOK, ConnTypes
  <2>3. \/ /\ sockLife' = [sockLife EXCEPT ![cur[c]] = "alive"]
           /\ listed' = listed \union {c} /\ cur' = cur
           /\ wpc' = [wpc EXCEPT ![c] = "hand"]
        \/ /\ cur' = [cur EXCEPT ![c] = NoSocket] /\ UNCHANGED <<sockLife, listed>>
           /\ wpc' = [wpc EXCEPT ![c] = "open"]
    BY <1>3 DEF Ready, Goto
  <2>4. ConnTypes'
    <3>1. wpc' \in [Conns -> {"free", "ready", "open"} \union Holding]
      BY <2>3 DEF ConnTypes, Holding
    <3>2. cur' \in [Conns -> Sockets \union {NoSocket}]
      BY <2>3 DEF ConnTypes
    <3>3. listed' \subseteq {d \in Conns : cur'[d] # NoSocket}
      BY <2>2, <2>3, ServerConstants DEF ConnTypes
    <3> QED BY <3>1, <3>2, <3>3 DEF ConnTypes
  <2>5. SockTypes' /\ UserTypes' /\ ServerTypes'
    BY <2>1, <2>2, <2>3 DEF SockTypes, UserTypes, ServerTypes
  <2>6. WorkersOK'
    BY <1>0, <2>1, <2>2, <2>3 DEF ConnTypes, WorkersOK, Holding
  <2>7. Kept' = Kept
    BY <2>1 DEF Kept
  <2>8. \A u \in Sockets : sockLife[u] = "alive" => sockLife'[u] = "alive"
    BY <2>2, <2>3 DEF SockTypes
  <2>9. AliveOK'
    <3>1. \A d \in Conns : wpc'[d] \in Holding => sockLife'[cur'[d]] = "alive"
      <4>1. SUFFICES ASSUME NEW d \in Conns, wpc'[d] \in Holding
                     PROVE  sockLife'[cur'[d]] = "alive"
        OBVIOUS
      <4>2. CASE d = c
        BY <2>2, <2>3, <4>1, <4>2 DEF ConnTypes, SockTypes, Holding
      <4>3. CASE d # c
        <5>1. wpc'[d] = wpc[d] /\ cur'[d] = cur[d]
          BY <2>3, <4>3 DEF ConnTypes
        <5>2. cur[d] \in Sockets /\ sockLife[cur[d]] = "alive"
          BY <4>1, <5>1 DEF ConnTypes, WorkersOK, AliveOK
        <5> QED BY <2>8, <5>1, <5>2
      <4> QED BY <4>2, <4>3
    <3> QED BY <2>1, <2>7, <2>8, <3>1 DEF AliveOK
  <2>10. ASSUME ~Reuses PROVE SocketsOK'
    <3>1. CASE /\ cur' = [cur EXCEPT ![c] = NoSocket] /\ UNCHANGED <<sockLife, listed>>
               /\ wpc' = [wpc EXCEPT ![c] = "open"]
      <4>1. wpc[c] # "force" /\ listed' = listed
        BY <2>1, <3>1
      <4>2. \A d \in Conns \ {c} : cur'[d] = cur[d] /\ wpc'[d] = wpc[d]
        BY <3>1 DEF ConnTypes
      <4>3. \A u \in Sockets : on[u] = c => ~(sockLife[u] = "alive" /\ sockState[u] = "open")
        BY <2>2, <2>10, <4>1 DEF SocketsOK
      <4> QED BY <2>1, <2>10, <3>1, <4>1, <4>2, <4>3 DEF SocketsOK
    <3>2. CASE /\ sockLife' = [sockLife EXCEPT ![cur[c]] = "alive"]
               /\ listed' = listed \union {c} /\ cur' = cur
               /\ wpc' = [wpc EXCEPT ![c] = "hand"]
      <4>1. \A u \in Sockets \ {cur[c]} : sockLife'[u] = sockLife[u]
        BY <3>2 DEF SockTypes
      <4>2. \A d \in Conns \ {c} : wpc'[d] = wpc[d]
        BY <3>2 DEF ConnTypes
      <4> QED BY <2>1, <2>2, <2>10, <3>2, <4>1, <4>2 DEF SocketsOK
    <3> QED BY <2>3, <3>1, <3>2
  <2> QED BY <1>1, <2>4, <2>5, <2>6, <2>9, <2>10
<1>4. CASE HandOver(c)
  <2>1. /\ wpc[c] = "hand" /\ wpc' = [wpc EXCEPT ![c] = "return"]
        /\ received' \in {received, Append(received, cur[c])}
        /\ UNCHANGED <<cur, listed, on, sockState, sockLife, dropper, sending, strayed,
                      held, owner, server, stopper>>
    BY <1>4 DEF HandOver, ConnAt, Received, Goto, sockVars, serverVars
  <2>2. cur[c] \in Sockets /\ sockLife[cur[c]] = "alive"
    BY <2>1 DEF ConnTypes, WorkersOK, AliveOK, Holding
  <2>3. received' \in Seq(Requests \union Sockets) /\ Kept' \subseteq Kept \union {cur[c]}
    <3>1. PICK s \in Sockets : s = cur[c]
      BY <2>2
    <3>2. received' \in Seq(Requests \union Sockets) /\ Kept' \subseteq Kept \union {s}
      BY <2>1, <3>1, QueueGrows
    <3> QED BY <3>1, <3>2
  <2>4. ConnTypes' /\ SockTypes' /\ UserTypes' /\ ServerTypes'
    BY <2>1, <2>3 DEF ConnTypes, SockTypes, UserTypes, ServerTypes, Holding
  <2>5. WorkersOK' /\ AliveOK' /\ (~Reuses => SocketsOK')
    BY <2>1, <2>2, <2>3 DEF ConnTypes, WorkersOK, AliveOK, SocketsOK, Holding
  <2> QED BY <1>1, <2>4, <2>5
<1>5. CASE Data(c)
  <2>1. /\ wpc[c] = "open" /\ wpc' = [wpc EXCEPT ![c] = "data"]
        /\ c \in listed /\ sockLife[cur[c]] = "alive"
        /\ UNCHANGED <<cur, listed, on, sockState, sockLife, dropper, sending, strayed,
                      received, held, owner, server, stopper>>
    BY <1>5 DEF Data, ConnAt, Goto, sockVars, userVars, serverVars
  <2>2. cur[c] # NoSocket /\ Kept' = Kept
    BY <2>1 DEF ConnTypes, Kept
  <2>3. ConnTypes' /\ SockTypes' /\ UserTypes' /\ ServerTypes'
    BY <2>1 DEF ConnTypes, SockTypes, UserTypes, ServerTypes, Holding
  <2>4. WorkersOK' /\ AliveOK' /\ (~Reuses => SocketsOK')
    BY <2>1, <2>2 DEF ConnTypes, WorkersOK, AliveOK, SocketsOK, Holding
  <2> QED BY <1>1, <2>3, <2>4
<1>6. CASE HandleClose(c)
  <2>1. /\ wpc[c] = "open" /\ listed' = listed \ {c}
        /\ UNCHANGED <<on, sockState, sockLife, dropper, sending, strayed,
                      received, held, owner, server, stopper>>
        /\ \/ /\ c \in listed /\ sockLife[cur[c]] = "alive" /\ cur' = cur
              /\ wpc' = [wpc EXCEPT ![c] = "force"]
           \/ /\ ~(c \in listed /\ sockLife[cur[c]] = "alive")
              /\ wpc' = [wpc EXCEPT ![c] = "free"]
              /\ cur' = [cur EXCEPT ![c] = NoSocket]
    BY <1>6 DEF HandleClose, ConnAt, Goto, sockVars, userVars, serverVars
  <2>2. c \in listed => cur[c] \in Sockets
    BY DEF ConnTypes
  <2>3. ConnTypes' /\ SockTypes' /\ UserTypes' /\ ServerTypes' /\ Kept' = Kept
    BY <2>1 DEF ConnTypes, SockTypes, UserTypes, ServerTypes, Holding, Kept
  <2>4. \A d \in Conns \ {c} : wpc'[d] = wpc[d] /\ cur'[d] = cur[d]
                               /\ (d \in listed' <=> d \in listed)
    BY <2>1 DEF ConnTypes
  <2>5. WorkersOK' /\ AliveOK'
    <3>1. /\ c \notin listed'
          /\ wpc'[c] \in {"force", "free"}
          /\ wpc'[c] = "force" => cur'[c] = cur[c] /\ cur[c] # NoSocket
                                  /\ sockLife[cur[c]] = "alive"
          /\ wpc'[c] = "free" => cur'[c] = NoSocket
      BY <1>0, <2>1, <2>2 DEF ConnTypes
    <3>2. WorkersOK'
      BY <2>1, <2>4, <3>1 DEF WorkersOK, Holding
    <3>3. AliveOK'
      BY <2>1, <2>3, <2>4, <3>1 DEF AliveOK, Holding
    <3> QED BY <3>2, <3>3
  <2>6. ASSUME ~Reuses PROVE SocketsOK'
    <3>1. SUFFICES ASSUME NEW u \in Sockets, sockLife[u] = "alive", sockState[u] = "open"
                   PROVE  cur'[on[u]] = u /\ (on[u] \in listed' \/ wpc'[on[u]] = "force")
      BY <2>1, <2>6 DEF SocketsOK
    <3>2. /\ on[u] \in Conns /\ cur[on[u]] = u
          /\ on[u] \in listed \/ wpc[on[u]] = "force"
      BY <2>6, <3>1 DEF SocketsOK
    <3>3. CASE on[u] = c
      <4>1. c \in listed /\ cur[c] = u
        BY <2>1, <3>2, <3>3
      <4>2. cur' = cur /\ wpc' = [wpc EXCEPT ![c] = "force"]
        BY <2>1, <3>1, <4>1
      <4> QED BY <3>3, <4>1, <4>2 DEF ConnTypes
    <3>4. CASE on[u] # c
      BY <2>4, <3>2, <3>4
    <3> QED BY <3>3, <3>4
  <2> QED BY <1>1, <2>3, <2>5, <2>6
<1>7. CASE Return(c)
  <2>1. /\ wpc[c] \in {"return", "data"} /\ wpc' = [wpc EXCEPT ![c] = "open"]
        /\ UNCHANGED <<cur, listed, on, sockState, sending, strayed,
                      received, held, owner, server, stopper>>
        /\ DropSocket(cur[c], c)
    BY <1>7 DEF Return, ConnAt, Goto, userVars, serverVars
  <2>2. cur[c] \in Sockets /\ Kept' = Kept
    BY <2>1 DEF ConnTypes, WorkersOK, Holding, Kept
  <2>3. \A d \in Conns : wpc'[d] \in Holding => wpc[d] = wpc'[d] /\ d # c
    BY <2>1 DEF ConnTypes, Holding
  <2>4. /\ sockLife' \in [Sockets -> {"none", "alive", "dying", "closing", "dead"}]
        /\ dropper' \in [Sockets -> Anyone]
        /\ \A u \in Sockets : u \in Kept' => sockLife'[u] = "alive"
        /\ \A d \in Conns : wpc'[d] \in Holding /\ cur'[d] \in Sockets =>
               sockLife'[cur'[d]] = "alive"
        /\ \A u \in Sockets : sockLife'[u] = "alive" => sockLife[u] = "alive"
    <3>1. \A u \in Sockets : u \in Kept' => sockLife[u] = "alive"
      BY <2>2 DEF AliveOK
    <3>2. \A d \in Conns : wpc'[d] \in Holding => sockLife[cur'[d]] = "alive"
      BY <2>1, <2>3 DEF AliveOK
    <3> QED BY <1>0, <2>1, <2>2, <3>1, <3>2, Dropping
  <2>5. ConnTypes' /\ SockTypes' /\ UserTypes' /\ ServerTypes' /\ WorkersOK'
    BY <2>1, <2>4 DEF ConnTypes, SockTypes, UserTypes, ServerTypes, WorkersOK, Holding
  <2>6. AliveOK'
    BY <2>1, <2>3, <2>4 DEF AliveOK, ConnTypes, WorkersOK
  <2>7. ASSUME ~Reuses PROVE SocketsOK'
    <3>1. \A d \in Conns : wpc[d] = "force" => wpc'[d] = "force"
      BY <2>1 DEF ConnTypes
    <3> QED BY <2>1, <2>4, <2>7, <3>1 DEF SocketsOK
  <2> QED BY <1>1, <2>5, <2>6, <2>7
<1>8. CASE ForceClose(c)
  <2>1. /\ wpc[c] = "force" /\ cur[c] \notin sending
        /\ wpc' = [wpc EXCEPT ![c] = "free"] /\ cur' = [cur EXCEPT ![c] = NoSocket]
        /\ sockState' = [sockState EXCEPT ![cur[c]] = "closed"]
        /\ UNCHANGED <<listed, on, sending, strayed, received, held, owner, server,
                      stopper>>
        /\ DropSocket(cur[c], c)
    BY <1>8 DEF ForceClose, Unlocked, ConnAt, Goto, userVars, serverVars
  <2>2. cur[c] \in Sockets /\ Kept' = Kept /\ c \notin listed
    BY <2>1 DEF ConnTypes, WorkersOK, Holding, Kept
  <2>3. \A d \in Conns \ {c} : wpc[d] = wpc'[d] /\ cur'[d] = cur[d]
    BY <2>1 DEF ConnTypes
  <2>4. wpc'[c] = "free" /\ cur'[c] = NoSocket
    BY <2>1 DEF ConnTypes
  <2>5. /\ sockLife' \in [Sockets -> {"none", "alive", "dying", "closing", "dead"}]
        /\ dropper' \in [Sockets -> Anyone]
        /\ \A u \in Sockets : u \in Kept' => sockLife'[u] = "alive"
        /\ \A d \in Conns : wpc'[d] \in Holding /\ cur'[d] \in Sockets =>
               sockLife'[cur'[d]] = "alive"
        /\ \A u \in Sockets : sockLife'[u] = "alive" => sockLife[u] = "alive"
    <3>1. \A u \in Sockets : u \in Kept' => sockLife[u] = "alive"
      BY <2>2 DEF AliveOK
    <3>2. \A d \in Conns : wpc'[d] \in Holding => sockLife[cur'[d]] = "alive"
      BY <2>3, <2>4 DEF AliveOK, Holding
    <3> QED BY <1>0, <2>1, <2>2, <3>1, <3>2, Dropping
  <2>6. ConnTypes'
    BY <2>1, <2>2 DEF ConnTypes
  <2>7. SockTypes' /\ UserTypes' /\ ServerTypes'
    BY <2>1, <2>2, <2>5 DEF SockTypes, UserTypes, ServerTypes
  <2>8. WorkersOK'
    BY <2>1, <2>2, <2>3, <2>4 DEF WorkersOK, Holding
  <2>9. AliveOK'
    <3>1. \A d \in Conns : wpc'[d] \in Holding => cur'[d] \in Sockets
      BY <2>6, <2>8 DEF ConnTypes, WorkersOK
    <3>2. \A s \in sending : sockState'[s] = "open"
      BY <2>1 DEF AliveOK, SockTypes, UserTypes
    <3> QED BY <2>1, <2>5, <3>1, <3>2 DEF AliveOK
  <2>10. ASSUME ~Reuses PROVE SocketsOK'
    <3>1. \A u \in Sockets : sockLife'[u] = "alive" /\ sockState'[u] = "open" =>
              sockLife[u] = "alive" /\ sockState[u] = "open" /\ u # cur[c]
      BY <2>1, <2>2, <2>5 DEF SockTypes
    <3>2. \A u \in Sockets : on[u] \in Conns /\ cur[on[u]] = u /\ u # cur[c] => on[u] # c
      OBVIOUS
    <3> QED BY <2>1, <2>3, <2>10, <3>1, <3>2 DEF SocketsOK
  <2> QED BY <1>1, <2>6, <2>7, <2>8, <2>9, <2>10
<1> QED BY <1>2, <1>3, <1>4, <1>5, <1>6, <1>7, <1>8 DEF ConnStep


\* The sockets: their writers and their destructors.
LEMMA SocketSteps ==
  ASSUME ServerInv, NEW s \in Sockets,
         SendFrame(s) \/ SocketStep(s)
  PROVE  ServerInv'
<1> USE DEF ServerInv, Types
<1>1. /\ UNCHANGED <<work, pending, response, replied, replies, wpc, cur, on,
                    sockState, dropper, received, held, owner>>
      /\ Kept' = Kept
  BY DEF SendFrame, SocketStep, FrameSent, DestructorReads, CloseWebSocket,
     reqVars, workerVars, userVars, Kept
<1>2. ReqTypes' /\ AnswersOK'
  BY <1>1 DEF ReqTypes, AnswersOK
<1>3. CASE SendFrame(s) \/ FrameSent(s)
  <2>1. /\ UNCHANGED <<listed, sockLife, strayed, server, stopper>>
        /\ \/ /\ sending' = sending \union {s}
              /\ s \in held /\ sockState[s] = "open"
           \/ sending' = sending \ {s}
    BY <1>3 DEF SendFrame, FrameSent, workerVars, serverVars
  <2>2. ConnTypes' /\ SockTypes' /\ ServerTypes' /\ WorkersOK'
    BY <1>1, <2>1 DEF ConnTypes, SockTypes, ServerTypes, WorkersOK
  <2>3. UserTypes'
    BY <1>1, <2>1 DEF UserTypes
  <2>4. AliveOK'
    BY <1>1, <2>1 DEF AliveOK
  <2>5. ~Reuses => SocketsOK'
    BY <1>1, <2>1 DEF SocketsOK
  <2> QED BY <1>2, <2>2, <2>3, <2>4, <2>5
<1>4. ASSUME DestructorReads(s) \/ CloseWebSocket(s)
      PROVE  ServerInv'
  <2>1. /\ sockLife[s] # "alive" /\ sending' = sending
        /\ \E l \in {"dead", "closing"} : sockLife' = [sockLife EXCEPT ![s] = l]
        /\ \/ listed' = listed /\ strayed' = strayed
           \/ /\ listed' = listed \ {on[s]}
              /\ strayed' = (strayed \/ (on[s] \in listed /\ cur[on[s]] # s))
        /\ DropServer(dropper[s])
    BY <1>4 DEF DestructorReads, CloseWebSocket, workerVars
  <2>2. /\ \A u \in Sockets \ {s} : sockLife'[u] = sockLife[u]
        /\ sockLife'[s] # "alive"
        /\ sockLife' \in [Sockets -> {"none", "alive", "dying", "closing", "dead"}]
    BY <2>1 DEF SockTypes
  <2>3. ServerTypes'
    <3>1. PICK t \in Anyone : t = dropper[s]
      BY DEF SockTypes
    <3> QED BY <2>1, <3>1, ServerDropped
  <2>4. strayed' \in BOOLEAN
    BY <2>1 DEF SockTypes
  <2>5. ConnTypes' /\ SockTypes' /\ UserTypes'
    BY <1>1, <2>1, <2>2, <2>4 DEF ConnTypes, SockTypes, UserTypes
  <2>6. WorkersOK'
    BY <1>1, <2>1 DEF WorkersOK
  <2>7. AliveOK'
    <3>1. s \notin Kept /\ \A c \in Conns : wpc[c] \in Holding => cur[c] # s
      BY <2>1 DEF AliveOK
    <3>2. \A c \in Conns : wpc[c] \in Holding => cur[c] \in Sockets
      BY DEF WorkersOK, ConnTypes
    <3> QED BY <1>1, <2>1, <2>2, <3>1, <3>2 DEF AliveOK
  <2>8. ASSUME ~Reuses PROVE SocketsOK'
    <3>1. \A u \in Sockets : sockLife[u] = "alive" /\ sockState[u] = "open" =>
              on[u] \in Conns /\ on[u] # NoSocket
      BY <2>8, ServerConstants DEF SocketsOK
    <3>2. \A u \in Sockets \ {s} : on[u] # NoSocket => on[u] # on[s]
      BY <2>8 DEF SocketsOK
    <3>3. \A u \in Sockets : sockLife'[u] = "alive" => u # s /\ sockLife[u] = "alive"
      BY <2>2
    <3>4. \A c \in Conns : c \in listed /\ c # on[s] => c \in listed'
      BY <2>1
    <3> QED BY <1>1, <2>8, <3>1, <3>2, <3>3, <3>4 DEF SocketsOK
  <2> QED BY <1>2, <2>3, <2>5, <2>6, <2>7, <2>8
<1> QED BY <1>3, <1>4 DEF SocketStep

\* A thread drops one reference, to a request or to a socket.
LEMMA DropStep ==
  ASSUME ServerInv, NEW x \in Kept, NEW t \in Anyone,
         Kept' \subseteq Kept, Drop(x, t), sending \subseteq held',
         UNCHANGED <<work, pending, replies, wpc, cur, listed, on, sockState, sending,
                     strayed>>
  PROVE  /\ ReqTypes' /\ ConnTypes' /\ SockTypes'
         /\ WorkersOK' /\ AliveOK' /\ AnswersOK' /\ (~Reuses => SocketsOK')
<1> USE DEF ServerInv, Types
<1>1. ConnTypes' /\ WorkersOK'
  BY DEF ConnTypes, WorkersOK
<1>2. \A u \in Sockets : u \in Kept' => sockLife[u] = "alive"
  BY DEF AliveOK
<1>3. \A c \in Conns : wpc'[c] \in Holding => cur'[c] \in Sockets
  BY DEF ConnTypes, WorkersOK
<1>4. CASE /\ x \in Requests /\ DropRequest(x) /\ UNCHANGED <<sockLife, dropper>>
  <2>1. SockTypes' /\ AliveOK' /\ (~Reuses => SocketsOK')
    BY <1>2, <1>4 DEF SockTypes, AliveOK, SocketsOK
  <2>2. PICK r \in Requests : r = x
    BY <1>4
  <2>3. /\ response' \in [Requests -> {"none", "answer", "500", "503"}]
        /\ replied' \in [Requests -> BOOLEAN]
        /\ \A q \in Requests : response[q] # "none" => response'[q] = response[q]
        /\ \A q \in Requests \ {r} : response'[q] = response[q]
    BY <1>4, <2>2, AnswerStep
  <2>4. ReqTypes'
    BY <2>3 DEF ReqTypes
  <2>5. response[r] = "none" => work[r] \notin {"idle", "done"} /\ replies[r] = "none"
    BY <2>2 DEF AnswersOK
  <2>6. AnswersOK'
    BY <2>3, <2>5 DEF ReqTypes, AnswersOK
  <2> QED BY <1>1, <2>1, <2>4, <2>6
<1>5. CASE /\ x \in Sockets /\ DropSocket(x, t) /\ UNCHANGED <<replied, response>>
  <2>1. ReqTypes' /\ AnswersOK'
    BY <1>5 DEF ReqTypes, AnswersOK
  <2>2. \A c \in Conns : wpc'[c] \in Holding => sockLife[cur'[c]] = "alive"
    BY DEF AliveOK
  <2>3. PICK s \in Sockets : s = x
    BY <1>5
  <2>4. /\ sockLife' \in [Sockets -> {"none", "alive", "dying", "closing", "dead"}]
        /\ dropper' \in [Sockets -> Anyone]
        /\ \A u \in Sockets : u \in Kept' => sockLife'[u] = "alive"
        /\ \A c \in Conns : wpc'[c] \in Holding /\ cur'[c] \in Sockets =>
               sockLife'[cur'[c]] = "alive"
        /\ \A u \in Sockets : sockLife'[u] = "alive" => sockLife[u] = "alive"
    <3>1. SockTypes /\ DropSocket(s, t)
      BY <1>5, <2>3
    <3> HIDE DEF ServerInv, Types
    <3> QED BY <1>2, <2>2, <3>1, Dropping
  <2>5. SockTypes'
    BY <2>4 DEF SockTypes
  <2>6. AliveOK'
    BY <1>3, <2>4 DEF AliveOK
  <2>7. ~Reuses => SocketsOK'
    BY <2>4 DEF SocketsOK
  <2> QED BY <1>1, <2>1, <2>5, <2>6, <2>7
<1> QED BY <1>4, <1>5 DEF Drop

\* The WebServerImpl and the module.
LEMMA UserSteps ==
  ASSUME ServerInv,
         \/ SetHandlers \/ RequestRecieved \/ ReleaseServer \/ ReleaseQueue
         \/ \E x \in Requests \union Sockets : Release(x)
  PROVE  ServerInv'
<1> USE DEF ServerInv, Types
<1>0. received \in Seq(Requests \union Sockets)
  BY DEF UserTypes
<1>1. CASE SetHandlers \/ ReleaseServer
  <2>1. /\ UNCHANGED <<work, pending, response, replied, replies, wpc, cur, listed, on,
                      sockState, sockLife, dropper, sending, strayed, received, held>>
        /\ owner' \in {"up", "released"}
    BY <1>1 DEF SetHandlers, ReleaseServer, reqVars, workerVars, sockVars
  <2>2. ServerTypes'
    <3>1. CASE SetHandlers
      BY <3>1 DEF SetHandlers, serverVars, ServerTypes
    <3>2. CASE ReleaseServer
      BY <3>2, ServerConstants, ServerDropped DEF ReleaseServer
    <3> QED BY <1>1, <3>1, <3>2
  <2>3. ReqTypes' /\ AnswersOK' /\ Kept' = Kept
    BY <2>1 DEF ReqTypes, AnswersOK, Kept
  <2>4. ConnTypes' /\ SockTypes' /\ UserTypes'
    BY <2>1 DEF ConnTypes, SockTypes, UserTypes
  <2>5. WorkersOK' /\ AliveOK' /\ (~Reuses => SocketsOK')
    BY <2>1, <2>3 DEF WorkersOK, AliveOK, SocketsOK
  <2> QED BY <2>2, <2>3, <2>4, <2>5
<1>2. CASE RequestRecieved
  <2>1. /\ received # <<>> /\ received' = Tail(received)
        /\ held' = held \union {Head(received)}
        /\ UNCHANGED <<work, pending, response, replied, replies, wpc, cur, listed, on,
                      sockState, sockLife, dropper, sending, strayed, owner, server,
                      stopper>>
    BY <1>2 DEF RequestRecieved, reqVars, workerVars, sockVars, serverVars
  <2>2. /\ Head(received) \in Requests \union Sockets
        /\ received' \in Seq(Requests \union Sockets)
        /\ ToSet(received) = {Head(received)} \union ToSet(received')
    <3>1. PICK q \in Seq(Requests \union Sockets) : q = received
      BY <1>0
    <3>2. q # <<>> => /\ Head(q) \in Requests \union Sockets
                      /\ Tail(q) \in Seq(Requests \union Sockets)
                      /\ ToSet(q) = {Head(q)} \union ToSet(Tail(q))
      BY QueueElements
    <3>3. PICK p \in Seq(Requests \union Sockets) :
              p = Tail(received) /\ ToSet(received) = {Head(received)} \union ToSet(p)
      BY <2>1, <3>1, <3>2
    <3> QED BY <2>1, <3>1, <3>2, <3>3
  <2>3. Kept' = Kept
    BY <2>1, <2>2 DEF Kept
  <2>4. ReqTypes' /\ AnswersOK'
    BY <2>1, <2>3 DEF ReqTypes, AnswersOK
  <2>5. ConnTypes' /\ SockTypes' /\ ServerTypes'
    BY <2>1 DEF ConnTypes, SockTypes, ServerTypes
  <2>6. UserTypes'
    BY <2>1, <2>2 DEF UserTypes
  <2>7. WorkersOK' /\ AliveOK' /\ (~Reuses => SocketsOK')
    BY <2>1, <2>3 DEF WorkersOK, AliveOK, SocketsOK
  <2> QED BY <2>4, <2>5, <2>6, <2>7
<1>3. CASE \E x \in Requests \union Sockets : Release(x)
  <2>1. PICK x \in Requests \union Sockets : Release(x)
    BY <1>3
  <2>2. /\ x \in held /\ x \notin sending /\ held' = held \ {x} /\ Drop(x, User)
        /\ UNCHANGED <<work, pending, replies, wpc, cur, listed, on, sockState, sending,
                      strayed, received, owner, server, stopper>>
    BY <2>1 DEF Release, workerVars, serverVars
  <2>3. x \in Kept /\ Kept' \subseteq Kept /\ sending \subseteq held'
    BY <2>2 DEF Kept, UserTypes
  <2>4. UserTypes' /\ ServerTypes'
    BY <2>2 DEF UserTypes, ServerTypes
  <2>5. /\ ReqTypes' /\ ConnTypes' /\ SockTypes'
        /\ WorkersOK' /\ AliveOK' /\ AnswersOK' /\ (~Reuses => SocketsOK')
    <3> HIDE DEF ServerInv, Types
    <3> QED BY <2>2, <2>3, ServerConstants, DropStep
  <2> QED BY <2>4, <2>5
<1>4. CASE ReleaseQueue
  <2>1. UNCHANGED <<work, pending, replies, wpc, cur, listed, on, sockState, sending,
                    strayed, held, server, stopper>>
    BY <1>4 DEF ReleaseQueue, workerVars, serverVars
  <2>2. ServerTypes'
    BY <2>1 DEF ServerTypes
  <2>3. CASE received = <<>>
    <3>1. /\ owner' = "gone"
          /\ UNCHANGED <<received, replied, response, sockLife, dropper>>
      BY <1>4, <2>3 DEF ReleaseQueue
    <3>2. ReqTypes' /\ AnswersOK' /\ Kept' = Kept
      BY <2>1, <3>1 DEF ReqTypes, AnswersOK, Kept
    <3>3. ConnTypes' /\ SockTypes' /\ UserTypes'
      BY <2>1, <3>1 DEF ConnTypes, SockTypes, UserTypes
    <3>4. WorkersOK' /\ AliveOK' /\ (~Reuses => SocketsOK')
      BY <2>1, <3>1, <3>2 DEF WorkersOK, AliveOK, SocketsOK
    <3> QED BY <2>2, <3>2, <3>3, <3>4
  <2>4. CASE received # <<>>
    <3>1. PICK q \in Seq(Requests \union Sockets) : q = received
      BY <1>0
    <3>2. /\ Head(q) \in Requests \union Sockets
          /\ Tail(q) \in Seq(Requests \union Sockets)
          /\ ToSet(q) = {Head(q)} \union ToSet(Tail(q))
      BY <2>4, <3>1, QueueElements
    <3>3. /\ received' = Tail(received) /\ owner' = owner
          /\ Drop(Head(received), Owner)
      BY <1>4, <2>4 DEF ReleaseQueue
    <3>4. PICK p \in Seq(Requests \union Sockets) :
              p = Tail(received) /\ ToSet(received) = {Head(received)} \union ToSet(p)
      BY <3>1, <3>2
    <3>5. PICK x \in Requests \union Sockets : x = Head(received)
      BY <3>1, <3>2
    <3>6. ToSet(received') = ToSet(p)
      BY <3>3, <3>4
    <3>7. x \in Kept /\ Kept' \subseteq Kept
      BY <2>1, <3>4, <3>5, <3>6 DEF Kept
    <3>8. UserTypes'
      BY <2>1, <3>3, <3>4 DEF UserTypes
    <3>9. /\ ReqTypes' /\ ConnTypes' /\ SockTypes'
          /\ WorkersOK' /\ AliveOK' /\ AnswersOK' /\ (~Reuses => SocketsOK')
      <4>1. sending \subseteq held' /\ Drop(x, Owner)
        BY <2>1, <3>3, <3>5 DEF UserTypes
      <4> HIDE DEF ServerInv, Types
      <4> QED BY <2>1, <3>7, <4>1, ServerConstants, DropStep
    <3> QED BY <2>2, <3>8, <3>9
  <2> QED BY <2>3, <2>4
<1> QED BY <1>1, <1>2, <1>3, <1>4

\* The destructor of the HttpServer.
LEMMA StopSteps ==
  ASSUME ServerInv, ServerStep
  PROVE  ServerInv'
<1> USE DEF ServerInv, Types
<1>1. /\ UNCHANGED <<work, pending, replied, replies, wpc, cur, listed, on, sockState,
                    sockLife, dropper, sending, strayed, received, held, owner, stopper>>
      /\ server' \in {"stopping", "gone"}
      /\ \/ response' = response
         \/ response' = [r \in Requests |->
                            IF r \in pending /\ response[r] = "none"
                            THEN "503" ELSE response[r]]
  BY DEF ServerStep, Drain, Stopped, reqVars, workerVars, sockVars, userVars
<1>2. ConnTypes' /\ SockTypes' /\ UserTypes' /\ ServerTypes' /\ Kept' = Kept
  BY <1>1 DEF ConnTypes, SockTypes, UserTypes, ServerTypes, Kept
<1>3. WorkersOK' /\ AliveOK' /\ (~Reuses => SocketsOK')
  BY <1>1, <1>2 DEF WorkersOK, AliveOK, SocketsOK
<1>4. /\ response' \in [Requests -> {"none", "answer", "500", "503"}]
      /\ \A r \in Requests : response[r] # "none" => response'[r] = response[r]
      /\ \A r \in Requests : response'[r] # response[r] =>
             response[r] = "none" /\ work[r] \in {"call", "return", "wait"}
  BY <1>1 DEF ReqTypes
<1>5. ReqTypes'
  BY <1>1, <1>4 DEF ReqTypes
<1>6. AnswersOK'
  <2>1. \A r \in Requests : response[r] = "none" /\ work[r] # "done" => replies[r] = "none"
    BY DEF AnswersOK
  <2> QED BY <1>1, <1>2, <1>4, <2>1 DEF AnswersOK
<1> QED BY <1>2, <1>3, <1>5, <1>6

LEMMA ServerBegins == ServerInit => ServerInv
<1> SUFFICES ASSUME ServerInit PROVE ServerInv
  OBVIOUS
<1> USE DEF ServerInit
<1>1. ReqTypes /\ ConnTypes
  BY DEF ReqTypes, ConnTypes, Holding
<1>2. SockTypes /\ ServerTypes
  BY ServerConstants DEF SockTypes, ServerTypes, Anyone
<1>3. received = <<>> /\ ToSet(received) = {} /\ Kept = {}
  BY DEF ToSet, Kept
<1>4. UserTypes
  BY <1>3 DEF UserTypes
<1>5. WorkersOK /\ AliveOK /\ AnswersOK /\ SocketsOK
  BY <1>3, ServerConstants DEF WorkersOK, AliveOK, AnswersOK, SocketsOK, Holding
<1> QED BY <1>1, <1>2, <1>4, <1>5 DEF ServerInv, Types

LEMMA ServerSteps ==
  ASSUME ServerInv, [ServerNext]_(httpVars)
  PROVE  ServerInv'
<1>1. CASE \E r \in Requests : Arrive(r) \/ RequestStep(r) \/ SendResponse(r)
  BY <1>1, RequestSteps
<1>2. CASE \/ \E c \in Conns : ConnStep(c) \/ Data(c) \/ HandleClose(c)
           \/ \E c \in Conns, s \in Sockets : HandleWebSocketConnect(c, s)
  BY <1>2, ConnectionSteps
<1>3. CASE \E s \in Sockets : SendFrame(s) \/ SocketStep(s)
  BY <1>3, SocketSteps
<1>4. CASE \/ \E x \in Requests \union Sockets : Release(x)
           \/ SetHandlers \/ RequestRecieved \/ ReleaseServer \/ ReleaseQueue
  BY <1>4, UserSteps
<1>5. CASE ServerStep
  BY <1>5, StopSteps
<1>6. CASE UNCHANGED httpVars
  <2>1. UNCHANGED <<work, pending, response, replied, replies, wpc, cur, listed, on,
                    sockState, sockLife, dropper, sending, strayed, received, held,
                    owner, server, stopper>>
    BY <1>6 DEF httpVars, reqVars, workerVars, sockVars, userVars, serverVars
  <2>2. Types' /\ Kept' = Kept
    BY <2>1 DEF ServerInv, Types, ReqTypes, ConnTypes, SockTypes, UserTypes,
       ServerTypes, Kept
  <2> QED BY <2>1, <2>2 DEF ServerInv, WorkersOK, AliveOK, AnswersOK, SocketsOK
<1> QED BY <1>1, <1>2, <1>3, <1>4, <1>5, <1>6 DEF ServerNext

\* The server keeps its requests, its sockets and its workers consistent:
\* whoever is referred to lives, and whoever is written to is open.
THEOREM ServerInvariant == ServerSpec => []ServerInv
<1>1. ServerInit => ServerInv
  BY ServerBegins
<1>2. ServerInv /\ [ServerNext]_(httpVars) => ServerInv'
  BY ServerSteps
<1> QED BY <1>1, <1>2, PTL DEF ServerSpec

\* A frame is written to the connection that its socket was made for, and a
\* socket that says it is open has its connection, as long as no address of a
\* connection is used again.
THEOREM OpenSockets ==
  ASSUME ~Reuses
  PROVE  ServerSpec => []OpenSocketsHaveConnections
<1>1. ServerInv => OpenSocketsHaveConnections
  <2> SUFFICES ASSUME ServerInv PROVE OpenSocketsHaveConnections
    OBVIOUS
  <2> USE DEF ServerInv, Types
  <2>1. ToSet(received) \subseteq Requests \union Sockets
    <3>1. PICK q \in Seq(Requests \union Sockets) : q = received
      BY DEF UserTypes
    <3>2. ToSet(q) \subseteq Requests \union Sockets
      BY QueueElements
    <3> QED BY <3>1, <3>2
  <2>2. ServerTypeOK
    <3>1. wpc \in [Conns -> {"free", "ready", "hand", "return", "open", "data", "force"}]
      BY DEF ConnTypes, Holding
    <3>2. /\ dropper \in [Sockets -> Conns \union {NoSocket, Owner, User}]
          /\ stopper \in Conns \union {NoSocket, Owner, User}
      BY DEF SockTypes, ServerTypes, Anyone
    <3> QED BY <2>1, <3>1, <3>2
            DEF ServerTypeOK, ReqTypes, ConnTypes, SockTypes, UserTypes, ServerTypes
  <2>3. \A s \in Sockets : s \in sending => sockLife[s] = "alive" /\ sockState[s] = "open"
    BY DEF AliveOK, UserTypes, Kept
  <2>4. \A s \in Sockets :
            s \in sending \/ (sockLife[s] = "alive" /\ sockState[s] = "open")
               => cur[on[s]] = s
    BY <2>3 DEF SocketsOK
  <2> QED BY <2>2, <2>4 DEF OpenSocketsHaveConnections
<1> QED BY <1>1, ServerInvariant, PTL

\* The first answer to a request stays, and it is what the client gets.
THEOREM FirstAnswer == ServerSpec => FirstAnswerIsFinal
<1> DEFINE Final == \A r \in Requests :
                       response[r] # "none" =>
                          /\ response'[r] = response[r]
                          /\ replies'[r] \in {"none", response[r]}
<1>1. ASSUME ServerInv, ServerInv', [ServerNext]_(httpVars)
      PROVE  [Final]_(httpVars)
  <2>1. SUFFICES ASSUME NEW r \in Requests, response[r] # "none", ServerNext
                 PROVE  response'[r] = response[r]
    BY <1>1 DEF ServerInv, AnswersOK
  <2>2. ReqTypes
    BY <1>1 DEF ServerInv, Types
  <2>3. ASSUME NEW q \in Requests, DropRequest(q) PROVE response'[r] = response[r]
    BY <2>1, <2>2, <2>3, AnswerStep
  <2>4. CASE \E q \in Requests : Arrive(q) \/ RequestStep(q) \/ SendResponse(q)
    <3>1. PICK q \in Requests : Arrive(q) \/ RequestStep(q) \/ SendResponse(q)
      BY <2>4
    <3>2. CASE HandlerReturns(q)
      BY <2>3, <3>2 DEF HandlerReturns
    <3>3. CASE SendResponse(q)
      BY <2>1, <2>2, <3>3 DEF SendResponse, Answers, ReqTypes
    <3>4. CASE Arrive(q) \/ CallHandler(q) \/ Reply(q)
      BY <3>4 DEF Arrive, CallHandler, Reply
    <3> QED BY <3>1, <3>2, <3>3, <3>4 DEF RequestStep
  <2>5. CASE \/ \E c \in Conns : ConnStep(c) \/ Data(c) \/ HandleClose(c)
             \/ \E c \in Conns, s \in Sockets : HandleWebSocketConnect(c, s)
             \/ \E s \in Sockets : SendFrame(s) \/ SocketStep(s)
             \/ SetHandlers \/ RequestRecieved \/ ReleaseServer
    BY <2>5 DEF ConnStep, Ready, HandOver, Return, ForceClose, Data,
       HandleClose, HandleWebSocketConnect, SendFrame, SocketStep, FrameSent,
       DestructorReads, CloseWebSocket, SetHandlers, RequestRecieved,
       ReleaseServer, reqVars
  <2>6. CASE \E x \in Requests \union Sockets : Release(x)
    <3>1. PICK x \in Requests \union Sockets : Release(x)
      BY <2>6
    <3> QED BY <2>3, <3>1 DEF Release, Drop
  <2>7. CASE ReleaseQueue
    <3>1. response' = response \/ Drop(Head(received), Owner)
      BY <2>7 DEF ReleaseQueue
    <3> QED BY <2>3, <3>1 DEF Drop
  <2>8. CASE ServerStep
    BY <2>1, <2>8 DEF ServerStep, Drain, Stopped, reqVars
  <2> QED BY <2>1, <2>4, <2>5, <2>6, <2>7, <2>8 DEF ServerNext
<1>2. ServerSpec => []ServerInv
  BY ServerInvariant
<1>3. ServerSpec => [][Final]_(httpVars)
  BY <1>1, <1>2, PTL DEF ServerSpec
<1> QED BY <1>3 DEF FirstAnswerIsFinal
=============================================================================
