-------------------------- MODULE StatisticsManager --------------------------
(***************************************************************************)
(* StatisticsManager of core.impl/MGDFStatisticsManagerImpl.cpp and the    *)
(* network manager it posts to, between a game's thread that pushes        *)
(* statistics and then destroys the host, and the flush thread.  Host's    *)
(* destructor stops the network before the statistics manager, one of its  *)
(* members, is destroyed.                                                  *)
(*                                                                         *)
(* Statistics are numbered in the order they are pushed.  The network is   *)
(* reduced to what it does with a request that is handed to it (module     *)
(* HttpClient): it posts it, or it keeps it unsent once it is stopped.     *)
(***************************************************************************)
EXTENDS Naturals, Sequences, SequencesExt

CONSTANTS
    MaxStats,   \* bound: how many statistics are pushed
    Threshold   \* SEND_THRESHOLD

VARIABLES
    enabled,    \* _enabled
    run,        \* _run
    events,     \* _events
    pushed,     \* how many statistics have been pushed
    owner,      \* _mutex: held by the flush "worker", or "free"
    pc,         \* the flush thread: "none" before it is made, "lock", "head"
                \* of the loop, "check" of the predicate, "block" before it
                \* really sleeps, "asleep", "send", "exited"
    tmp,        \* the local vector of the flush thread
    network,    \* the network manager runs
    queued,     \* handed to the stopped network manager
    posted,     \* posted by the running network manager
    host        \* "up", "stopped" in its destructor, "joining" in the
                \* statistics manager's destructor, "gone"

netVars == <<network, queued, posted>>
workVars == <<owner, pc, tmp>>
vars == <<enabled, run, events, pushed, workVars, netVars, host>>

Init ==
    /\ enabled = FALSE /\ run = TRUE
    /\ events = <<>> /\ pushed = 0
    /\ owner = "free" /\ pc = "none" /\ tmp = <<>>
    /\ network = TRUE /\ queued = <<>> /\ posted = <<>>
    /\ host = "up"

-----------------------------------------------------------------------------
\* CoCreateGuid has succeeded; if it fails statistics stay disabled.
SetRemoteEndpoint ==
    /\ host = "up"
    /\ ~enabled
    /\ enabled' = TRUE
    /\ run' = TRUE
    /\ pc' = "lock"
    /\ UNCHANGED <<events, pushed, owner, tmp, netVars, host>>

\* notify_one: a thread that sleeps takes _mutex again and looks at its
\* predicate; one that has not gone to sleep yet hears nothing.
Notify ==
    IF pc = "asleep"
    THEN owner' = "worker" /\ pc' = "check" /\ UNCHANGED tmp
    ELSE UNCHANGED workVars

\* PushString and PushMetric.
Push ==
    /\ host = "up"
    /\ enabled
    /\ owner = "free"
    /\ pushed < MaxStats
    /\ pushed' = pushed + 1
    /\ events' = Append(events, pushed + 1)
    /\ IF Len(events') >= Threshold THEN Notify ELSE UNCHANGED workVars
    /\ UNCHANGED <<enabled, run, netVars, host>>

\* Host::~Host stops the network.
HostStopsNetwork ==
    /\ host = "up"
    /\ host' = "stopped"
    /\ network' = FALSE
    /\ UNCHANGED <<enabled, run, events, pushed, workVars, queued, posted>>

\* Mutant of Stopping: the flag is left set.
NotStopping == run

Stopping == FALSE

\* The destructor clears _run without the lock; the notify comes after it.
DestructorStarts ==
    /\ host = "stopped"
    /\ run' = Stopping
    /\ host' = "notifying"
    /\ UNCHANGED <<enabled, events, pushed, workVars, netVars>>

DestructorNotifies ==
    /\ host = "notifying"
    /\ Notify
    /\ host' = "joining"
    /\ UNCHANGED <<enabled, run, events, pushed, netVars>>

DestructorJoins ==
    /\ host = "joining"
    /\ pc \in {"none", "exited"}
    /\ host' = "gone"
    /\ UNCHANGED <<enabled, run, events, pushed, workVars, netVars>>

-----------------------------------------------------------------------------
(* The flush thread.                                                       *)

WorkerLocks ==
    /\ pc = "lock"
    /\ owner = "free"
    /\ owner' = "worker"
    /\ pc' = "head"
    /\ UNCHANGED <<enabled, run, events, pushed, tmp, netVars, host>>

WorkerLoops ==
    /\ pc = "head"
    /\ IF run THEN pc' = "check" /\ UNCHANGED owner
              ELSE pc' = "exited" /\ owner' = "free"
    /\ UNCHANGED <<enabled, run, events, pushed, tmp, netVars, host>>

Take ==
    /\ tmp' = events
    /\ events' = <<>>
    /\ pc' = "send"
    /\ owner' = "free"

\* The predicate of the wait; between a false one and the sleep the destructor
\* may clear _run and notify nobody, as it does not hold _mutex.
WorkerChecks ==
    /\ pc = "check"
    /\ IF ~run \/ events # <<>>
       THEN Take
       ELSE pc' = "block" /\ UNCHANGED <<owner, events, tmp>>
    /\ UNCHANGED <<enabled, run, pushed, netVars, host>>

WorkerSleeps ==
    /\ pc = "block"
    /\ pc' = "asleep"
    /\ owner' = "free"
    /\ UNCHANGED <<enabled, run, events, pushed, tmp, netVars, host>>

TimedOut == TRUE

\* STAT_FLUSH_TIMEOUT passes.
WorkerTimesOut ==
    /\ pc = "asleep"
    /\ TimedOut
    /\ Take
    /\ UNCHANGED <<enabled, run, pushed, netVars, host>>

\* One request for all of tmp, unless it is empty; the network may be stopped.
WorkerSends ==
    /\ pc = "send"
    /\ tmp' = <<>>
    /\ IF network
       THEN posted' = posted \o tmp /\ UNCHANGED queued
       ELSE queued' = queued \o tmp /\ UNCHANGED posted
    /\ pc' = "lock"
    /\ UNCHANGED <<enabled, run, events, pushed, owner, network, host>>

DestructorGoesOn == DestructorStarts \/ DestructorNotifies \/ DestructorJoins

Worker ==
    \/ WorkerLocks \/ WorkerLoops \/ WorkerChecks \/ WorkerSleeps
    \/ WorkerTimesOut \/ WorkerSends

Next ==
    \/ SetRemoteEndpoint \/ Push
    \/ HostStopsNetwork \/ DestructorGoesOn
    \/ Worker

-----------------------------------------------------------------------------
\* The type invariant of the statistics manager; the flush thread holds _mutex
\* wherever the code says so.
TypeOK ==
    /\ {enabled, run, network} \subseteq BOOLEAN
    /\ {events, tmp, queued, posted} \subseteq Seq(1..MaxStats)
    /\ pushed \in 0..MaxStats
    /\ owner \in {"free", "worker"}
    /\ pc \in {"none", "lock", "head", "check", "block", "asleep", "send", "exited"}
    /\ host \in {"up", "stopped", "notifying", "joining", "gone"}
    /\ owner = "worker" <=> pc \in {"head", "check", "block"}

\* A statistic that was pushed is in one place always and before all that were
\* pushed later, whichever threads moved it: posted, left with a network that
\* has stopped, taken by the flush thread, or still in the vector.
StatisticsKeepTheirOrder ==
    posted \o queued \o tmp \o events = [i \in 1..pushed |-> i]

\* A statistic of a host that stays up is posted in the end, whether or not
\* the threshold is ever reached.
StatisticsArePosted ==
    \A i \in 1..MaxStats :
        pushed >= i ~> i \in ToSet(posted) \/ host # "up"

\* The destructor returns, although it clears _run without _mutex and its
\* notify may come just before the flush thread goes to sleep.
DestructorReturns == host = "stopped" ~> host = "gone"

-----------------------------------------------------------------------------
(* What a comment of the source says and the code does not do.             *)

\* "force whatever is in the events buffer to be flushed & stop the flush
\* thread running after its finished this last flush".
FlushedAtDestruction == host = "gone" => events = <<>>
=============================================================================
