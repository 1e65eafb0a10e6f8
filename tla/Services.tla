------------------------------ MODULE Services ------------------------------
(***************************************************************************)
(* The parts of the process that do their work on threads of their own     *)
(* beside the loops: the log, the statistics, the keyboard and mouse, the  *)
(* gamepads, and the files that any thread uses.  They share no state, so  *)
(* that a behaviour of the process is one of each, in any order: here one  *)
(* of them moves, whichever is chosen at the start, and the others rest.   *)
(***************************************************************************)
EXTENDS RawInput, Gamepads

CONSTANTS Files, Streams, Paths, MaxRefs, MaxEntries, BufferSize, MaxStats, Threshold

ASSUME ServicesAssumption ==
    /\ {MaxEntries, MaxStats} \subseteq Nat
    /\ {BufferSize, Threshold} \subseteq Nat \ {0}
    /\ Keys \subseteq 1 .. 255
    /\ ListSize \in Nat /\ ListSize > 2
    /\ IsFiniteSet(Pads) /\ NoPad \notin Pads
    /\ IsFiniteSet(Streams) /\ MaxRefs \in Nat \ {0}
    /\ "null" \notin Files \cup Streams

VARIABLES
    service, \* which of the five moves
    disk, object, users, stream,
    logEvents, logged, logRun, logPc, batch, syncing, sync, file, logLife,
    enabled, run, events, pushed, owner, pc, tmp, network, queued, posted, host

logVars == <<logEvents, logged, logRun, logPc, batch, syncing, sync, file, logLife>>
statVars == <<enabled, run, events, pushed, owner, pc, tmp, network, queued, posted, host>>
fileVars == <<disk, object, users, stream>>
vars == <<service, logVars, statVars, inputVars, padVars, fileVars>>

L == INSTANCE Logger
     WITH events <- logEvents, run <- logRun, pc <- logPc, life <- logLife

S == INSTANCE StatisticsManager

F == INSTANCE WriteableFiles WITH file <- object

Init ==
    /\ service \in {"log", "statistics", "input", "pads", "files"}
    /\ L!Init /\ S!Init /\ InputInit /\ PadsInit /\ F!FilesInit

Next ==
    \/ /\ service = "log" /\ L!Next
       /\ UNCHANGED <<service, statVars, inputVars, padVars, fileVars>>
    \/ /\ service = "statistics" /\ S!Next
       /\ UNCHANGED <<service, logVars, inputVars, padVars, fileVars>>
    \/ /\ service = "input" /\ InputNext
       /\ UNCHANGED <<service, logVars, statVars, padVars, fileVars>>
    \/ /\ service = "pads" /\ PadsNext
       /\ UNCHANGED <<service, logVars, statVars, inputVars, fileVars>>
    \/ /\ service = "files" /\ F!FilesNext
       /\ UNCHANGED <<service, logVars, statVars, inputVars, padVars>>

\* Threads that can run are run, time passes, updates go on while the game
\* does, and a destructor that has begun goes on.
Fairness ==
    /\ WF_logVars(service = "log" /\ L!Worker)
    /\ WF_logVars(service = "log" /\ L!FlushSyncWrites)
    /\ WF_logVars(service = "log" /\ L!DestructorJoins)
    /\ WF_statVars(service = "statistics" /\ S!Worker)
    /\ WF_statVars(service = "statistics" /\ S!DestructorGoesOn)
    /\ WF_padVars(service = "pads" /\ Sim)
    /\ WF_padVars(service = "pads" /\ Check)
    /\ WF_padVars(service = "pads" /\ DestructorJoins)

Spec == Init /\ [][Next]_vars /\ Fairness

-----------------------------------------------------------------------------
(* What the log, the statistics, the gamepads and the files promise.       *)

\* An entry of the log reaches the file without anybody asking for it, and is
\* neither lost nor written twice by the two threads that may flush it; the
\* destructor returns, whatever the flush thread was doing.
EntriesAreWrittenOnce ==
    /\ [](L!TypeOK /\ L!EveryEntryIsInOnePlace)
    /\ L!EntriesReachTheFile
    /\ L!DestructorReturns

\* A statistic is posted without anybody asking for it, none is lost, doubled
\* or overtaken, and the destructor returns although its notification can be
\* missed.
StatisticsArePosted ==
    /\ [](S!TypeOK /\ S!StatisticsKeepTheirOrder)
    /\ S!StatisticsArePosted /\ S!DestructorReturns

\* A file object outlives the readers and writers it has opened.
FilesOutliveStreams == F!FilesOutliveStreams

\* Each gamepad is in one of the two sets always and in the right one in the
\* end, and the thread that looks for them ends when it is told to.
PadsAreNoticed ==
    /\ []PadsAreInOneSet
    /\ service = "pads" => (\A p \in Pads : PadIsNoticed(p)) /\ CheckThreadEnds
=============================================================================
