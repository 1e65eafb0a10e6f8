------------------------------- MODULE Logger -------------------------------
(***************************************************************************)
(* The log of core/common/MGDFLoggerImpl.cpp: callers append entries to    *)
(* _events under _mutex; the flush thread waits for entries or a timeout,  *)
(* takes them all and writes them to the file; FlushSync does the same on  *)
(* a caller's thread when the process is about to die; the destructor      *)
(* clears _runLogger and joins the flush thread.                           *)
(*                                                                         *)
(* Entries are numbered in the order of the Log calls that the log level   *)
(* lets through.  An entry is written in one step; a batch in several.     *)
(***************************************************************************)
EXTENDS Naturals, Sequences, SequencesExt

CONSTANTS
    MaxEntries, \* bound: how many entries are logged
    BufferSize  \* LOG_BUFFER_SIZE

VARIABLES
    events,     \* _events
    logged,     \* how many entries have been logged
    run,        \* _runLogger
    pc,         \* the flush thread: "head" of its loop, "check" of the wait's
                \* predicate under _mutex, "asleep", "write", "exited"
    batch,      \* what the flush thread has taken and not written yet
    syncing,    \* a caller is in FlushSync
    sync,       \* what it has taken and not written yet
    file,       \* the log file
    life        \* of the Logger: "alive", "joining" or "gone"

vars == <<events, logged, run, pc, batch, syncing, sync, file, life>>

Init ==
    /\ events = <<>> /\ logged = 0
    /\ run = TRUE /\ pc = "head" /\ batch = <<>>
    /\ syncing = FALSE /\ sync = <<>>
    /\ file = <<>> /\ life = "alive"

-----------------------------------------------------------------------------
\* notify_one: the flush thread, when it sleeps, looks at its predicate again.
Notify == pc' = IF pc = "asleep" THEN "check" ELSE pc

\* Log: the flush thread is told only when the buffer is full.
Log ==
    /\ life = "alive"
    /\ logged < MaxEntries
    /\ logged' = logged + 1
    /\ events' = Append(events, logged + 1)
    /\ IF Len(events') >= BufferSize THEN Notify ELSE UNCHANGED pc
    /\ UNCHANGED <<run, batch, syncing, sync, file, life>>

Flush ==
    /\ life = "alive"
    /\ Notify
    /\ UNCHANGED <<events, logged, run, batch, syncing, sync, file, life>>

Left == <<>>

\* FlushSync takes the entries under _mutex and writes them after the unlock.
FlushSyncTakes ==
    /\ life = "alive"
    /\ ~syncing
    /\ syncing' = TRUE
    /\ sync' = events
    /\ events' = Left
    /\ UNCHANGED <<logged, run, pc, batch, file, life>>

FlushSyncWrites ==
    /\ syncing
    /\ IF sync = <<>>
       THEN syncing' = FALSE /\ UNCHANGED <<sync, file>>
       ELSE /\ file' = Append(file, Head(sync))
            /\ sync' = Tail(sync)
            /\ UNCHANGED syncing
    /\ UNCHANGED <<events, logged, run, pc, batch, life>>

\* The destructor, which runs at the exit of the process: _runLogger is
\* cleared under _mutex, then the flush thread is notified and joined.
DestructorStarts ==
    /\ life = "alive" /\ ~syncing
    /\ life' = "joining"
    /\ run' = FALSE
    /\ Notify
    /\ UNCHANGED <<events, logged, batch, syncing, sync, file>>

DestructorJoins ==
    /\ life = "joining"
    /\ pc = "exited"
    /\ life' = "gone"
    /\ UNCHANGED <<events, logged, run, pc, batch, syncing, sync, file>>

-----------------------------------------------------------------------------
(* The flush thread.                                                       *)

\* The loop's condition, read without the lock.
WorkerLoops ==
    /\ pc = "head"
    /\ pc' = IF run THEN "check" ELSE "exited"
    /\ UNCHANGED <<events, logged, run, batch, syncing, sync, file, life>>

Take ==
    /\ batch' = events
    /\ events' = Left
    /\ pc' = "write"

\* The predicate of the wait, under _mutex.
WorkerChecks ==
    /\ pc = "check"
    /\ IF ~run \/ events # <<>>
       THEN Take
       ELSE pc' = "asleep" /\ UNCHANGED <<events, batch>>
    /\ UNCHANGED <<logged, run, syncing, sync, file, life>>

\* Mutant of TimedOut: the wait has no timeout.
NeverTimedOut == FALSE

TimedOut == TRUE

\* LOG_FLUSH_TIMEOUT passes: the wait returns whatever the predicate says.
WorkerTimesOut ==
    /\ pc = "asleep"
    /\ TimedOut
    /\ Take
    /\ UNCHANGED <<logged, run, syncing, sync, file, life>>

WorkerWrites ==
    /\ pc = "write"
    /\ IF batch = <<>>
       THEN pc' = "head" /\ UNCHANGED <<batch, file>>
       ELSE /\ file' = Append(file, Head(batch))
            /\ batch' = Tail(batch)
            /\ UNCHANGED pc
    /\ UNCHANGED <<events, logged, run, syncing, sync, life>>

Worker == WorkerLoops \/ WorkerChecks \/ WorkerTimesOut \/ WorkerWrites

Next ==
    \/ Log \/ Flush \/ FlushSyncTakes \/ FlushSyncWrites
    \/ DestructorStarts \/ DestructorJoins
    \/ Worker

-----------------------------------------------------------------------------
Entries == 1..MaxEntries

\* The type invariant of the log; what the two flushing threads have taken is
\* only held while they write.
TypeOK ==
    /\ {events, batch, sync, file} \subseteq Seq(Entries)
    /\ logged \in 0..MaxEntries
    /\ {run, syncing} \subseteq BOOLEAN
    /\ pc \in {"head", "check", "asleep", "write", "exited"}
    /\ life \in {"alive", "joining", "gone"}
    /\ batch # <<>> => pc = "write"
    /\ sync # <<>> => syncing

\* Every entry that was logged is in one place exactly: still in the buffer,
\* taken by one of the two threads that flush, or written, and never twice.
EveryEntryIsInOnePlace ==
    LET all == events \o batch \o sync \o file
    IN Len(all) = logged /\ ToSet(all) = 1..logged

\* While the log lives an entry is written in the end, though Log notifies
\* the flush thread only when the buffer is full.
EntriesReachTheFile ==
    \A e \in Entries : logged >= e ~> e \in ToSet(file) \/ life # "alive"

\* The destructor returns, whatever the flush thread was doing.
DestructorReturns == life = "joining" ~> life = "gone"

-----------------------------------------------------------------------------
(* What comments of the source say and the code does not do.               *)

\* "force whatever is in the events buffer to be flushed & stop the flush
\* thread running after its finished this last flush".
FlushedAtDestruction == life = "gone" => events = <<>>

\* "the ordered log": the file lists the entries in the order of the calls.
FileIsOrdered == \A i, j \in DOMAIN file : i < j => file[i] < file[j]
=============================================================================
