---------------------------- MODULE VorbisStream -----------------------------
(***************************************************************************)
(* A stream of VorbisStream.cpp as a value: what it has decoded, queued on *)
(* its audio source and played.  Module SoundManager holds the streams and *)
(* the sources, which the streams share with the sounds.                   *)
(*                                                                         *)
(* The file of a stream fills Chunks buffers; the format, the gain and the *)
(* reader's callbacks are left out.                                        *)
(***************************************************************************)
EXTENDS Naturals, Sequences, FiniteSetsExt

CONSTANTS
    BufferCount, \* VORBIS_BUFFER_COUNT
    Chunks       \* the buffers that the file of a stream fills

ASSUME VorbisAssumption == BufferCount \in Nat \ {0} /\ Chunks \in Nat \ {0}

NoStream == [state |-> "none", ready |-> FALSE, source |-> 0, decoded |-> 0,
             queue |-> <<>>, done |-> 0]

\* InitStream with source i: the first buffers are decoded and queued.
Initialized(i) ==
    LET n == Min({BufferCount, Chunks})
    IN [state |-> "not_started", ready |-> TRUE, source |-> i, decoded |-> n,
        queue |-> [k \in 1 .. n |-> k], done |-> 0]

\* InitStream when it fails: _source keeps its value.
Failed(s) == [NoStream EXCEPT !.state = "not_started", !.source = s.source]

\* The loop of Update: each buffer that has been played is decoded into again
\* and queued, if there is anything left to decode.
Refilled(s) ==
    LET n == Min({s.done, Chunks - s.decoded})
    IN [s EXCEPT !.queue = SubSeq(@, s.done + 1, Len(@))
                             \o [k \in 1 .. n |-> s.decoded + k],
                 !.decoded = @ + n, !.done = 0]

\* Mutant of Restarts: a source that ran dry is left alone.
RestartsNever(s, al) == FALSE

\* Whether Update starts the source: it isn't playing and has something to.
Restarts(s, al) == al # "playing" /\ s.queue # <<>>

\* Whether Update looks at the stream: also when Play was never called.
Updates(s) == s.state \in {"not_started", "play"}

\* Update, with the state al of the source.
Updated(s, al) ==
    LET filled == Refilled(s)
    IN IF al # "playing" /\ filled.queue = <<>> THEN [filled EXCEPT !.state = "stop"]
       ELSE filled

\* alSourcePlay starts from the head of the queue, unless the source is paused.
Replayed(s, al) == IF al = "paused" THEN s ELSE [s EXCEPT !.done = 0]

\* alSourceStop marks every buffer as played.
Halted(s) == [s EXCEPT !.state = "stop", !.done = Len(s.queue)]

-----------------------------------------------------------------------------
(* The library, counted in _references.                                    *)

\* InitVorbis.
Loaded(library) == [refs |-> library.refs + 1, loaded |-> TRUE]

\* UninitVorbis.
Unloaded(library) ==
    [refs |-> library.refs - 1, loaded |-> library.loaded /\ library.refs # 1]
=============================================================================
