---------------------------- MODULE SoundManager -----------------------------
(***************************************************************************)
(* The sounds of the OpenAL audio component: OpenALSoundManagerComponent-  *)
(* Impl, OpenALSound and the pool of audio sources in OpenALSoundSystem.   *)
(* There are fewer sources than sounds: a sound without one is inactive.   *)
(* Creating a sound may deactivate another, and every Update deactivates   *)
(* and reactivates sounds by their precedence.                             *)
(*                                                                         *)
(* Everything runs on the simulation thread, so an operation is one        *)
(* action; OpenAL plays on its own.  Streams, of module VorbisStream, hold *)
(* sources like the sounds do, and are never culled.  Position, pitch and  *)
(* gain are left out; the attenuated volume, which the sort reads, is a    *)
(* value the game sets.                                                    *)
(***************************************************************************)
EXTENDS Integers, FiniteSets, SequencesExt, VorbisStream

CONSTANTS
    Sounds,       \* the sounds the game creates
    Priority,     \* the priority of each
    Loops,        \* the looping sounds
    FileOf,       \* the file each is loaded from
    Voices,       \* the streams the game opens
    Volumes,      \* the attenuated volumes a sound can have
    NumSources,   \* the sources the device has given
    SizeT,        \* 2^64, or any number above that of the sounds
    AttachFails,  \* alSourcei(AL_BUFFER) may report an error
    OpenFails,    \* the file of a stream may fail to open or be no stream
    MaxLibrary    \* bound: the references to the Vorbis library

ASSUME SoundAssumption ==
    /\ IsFiniteSet(Sounds) /\ IsFiniteSet(Voices)
    /\ Priority \in [Sounds -> Int]
    /\ Loops \subseteq Sounds
    /\ NumSources \in Nat \ {0}
    /\ SizeT > Cardinality(Sounds) + NumSources
    /\ {AttachFails, OpenFails} \subseteq BOOLEAN
    /\ MaxLibrary \in Nat

Sources == 1..NumSources
SoundFiles == {FileOf[s] : s \in Sounds}
NoSource == 0       \* the _sourceId of a sound that has never had one
IntMax == 2147483647

VARIABLES
    created,    \* the sounds in _sounds
    volume,     \* the attenuated volume of each
    mix,        \* the part of the state deactivation and reactivation change:
                \*   active, source, start (_startPlaying), was (_wasPlaying)
                \*   of each sound, free (the stack _freeSources) and al (the
                \*   state of each OpenAL source)
    streams,    \* the streams, _soundStreams those that aren't NoStream
    library,    \* VorbisStream::_references, and whether the library is loaded
    refs,       \* the reference counts of _sharedBuffers
    wish        \* history: the last Play, Stop or Pause the sound accepted

streamVars == <<streams, library>>
soundVars == <<created, volume, mix, streamVars, refs, wish>>

SoundsInit ==
    /\ created = {}
    /\ volume = [s \in Sounds |-> 1]
    /\ mix = [active |-> [s \in Sounds |-> FALSE],
              source |-> [s \in Sounds |-> NoSource],
              start  |-> [s \in Sounds |-> FALSE],
              was    |-> [s \in Sounds |-> FALSE],
              free   |-> [i \in Sources |-> i],
              al     |-> [i \in Sources |-> "silent"]]
    /\ streams = [t \in Voices |-> NoStream]
    /\ library = [refs |-> 0, loaded |-> FALSE]
    /\ refs = [f \in SoundFiles |-> 0]
    /\ wish = [s \in Sounds |-> "stop"]

-----------------------------------------------------------------------------
(* OpenALSound.                                                            *)

\* OpenALSoundSystem::ReleaseSource.
Freed(m, i) == [m EXCEPT !.free = <<i>> \o @, !.al[i] = "silent"]

IsPlaying(m, s) == m.start[s] \/ m.al[m.source[s]] = "playing"

\* Mutant of Resumes: only what has really started is remembered.
ResumesStarted(m, s) == s \in Loops /\ m.al[m.source[s]] = "playing"

\* What Deactivate puts into _wasPlaying.
Resumes(m, s) == s \in Loops /\ IsPlaying(m, s)

Deactivated(m, s) ==
    IF ~m.active[s] THEN m
    ELSE Freed([m EXCEPT !.was[s] = Resumes(m, s), !.start[s] = FALSE,
                            !.active[s] = FALSE], m.source[s])

\* Mutant of Taken: the source stays in the pool.
TakenButFree(m) == m.free

Taken(m) == Tail(m.free)

\* Reactivate.  When the buffer can't be attached, the Deactivate it calls
\* finds the sound inactive and does nothing.
Reactivated(m, s, fails) ==
    IF m.free = <<>> THEN m
    ELSE [m EXCEPT !.source[s] = Head(m.free), !.free = Taken(m),
                   !.active[s] = ~fails,
                   !.start[s] = ~fails /\ s \in Loops /\ m.was[s]]

\* The sounds for which Reactivate fails in one operation: one at the most.
Failing == {{}} \union (IF AttachFails THEN {{s} : s \in created} ELSE {})

\* Sort.
Less(a, b) ==
    \/ Priority[a] < Priority[b]
    \/ volume[a] < volume[b]
    \/ a \notin Loops /\ b \in Loops

\* a has to come before b; when Less holds both ways std::sort may do either.
Before(a, b) == Less(a, b) /\ ~Less(b, a)

-----------------------------------------------------------------------------
(* OpenALSoundManagerComponentImpl.                                        *)

\* Mutant of Candidates: the filter by priority is dropped.
AllCandidates(p) == created

Candidates(p) == {s \in created : Priority[s] <= p}

\* DeactivateSound: the first of the sorted candidates, active or not.
MixAfterCulling(p) ==
    LET C == Candidates(p)
    IN IF mix.free # <<>> \/ C = {} THEN {mix}
       ELSE {Deactivated(mix, s) :
                 s \in {c \in C : \A o \in C : ~Before(o, c)}}

\* CreateSoundBuffer.
Shared(f) == [refs EXCEPT ![f] = @ + 1]

CreateSound(s) ==
    /\ s \notin created
    /\ \E m \in MixAfterCulling(Priority[s]), fails \in {FALSE, AttachFails} :
           \/ /\ mix' = Reactivated([m EXCEPT !.source[s] = NoSource,
                                              !.was[s] = FALSE], s, fails)
              /\ created' = created \union {s}
              /\ refs' = Shared(FileOf[s])
              /\ wish' = [wish EXCEPT ![s] = "stop"]
           \/ \* the file can't be loaded; a sound may have been culled for it
              mix' = m /\ UNCHANGED <<created, refs, wish>>
    /\ UNCHANGED <<volume, streamVars>>

\* The last reference is released.
DestroySound(s) ==
    /\ s \in created
    /\ created' = created \ {s}
    /\ mix' = Deactivated(mix, s)
    /\ refs' = [refs EXCEPT ![FileOf[s]] = @ - 1]
    /\ UNCHANGED <<volume, streamVars, wish>>

\* CreateSoundStream.  It fails when no source could be freed.  When the file
\* can't be opened, InitStream and the destructor each release the library.
CreateSoundStream(t) ==
    /\ streams[t] = NoStream
    /\ \E m \in MixAfterCulling(IntMax) :
           \/ /\ m.free # <<>>
              /\ mix' = [m EXCEPT !.free = Taken(m)]
              /\ streams' = [streams EXCEPT ![t] = Initialized(Head(m.free))]
              /\ library' = Loaded(library)
           \/ /\ m.free # <<>> /\ OpenFails
              /\ mix' = m
              /\ library' = Unloaded(Unloaded(Loaded(library)))
              /\ UNCHANGED streams
           \/ m.free = <<>> /\ mix' = m /\ UNCHANGED streamVars
    /\ library'.refs \in -MaxLibrary .. MaxLibrary
    /\ UNCHANGED <<created, volume, refs, wish>>

\* The last reference is released.
DestroySoundStream(t) ==
    /\ streams[t] # NoStream
    /\ mix' = IF streams[t].ready THEN Freed(mix, streams[t].source) ELSE mix
    /\ streams' = [streams EXCEPT ![t] = NoStream]
    /\ library' = Unloaded(library)
    /\ UNCHANGED <<created, volume, refs, wish>>

\* Play of a stream that has stopped: UninitStream gives the source back and
\* InitStream takes one, and the library once more, before it plays.
ReplayStream(t) ==
    /\ streams[t].state = "stop" /\ library.refs < MaxLibrary
    /\ LET s == streams[t]
           m == IF s.ready THEN Freed(mix, s.source) ELSE mix
       IN \/ /\ m.free # <<>>
             /\ LET i == Head(m.free)
                IN /\ mix' = [m EXCEPT !.free = Taken(m), !.al[i] = "playing"]
                   /\ streams' = [streams EXCEPT ![t] =
                                    [Initialized(i) EXCEPT !.state = "play"]]
             /\ library' = Loaded(library)
          \/ /\ OpenFails \/ m.free = <<>>
             /\ mix' = m
             /\ streams' = [streams EXCEPT ![t] = Failed(s)]
             /\ UNCHANGED library
    /\ UNCHANGED <<created, volume, refs, wish>>

\* VorbisStream::Play otherwise.
PlayStream(t) ==
    /\ streams[t].state \in {"not_started", "pause"}
    /\ mix' = [mix EXCEPT !.al[streams[t].source] = "playing"]
    /\ streams' = [streams EXCEPT ![t] =
                     [Replayed(@, mix.al[@.source]) EXCEPT !.state = "play"]]
    /\ UNCHANGED <<created, volume, library, refs, wish>>

\* VorbisStream::Pause.
PauseStream(t) ==
    /\ streams[t].state = "play"
    /\ mix' = [mix EXCEPT !.al[streams[t].source] =
                              IF @ = "playing" THEN "paused" ELSE @]
    /\ streams' = [streams EXCEPT ![t].state = "pause"]
    /\ UNCHANGED <<created, volume, library, refs, wish>>

\* VorbisStream::Stop.
StopStream(t) ==
    /\ streams[t].state \in {"not_started", "play", "pause"}
    /\ mix' = [mix EXCEPT !.al[streams[t].source] = "silent"]
    /\ streams' = [streams EXCEPT ![t] = Halted(@)]
    /\ UNCHANGED <<created, volume, library, refs, wish>>

\* OpenAL has played a buffer; with the last one the source falls silent.
Plays(t) ==
    LET s == streams[t] IN
    /\ s.ready /\ s.done < Len(s.queue) /\ mix.al[s.source] = "playing"
    /\ streams' = [streams EXCEPT ![t].done = @ + 1]
    /\ mix' = IF s.done + 1 < Len(s.queue) THEN mix
              ELSE [mix EXCEPT !.al[s.source] = "silent"]
    /\ UNCHANGED <<created, volume, library, refs, wish>>

\* Play only notes that the next Update is to start the sound.
Play(s) ==
    /\ s \in created /\ mix.active[s]
    /\ mix' = [mix EXCEPT !.start[s] = TRUE]
    /\ wish' = [wish EXCEPT ![s] = "play"]
    /\ UNCHANGED <<created, volume, streamVars, refs>>

Silence(s, state, command) ==
    /\ s \in created
    /\ LET i == mix.source[s]
           m == [mix EXCEPT !.was[s] = FALSE]
       IN mix' = IF mix.active[s] /\ mix.al[i] = "playing"
                 THEN [m EXCEPT !.al[i] = state] ELSE m
    /\ wish' = [wish EXCEPT ![s] = command]
    /\ UNCHANGED <<created, volume, streamVars, refs>>

Stop(s) == Silence(s, "silent", "stop")
Pause(s) == Silence(s, "paused", "pause")

\* A sound that does not loop comes to its end.
Ends(s) ==
    /\ s \in created \ Loops
    /\ mix.active[s] /\ mix.al[mix.source[s]] = "playing"
    /\ mix' = [mix EXCEPT !.al[mix.source[s]] = "silent"]
    /\ UNCHANGED <<created, volume, streamVars, refs, wish>>

SetVolume(s, v) ==
    /\ s \in created
    /\ volume' = [volume EXCEPT ![s] = v]
    /\ UNCHANGED <<created, mix, streamVars, refs, wish>>

\* OpenALSound::Update of every sound.
Started(m) ==
    LET due == {s \in created : m.active[s] /\ m.start[s]}
    IN [m EXCEPT
          !.start = [s \in Sounds |-> m.start[s] /\ s \notin due],
          !.al = [i \in Sources |->
                    IF \E s \in due : m.source[s] = i THEN "playing" ELSE m.al[i]]]

\* requiringDeactivationCount at the i-th turn of the loop, a size_t that is
\* decremented at every turn; its test is "> 0".
Requiring(m, i) ==
    (Cardinality({s \in created : ~m.active[s]}) - Len(m.free) - (i - 1)) % SizeT

\* The loop of PrioritizeSounds over one order of the sounds: what it has made
\* of m after i turns.
Prioritized(m, order, failing) ==
    LET after[i \in 0 .. Len(order)] ==
          IF i = 0 THEN m
          ELSE LET s == order[i]
               IN IF Requiring(m, i) > 0 THEN Deactivated(after[i - 1], s)
                  ELSE IF after[i - 1].active[s] THEN after[i - 1]
                  ELSE Reactivated(after[i - 1], s, s \in failing)
    IN after[Len(order)]

Orders == {o \in SetToSeqs(created) :
             \A i, j \in DOMAIN o : i < j => ~Before(o[j], o[i])}

\* VorbisStream::Update of every stream: the sources it starts.
StreamsStarted(m) ==
    LET due == {t \in Voices : Updates(streams[t])
                    /\ Restarts(Refilled(streams[t]), m.al[streams[t].source])}
    IN [m EXCEPT !.al = [i \in Sources |->
            IF \E t \in due : streams[t].source = i THEN "playing" ELSE m.al[i]]]

Update ==
    /\ UNCHANGED <<created, volume, library, refs, wish>>
    /\ streams' = [t \in Voices |->
                      IF Updates(streams[t])
                      THEN Updated(streams[t], mix.al[streams[t].source])
                      ELSE streams[t]]
    /\ LET m == Started(mix)
       IN IF \A s \in created : m.active[s] THEN mix' = StreamsStarted(m)
          ELSE \E order \in Orders, failing \in Failing :
                   mix' = StreamsStarted(Prioritized(m, order, failing))

SoundsNext ==
    \/ \E s \in Sounds :
          \/ CreateSound(s) \/ DestroySound(s) \/ Play(s) \/ Stop(s)
          \/ Pause(s) \/ Ends(s)
          \/ \E v \in Volumes : SetVolume(s, v)
    \/ \E t \in Voices :
          \/ CreateSoundStream(t) \/ DestroySoundStream(t) \/ ReplayStream(t)
          \/ PlayStream(t) \/ PauseStream(t) \/ StopStream(t) \/ Plays(t)
    \/ Update

\* The simulation thread updates the sounds in every step; OpenAL plays.
SoundsSpec == SoundsInit /\ [][SoundsNext]_soundVars /\ WF_soundVars(Update)
                /\ \A t \in Voices : WF_soundVars(Plays(t))

-----------------------------------------------------------------------------
\* The type invariant of the sound manager.
TypeOK ==
    /\ created \subseteq Sounds
    /\ volume \in [Sounds -> Volumes \union {1}]
    /\ mix.active \in [Sounds -> BOOLEAN]
    /\ mix.source \in [Sounds -> Sources \union {NoSource}]
    /\ mix.start \in [Sounds -> BOOLEAN] /\ mix.was \in [Sounds -> BOOLEAN]
    /\ mix.free \in Seq(Sources)
    /\ mix.al \in [Sources -> {"silent", "playing", "paused"}]
    /\ \A t \in Voices :
          /\ streams[t].state \in {"none", "not_started", "play", "pause", "stop"}
          /\ streams[t].source \in Sources \union {NoSource}
          /\ streams[t].decoded \in 0 .. Chunks
    /\ library.refs \in -MaxLibrary .. MaxLibrary
    /\ refs = [f \in SoundFiles |-> Cardinality({s \in created : FileOf[s] = f})]
    /\ wish \in [Sounds -> {"play", "stop", "pause"}]

\* No audio source has two users, and none in the pool has any or is heard,
\* through any sequence of culling, reactivation, failure and destruction.
SourceHasOneHolder ==
    LET users(i) == {s \in created : mix.active[s] /\ mix.source[s] = i}
                      \union {t \in Voices : streams[t].ready /\ streams[t].source = i}
        places(i) == {k \in DOMAIN mix.free : mix.free[k] = i}
    IN /\ TypeOK
       /\ \A i \in Sources :
          /\ Cardinality(users(i)) + Cardinality(places(i)) <= 1
          /\ places(i) # {} => mix.al[i] # "playing"

\* A looping sound the game has started and not stopped is heard whenever it
\* has a source, or will be from the next Update on; while it is culled, it is
\* remembered that it is to be resumed.
LoopingSoundsSurviveCulling ==
    \A s \in created \cap Loops : wish[s] = "play" =>
        IF mix.active[s] THEN IsPlaying(mix, s) ELSE mix.was[s]

\* Creating a sound takes no source away from a sound of higher priority
\* ("the priority of the sound (used to determine what should play if no free
\* audio sources are available").
CreationSparesHigherPriority ==
    [][\A s \in Sounds : CreateSound(s) =>
          \A o \in created : mix.active[o] /\ ~mix.active'[o]
                                => Priority[o] <= Priority[s]]_soundVars

\* The buffers on a source hold consecutive pieces of the file, of which the
\* last is the last one decoded: none is lost or played twice by Update.
StreamsKeepTheirOrder ==
    \A t \in Voices : LET s == streams[t] IN
        s.ready => /\ s.done <= Len(s.queue) /\ Len(s.queue) <= BufferCount
                   /\ \A k \in DOMAIN s.queue :
                         s.queue[k] = s.decoded - Len(s.queue) + k

\* The library stays while any stream decodes with it.
LibraryOutlivesStreams == (\E t \in Voices : streams[t].ready) => library.loaded

\* What plays comes to its end, also when the source ran dry between two
\* updates, if nothing pauses or stops it before.
PlayedStreamsEnd ==
    \A t \in Voices : streams[t].state = "play" ~> streams[t].state # "play"

\* A stream that plays gives out all of its file, in order.
StreamsPlayToTheEnd == []StreamsKeepTheirOrder /\ PlayedStreamsEnd

-----------------------------------------------------------------------------
(* What comments of the source say and the code does not do.               *)

\* "ensure as many samples are active as possible, with the highest precedence
\* samples being activated first": after an Update a sound is inactive only
\* for want of a source.
AsManyActiveAsPossible ==
    [][Update => mix'.free = <<>> \/ \A s \in created : mix'.active[s]]_soundVars

\* "stop the playing of the current playlist if it was playing or paused": what
\* plays is what the game has asked to play.
StoppedSoundsStaySilent ==
    \A s \in created : mix.active[s] /\ mix.al[mix.source[s]] = "playing"
        => wish[s] = "play"

\* "determines if the stream is playing": what a stream is heard playing, the
\* game has asked it to play and IsPlaying says so.
StreamsPlayWhenAsked ==
    \A t \in Voices : streams[t].ready /\ mix.al[streams[t].source] = "playing"
        => streams[t].state = "play"

\* "sort sounds into the lowest->highest priority".
SortsByPriority ==
    \A a, b \in created : Less(a, b) => Priority[a] <= Priority[b]
=============================================================================
