----------------------------- MODULE D3D11Timer -----------------------------
(***************************************************************************)
(* The GPU counters of MGDFTimer.cpp under Direct3D 11.  Every frame is    *)
(* bracketed by a disjoint query from a fixed pool; a scope takes a pair   *)
(* of timestamp queries from its counter's stacks and notes them under the *)
(* frame's disjoint query.  Frames later, when the oldest disjoint query   *)
(* has its data, its pairs are read and all of them go back to be used     *)
(* again.  A sample is right if no query was reused too early.             *)
(*                                                                         *)
(* Queries are ended by commands the GPU executes in order.  A command     *)
(* carries the scope that issued it, as the timestamp carries its time.    *)
(***************************************************************************)
EXTENDS Naturals, Sequences, SequencesExt

CONSTANTS
    Counters,   \* the GPU counters a module creates
    BufferSize, \* GPU_TIMER_BUFFER, the pool of disjoint queries
    Late,       \* whether the module keeps a scope longer than its frame
    MaxQueryPairs, \* bound: pairs of queries of a counter
    MaxScopes,  \* bound: scopes, and so the numbers that identify them
    MaxLag,     \* bound: commands the GPU is behind
    MaxResets   \* bound: devices after the first

VARIABLES
    context,   \* _context is set
    resets,    \* how often the device was reset
    supported, \* _gpuTimersSupported
    pool,      \* _disjointQueries
    pend,      \* _pendingQueries, the newest first
    current,   \* _currentQuery, 0 if there is none
    live,      \* _gpuCounters
    ready,     \* GPUPerformanceCounter::_context is set
    disjoint,  \* GPUPerformanceCounter::_currentDisjoint
    free,      \* _beginQueries and _endQueries, always pushed together
    made,      \* pairs a counter has created
    waiting,   \* GPUPerformanceCounter::_pendingQueries
    open,      \* the scopes the module holds
    serial,    \* scopes so far
    gpu,       \* commands not executed yet
    stamp      \* what the last executed End of a query was issued by

poolVars == <<supported, pool, pend, current>>
counterVars == <<live, ready, disjoint, free, made, waiting>>
gpuVars == <<gpu, stamp>>
vars == <<context, resets, poolVars, counterVars, open, serial, gpuVars>>

None == 0
Disjoints == 1 .. BufferSize
PairIds == 1 .. MaxQueryPairs

\* A query is named by who made it: the timer or a counter.
FrameQuery(d) == <<"timer", d, "disjoint">>
Queries == {FrameQuery(d) : d \in Disjoints}
             \union (Counters \X PairIds \X {"begin", "end"})

\* GetData returns S_OK.
HasData(q) == stamp[q] # 0 /\ \A i \in DOMAIN gpu : gpu[i].query # q

Issue(q, by) == gpu' = Append(gpu, [query |-> q, by |-> by])

Init ==
    /\ context = TRUE /\ resets = 0 /\ supported = TRUE
    /\ pool = [d \in Disjoints |-> d] /\ pend = <<>> /\ current = None
    /\ live = {} /\ ready = {}
    /\ disjoint = [c \in Counters |-> None]
    /\ free = [c \in Counters |-> <<>>]
    /\ made = [c \in Counters |-> 0]
    /\ waiting = [c \in Counters |-> [d \in Disjoints |-> <<>>]]
    /\ open = {} /\ serial = 0
    /\ gpu = <<>> /\ stamp = [q \in Queries |-> 0]

-----------------------------------------------------------------------------
(* Counters.                                                               *)

\* Timer::CreateGPUCounter; the counter misses the rest of the frame.
CreateCounter(c) ==
    /\ c \notin live /\ supported /\ context
    /\ live' = live \union {c} /\ ready' = ready \union {c}
    /\ UNCHANGED <<context, resets, poolVars, disjoint, free, made, waiting,
                   open, serial, gpuVars>>

\* GPUPerformanceCounter::Reset of the counters in cs.
ResetCounters(cs) ==
    /\ ready' = ready \ cs
    /\ disjoint' = [c \in Counters |-> IF c \in cs THEN None ELSE disjoint[c]]
    /\ free' = [c \in Counters |-> IF c \in cs THEN <<>> ELSE free[c]]
    /\ made' = [c \in Counters |-> IF c \in cs THEN 0 ELSE made[c]]
    /\ waiting' = [c \in Counters |-> IF c \in cs
                                      THEN [d \in Disjoints |-> <<>>]
                                      ELSE waiting[c]]

\* The last reference to a counter goes; nothing of it is open.
DestroyCounter(c) ==
    /\ c \in live /\ \A o \in open : o.counter # c
    /\ live' = live \ {c}
    /\ ResetCounters({c})
    /\ UNCHANGED <<context, resets, poolVars, open, serial, gpuVars>>

\* GPUPerformanceCounter::DoBegin with the pair p.
Open(c, p) ==
    /\ serial < MaxScopes /\ serial' = serial + 1
    /\ waiting' = [waiting EXCEPT ![c][disjoint[c]] =
                      Append(@, [pair |-> p, serial |-> serial + 1])]
    /\ Issue(<<c, p, "begin">>, serial + 1)
    /\ open' = open \union {[counter |-> c, pair |-> p, serial |-> serial + 1]}

\* A counter measures while it has a context and a disjoint query.  It keeps
\* the query when the frame has ended, until Begin.
Measures(c) == c \in ready /\ disjoint[c] # None /\ (current # None \/ Late)

\* A scope begins in RTDraw, with a used pair or a new one.
BeginScope(c) ==
    /\ Measures(c)
    /\ \/ /\ free[c] # <<>>
          /\ Open(c, Last(free[c]))
          /\ free' = [free EXCEPT ![c] = Front(@)]
          /\ UNCHANGED made
       \/ /\ free[c] = <<>> /\ made[c] < MaxQueryPairs
          /\ Open(c, made[c] + 1)
          /\ made' = [made EXCEPT ![c] = @ + 1]
          /\ UNCHANGED free
    /\ UNCHANGED <<context, resets, poolVars, live, ready, disjoint, stamp>>

\* A pair can't be created: the counter is reset and stays so.
CreateQueryFails(c) ==
    /\ Measures(c) /\ free[c] = <<>>
    /\ ResetCounters({c})
    /\ UNCHANGED <<context, resets, poolVars, live, open, serial, gpuVars>>

\* ~GPUPerformanceCounterScope.
EndScope(o) ==
    /\ o \in open
    /\ Issue(<<o.counter, o.pair, "end">>, o.serial)
    /\ open' = open \ {o}
    /\ UNCHANGED <<context, resets, poolVars, counterVars, serial, stamp>>

-----------------------------------------------------------------------------
(* Frames.                                                                 *)

\* The disjoint queries whose data Begin finds: the oldest, if it is ready.
Ready == IF pend # <<>> /\ HasData(FrameQuery(Last(pend))) THEN {Last(pend)} ELSE {}

PairsOf(c, d) == [i \in DOMAIN waiting[c][d] |-> waiting[c][d][i].pair]

\* _pendingQueries.erase in DataReady and DataDisjoint.
Erased(c, ds) == [d \in Disjoints |-> IF d \in ds THEN <<>> ELSE waiting[c][d]]

\* Timer::Begin.  Whether the frequency changed (DataDisjoint) or not
\* (DataReady), the pairs come back; only the latter records samples.  The
\* waitable of the swap chain keeps the GPU from falling behind.
BeginFrame ==
    /\ context /\ supported /\ current = None /\ Len(gpu) <= MaxLag
    /\ Late \/ open = {}
    /\ waiting' = [c \in Counters |->
                     IF c \in live THEN Erased(c, Ready) ELSE waiting[c]]
    /\ free' = [c \in Counters |->
                  IF c \in live /\ Ready # {}
                  THEN free[c] \o PairsOf(c, Last(pend))
                  ELSE free[c]]
    /\ LET unused == IF Ready = {} THEN pool ELSE Append(pool, Last(pend))
           left == IF Ready = {} THEN pend ELSE Front(pend)
           next == IF unused = <<>> THEN None ELSE Last(unused)
       IN /\ current' = next
          /\ pend' = IF next = None THEN left ELSE <<next>> \o left
          /\ pool' = IF next = None THEN unused ELSE Front(unused)
          /\ disjoint' = [c \in Counters |->
                            IF c \in live THEN next ELSE disjoint[c]]
          /\ stamp' = IF next = None THEN stamp
                        ELSE [stamp EXCEPT ![FrameQuery(next)] = 0]
    /\ UNCHANGED <<context, resets, supported, live, ready, made, open, serial,
                   gpu>>

\* Without GPU timers a frame changes nothing.
PlainFrame == ~supported /\ context /\ UNCHANGED vars

\* Timer::End.
EndFrame ==
    /\ context /\ supported /\ current # None
    /\ Late \/ open = {}
    /\ Issue(FrameQuery(current), 1)
    /\ current' = None
    /\ UNCHANGED <<context, resets, supported, pool, pend, counterVars, open,
                   serial, stamp>>

\* Timer::BeforeDeviceReset; commands of the old device are of no account.
DeviceReset ==
    /\ context /\ current = None /\ open = {} /\ resets < MaxResets
    /\ context' = FALSE /\ resets' = resets + 1
    /\ pool' = <<>> /\ pend' = <<>>
    /\ ResetCounters(live)
    /\ gpu' = <<>> /\ stamp' = [q \in Queries |-> 0]
    /\ UNCHANGED <<supported, current, live, open, serial>>

\* Timer::InitFromDevice; once a query can't be created there are no GPU
\* timers any more, with this device or a later one.
InitFromDevice ==
    /\ ~context /\ context' = TRUE
    /\ \E n \in 0 .. BufferSize :
        /\ pool' = [d \in 1 .. n |-> d]
        /\ supported' = (supported /\ n = BufferSize)
    /\ ready' = live
    /\ UNCHANGED <<resets, pend, current, live, disjoint, free, made, waiting,
                   open, serial, gpuVars>>

\* The GPU executes a command.
Execute ==
    /\ gpu # <<>>
    /\ gpu' = Tail(gpu)
    /\ stamp' = [stamp EXCEPT ![Head(gpu).query] = Head(gpu).by]
    /\ UNCHANGED <<context, resets, poolVars, counterVars, open, serial>>

Next ==
    \/ \E c \in Counters : \/ CreateCounter(c) \/ DestroyCounter(c)
                           \/ BeginScope(c) \/ CreateQueryFails(c)
    \/ \E o \in open : EndScope(o)
    \/ BeginFrame \/ PlainFrame \/ EndFrame \/ DeviceReset \/ InitFromDevice \/ Execute

Spec == Init /\ [][Next]_vars

-----------------------------------------------------------------------------
TypeOK ==
    /\ context \in BOOLEAN /\ supported \in BOOLEAN
    /\ Range(pool) \subseteq Disjoints /\ Range(pend) \subseteq Disjoints
    /\ current \in {None} \union Disjoints
    /\ ready \subseteq live /\ live \subseteq Counters
    /\ \A c \in Counters : /\ disjoint[c] \in {None} \union Disjoints
                           /\ Range(free[c]) \subseteq 1 .. made[c]

\* Whenever the data of a frame's disjoint query is there, a sample that can
\* be read under it was measured by the scope that asked for it: neither of
\* its two queries has been given to another scope since (Timer::Begin,
\* DoBegin, DataReady).
SamplesBelongToTheirScope ==
    \A c \in live : \A d \in Ready : \A i \in DOMAIN waiting[c][d] :
        LET m == waiting[c][d][i]
            b == <<c, m.pair, "begin">>
            e == <<c, m.pair, "end">>
        IN HasData(b) /\ HasData(e) => stamp[b] = m.serial /\ stamp[e] = m.serial

\* Every query is in one place: a disjoint query in the pool or pending, a
\* pair on its counter's stack or noted under one disjoint query.  None is
\* lost, so neither the pool nor the stacks dry up.
QueriesAreInOnePlace ==
    /\ IsInjective(pool \o pend)
    /\ supported /\ context => Range(pool \o pend) = Disjoints
    /\ \A c \in live :
         LET stacks == [d \in {None} \union Disjoints |->
                          IF d = None THEN free[c] ELSE PairsOf(c, d)]
         IN /\ UNION {Range(stacks[d]) : d \in DOMAIN stacks} = 1 .. made[c]
            /\ \A d, e \in DOMAIN stacks :
                 \A i \in DOMAIN stacks[d], j \in DOMAIN stacks[e] :
                    stacks[d][i] = stacks[e][j] => d = e /\ i = j

\* "force any open counters to end if they haven't already": once Timer::End
\* has run no scope of the frame is open.  It forces nothing; a module that
\* keeps a scope longer finds the pair of queries under another scope.
ScopesEndWithTheirFrame == current = None => open = {}
=============================================================================
