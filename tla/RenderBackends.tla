--------------------------- MODULE RenderBackends ---------------------------
(***************************************************************************)
(* The back end the host has chosen (SelectGraphicsAPI, InitGraphics) with *)
(* the counters that go with it: the frames in flight of Direct3D 12 or    *)
(* the pooled queries of Direct3D 11.  The choice is for the whole run.    *)
(***************************************************************************)
EXTENDS D3D12Frames

CONSTANTS Counters, BufferSize, Late, MaxQueryPairs, MaxScopes, MaxLag,
          MaxResets

ASSUME BackendAssumption ==
    /\ {BufferSize, MaxQueryPairs, MaxScopes, MaxLag, MaxResets} \subseteq Nat
    /\ Late \in BOOLEAN

VARIABLES
    api, \* Host::_graphicsAPI
    context, resets, supported, pool, pend, current, live, ready, disjoint,
    free, made, waiting, open, serial, gpu, stamp

vars11 == <<context, resets, supported, pool, pend, current, live, ready,
            disjoint, free, made, waiting, open, serial, gpu, stamp>>

T11 == INSTANCE D3D11Timer

APIs == {"d3d11", "d3d12"}

\* SelectGraphicsAPI: what the module can use, in its order, and the user's
\* preference, "" if there is none.
SelectGraphicsAPI(supports, preference) ==
    IF \E i \in DOMAIN supports : supports[i] = preference THEN preference
    ELSE supports[1]

BackendsInit ==
    /\ \E supports \in UNION {[1 .. n -> APIs] : n \in 1 .. 2},
          preference \in APIs \union {""} :
         api = SelectGraphicsAPI(supports, preference)
    /\ Init /\ T11!Init

BackendsNext ==
    /\ UNCHANGED api
    /\ \/ api = "d3d12" /\ Next /\ UNCHANGED vars11
       \/ api = "d3d11" /\ T11!Next /\ UNCHANGED vars

BackendsSpec ==
    BackendsInit /\ [][BackendsNext]_<<api, vars, vars11>> /\ Fairness

-----------------------------------------------------------------------------
FramesTypeOK == TypeOK /\ api \in APIs

\* What the CPU writes, releases or hands out again the GPU has done with: the
\* slot of a frame, and the back buffers (module D3D12Frames).
ReusedMemoryIsIdle ==
    FramesTypeOK /\ SlotsAreFreeWhenReused /\ BuffersReleasedWhenIdle

\* On either back end a sample that is recorded was measured by the scope that
\* asked for it, in one frame, though its queries go round and are used by
\* others; and no query is lost on the way or given out twice.
SamplesAreWhole ==
    /\ T11!TypeOK /\ RecordedSamplesAreWhole
    /\ T11!SamplesBelongToTheirScope
    /\ T11!QueriesAreInOnePlace
=============================================================================
