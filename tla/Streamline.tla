----------------------------- MODULE Streamline -----------------------------
(***************************************************************************)
(* MGDFStreamline.cpp, the bridge to NVIDIA Streamline, under the calls    *)
(* that the Direct3D 12 back end makes of it: frame generation (DLSS-G),   *)
(* low latency (Reflex) and the upscaler (DLSS).                           *)
(*                                                                         *)
(* The bridge keeps what it believes of the plugins (StreamlineState) and  *)
(* calls them only for a difference.  Every call can fail, and a frame can *)
(* be left without a token; what the plugins then do is not what the       *)
(* bridge believes.  A generated frame is presented on a thread of the     *)
(* plugin, so generation must have stopped when the back end touches its   *)
(* swap chain, and it reads the resources the module has tagged, so they   *)
(* must be those of the frame.                                             *)
(***************************************************************************)
EXTENDS Naturals

CONSTANTS
    Failing, \* the calls of Streamline that can fail
    Sizes    \* what the upscaler can be asked for (DLSSOptions)

ASSUME FailingAssumption ==
    Failing \subseteq {"token", "constants", "tags", "generation", "latency",
                       "upscale", "loaded", "status"}

VARIABLES
    interposer, \* _interposer is loaded
    s,      \* *_state; Active and what the device supports, and:
            \*   generation, failed, suspended, inputs, tagged: the fields
            \*   FrameGeneration...; mode: FrameGenerationMode, "unset" for
            \*   nullopt; token; constants: ConstantsSet; latency: ReflexMode;
            \*   upscaled: DLSSOptions, "unset" for nullopt
    plugin, \* what the plugins are told: generation, latency and upscaling
            \* options, and whether they hold resources of the module
    chain,  \* the swap chain of the back end, and whether generating for it
            \* has failed
    pc,     \* where the render thread is
    given,  \* what the module gave for this frame and the plugins took
    asked,  \* the upscale that is evaluated, "none" if there is none
    ping    \* _ping

vars == <<interposer, s, plugin, chain, pc, given, asked, ping>>

Latencies == {"off", "on", "boost"}
Unset == "unset"

Features == [upscale : BOOLEAN, pcl : BOOLEAN, reflex : BOOLEAN,
             lowLatency : BOOLEAN, generates : BOOLEAN]

NoFeatures == [upscale |-> FALSE, pcl |-> FALSE, reflex |-> FALSE,
               lowLatency |-> FALSE, generates |-> FALSE]

\* What RTInit can find: each of them needs the one before.
Supported == {f \in Features :
                 /\ f.reflex => f.pcl
                 /\ f.lowLatency \/ f.generates => f.reflex}

NewState(active, features) ==
    [active |-> active, can |-> features, generation |-> FALSE, failed |-> FALSE,
     suspended |-> FALSE, inputs |-> FALSE, tagged |-> FALSE, mode |-> Unset,
     token |-> FALSE, constants |-> FALSE, latency |-> Unset, upscaled |-> Unset]

FreshPlugin == [mode |-> "off", latency |-> "off", upscaled |-> Unset, held |-> FALSE]

NoChain == [made |-> FALSE, generation |-> FALSE, exclusive |-> FALSE,
            failed |-> FALSE]

Init ==
    /\ interposer = FALSE
    /\ s = NewState(FALSE, NoFeatures) /\ plugin = FreshPlugin
    /\ chain = NoChain
    /\ pc = "down" /\ given = {} /\ asked = "none" /\ ping = FALSE

\* How a call of Streamline can end.
Results(call) == IF call \in Failing THEN BOOLEAN ELSE {TRUE}

-----------------------------------------------------------------------------
(* The device and the swap chain.                                          *)

\* LoadInterposer: the library is not there, not signed or lacks a function,
\* or it is loaded for good.
LoadInterposer == IF interposer THEN {TRUE} ELSE BOOLEAN

\* RTInit, on an adapter that is NVIDIA's or not.  Without a feature, or when
\* slInit or another call fails, Streamline is shut down.  Reflex has options
\* once, even when it stays off.
RTInit ==
    /\ pc = "down" /\ pc' = "chainless"
    /\ \E can \in Supported, nvidia, up \in BOOLEAN, ok \in Results("latency"),
          loaded \in LoadInterposer :
        LET active == /\ nvidia /\ loaded /\ up
                      /\ can.upscale \/ can.lowLatency \/ can.generates
            new == NewState(active, IF active THEN can ELSE NoFeatures)
        IN /\ interposer' = (interposer \/ (nvidia /\ loaded))
           /\ s' = IF active /\ can.reflex /\ ok
                     THEN [new EXCEPT !.latency = "off"] ELSE new
    /\ plugin' = FreshPlugin
    /\ UNCHANGED <<chain, given, asked, ping>>

\* ClearFrameGenerationTagsLocked.
Clears == s.tagged /\ s.token

\* Mutant of Suspension: the bridge only notes that it is suspended.
NotedOnly(ok) ==
    /\ s' = [s EXCEPT !.suspended = s.generation]
    /\ UNCHANGED plugin

\* RTSuspendFrameGeneration.
Suspension(ok) ==
    IF ~s.generation THEN UNCHANGED <<s, plugin>>
    ELSE /\ s' = [s EXCEPT !.suspended = TRUE,
                           !.tagged = @ /\ ~Clears,
                           !.mode = IF ok THEN "off" ELSE @]
         /\ plugin' = [plugin EXCEPT !.held = @ /\ ~Clears,
                                     !.mode = IF ok /\ s.mode # "off" THEN "off" ELSE @]

\* A call of DXGI that replaces the buffers or the mode of the swap chain or
\* releases it; the back end suspends frame generation first.
SuspendFor(call) ==
    /\ pc = "idle" /\ chain.made
    /\ call = "windowed" => chain.exclusive
    /\ call = "exclusive" => ~chain.exclusive
    /\ call = "release" => ~chain.exclusive
    /\ \E ok \in Results("generation") : Suspension(ok)
    /\ pc' = call
    /\ UNCHANGED <<interposer, chain, given, asked, ping>>

\* The call and RTResumeFrameGeneration; that of RTResizeBackBuffer,
\* RTSetExclusiveFullscreen, which can fail, and RTSetWindowed.  RTUninit
\* leaves full screen without resuming and releases the chain next.
CallChain ==
    /\ pc \in {"resize", "exclusive", "windowed"} /\ pc' = "idle"
    /\ \/ pc = "exclusive" /\ chain' = [chain EXCEPT !.exclusive = TRUE]
       \/ pc = "windowed" /\ chain' = [chain EXCEPT !.exclusive = FALSE]
       \/ pc # "windowed" /\ UNCHANGED chain
    /\ s' = [s EXCEPT !.suspended = FALSE]
    /\ UNCHANGED <<interposer, plugin, given, asked, ping>>

\* RTReleaseSwapChain.
ReleaseChain ==
    /\ pc = "release" /\ pc' = "chainless"
    /\ chain' = NoChain
    /\ UNCHANGED <<interposer, s, plugin, given, asked, ping>>

\* RTPrepareSwapChain for the frames the settings ask for, with a back buffer
\* that is scRGB or not, and the swap chain that RTCreateSwapChain then makes.
RTCreateSwapChain(wanted, scRGB) ==
    /\ pc = "chainless" /\ pc' = "idle"
    /\ \E loaded \in Results("loaded"), imported \in Results("loaded") :
        LET enable == s.active /\ s.can.generates /\ wanted /\ ~scRGB /\ loaded
                        /\ imported
        IN /\ s' = [s EXCEPT !.generation = enable, !.failed = FALSE,
                             !.suspended = FALSE, !.inputs = FALSE,
                             !.tagged = FALSE,
                             !.mode = IF @ = "off" THEN @ ELSE Unset]
           /\ chain' = [made |-> TRUE, generation |-> enable, exclusive |-> FALSE,
                         failed |-> FALSE]
    /\ UNCHANGED <<interposer, plugin, given, asked, ping>>

\* The end of RTUninit: RTShutdown.  The plugins are unloaded.
RTShutdown ==
    /\ pc = "chainless" /\ pc' = "down"
    /\ s' = NewState(FALSE, NoFeatures) /\ plugin' = FreshPlugin
    /\ given' = {} /\ ping' = FALSE
    /\ UNCHANGED <<interposer, chain, asked>>

-----------------------------------------------------------------------------
(* A frame.                                                                *)

\* Mutant of ForFrame: what was given for the last frame is kept.
ForAnyFrame(got) == [s EXCEPT !.token = got]

\* The head of RTBeginFrame.
ForFrame(got) == [s EXCEPT !.token = got, !.constants = FALSE, !.inputs = FALSE]

\* Mutant of LatencyFor: the setting alone.
LatencyAsSet(low) == IF s.can.lowLatency THEN low ELSE "off"

\* Frame generation fails without Reflex low latency.
LatencyFor(low) ==
    LET mode == IF s.can.lowLatency THEN low ELSE "off"
    IN IF s.generation /\ mode = "off" THEN "on" ELSE mode

\* RTBeginFrame, called by RTWaitForFrame with the low latency setting.
RTBeginFrame(low) ==
    /\ pc = "idle" /\ chain.made /\ pc' = "drawing"
    /\ given' = {}
    /\ IF ~s.active THEN UNCHANGED <<s, plugin, ping>>
       ELSE \E got \in Results("token"), ok \in Results("latency") :
            IF ~got THEN s' = ForFrame(FALSE) /\ UNCHANGED <<plugin, ping>>
            ELSE LET set == s.can.reflex /\ s.latency # LatencyFor(low) /\ ok
                 IN /\ s' = [ForFrame(TRUE) EXCEPT
                               !.latency = IF set THEN LatencyFor(low) ELSE @]
                    /\ plugin' = [plugin EXCEPT
                               !.latency = IF set THEN LatencyFor(low) ELSE @]
                    /\ ping' = (ping /\ ~s.can.pcl)
    /\ UNCHANGED <<interposer, chain, asked>>

\* RTSetFrameConstants, of which only the first call of a frame counts.
RTSetFrameConstants ==
    /\ pc = "drawing"
    /\ s.token /\ (s.can.upscale \/ s.can.generates) /\ ~s.constants
    /\ \E ok \in Results("constants") :
        /\ s' = [s EXCEPT !.constants = ok]
        /\ given' = IF ok THEN given \union {"constants"} ELSE given
    /\ UNCHANGED <<interposer, plugin, chain, pc, asked, ping>>

\* RTSetFrameGenerationInputs; without a description, generation pauses.
RTSetFrameGenerationInputs(desc) ==
    /\ pc = "drawing"
    /\ s.generation /\ s.token
    /\ \E ok \in Results("tags") :
        IF ~desc
        THEN /\ s' = [s EXCEPT !.inputs = FALSE]
             /\ given' = given \ {"inputs"}
             /\ UNCHANGED plugin
        ELSE IF ok
        THEN /\ s' = [s EXCEPT !.inputs = TRUE, !.tagged = TRUE]
             /\ plugin' = [plugin EXCEPT !.held = TRUE]
             /\ given' = given \union {"inputs"}
        ELSE UNCHANGED <<s, plugin, given>>
    /\ UNCHANGED <<interposer, chain, pc, asked, ping>>

\* DLSSOptions after slDLSSSetOptions.
Noted(size, ok) == IF ok THEN size ELSE s.upscaled

\* RTUpscale with legal arguments: the options are set if they are not those
\* of the last upscale, then the feature is evaluated.
RTUpscale(size) ==
    /\ pc = "drawing"
    /\ s.can.upscale /\ s.token /\ s.constants
    /\ \E ok \in Results("upscale") :
        LET set == s.upscaled # size
        IN /\ s' = [s EXCEPT !.upscaled = IF set THEN Noted(size, ok) ELSE @]
           /\ plugin' = [plugin EXCEPT !.upscaled = IF set /\ ok THEN size ELSE @]
           /\ IF ~set \/ ok THEN pc' = "evaluating" /\ asked' = size
              ELSE UNCHANGED <<pc, asked>>
    /\ UNCHANGED <<interposer, chain, given, ping>>

\* slEvaluateFeature.
EvaluateFeature ==
    /\ pc = "evaluating" /\ pc' = "drawing"
    /\ asked' = "none"
    /\ UNCHANGED <<interposer, s, plugin, chain, given, ping>>

Runs == s.inputs /\ s.constants /\ ~s.suspended /\ ~s.failed

\* RTBeforePresent: generation runs for a frame that has all it needs.
RTBeforePresent ==
    /\ pc = "drawing" /\ pc' = "presenting"
    /\ IF ~(s.active /\ s.token /\ s.generation) THEN UNCHANGED <<s, plugin>>
       ELSE \E ok \in Results("generation") :
            LET mode == IF Runs THEN "on" ELSE "off"
                clears == ~Runs /\ Clears
                sets == ok /\ s.mode # mode
            IN /\ s' = [s EXCEPT !.tagged = @ /\ ~clears,
                                 !.mode = IF sets THEN mode ELSE @]
               /\ plugin' = [plugin EXCEPT !.held = @ /\ ~clears,
                                           !.mode = IF sets THEN mode ELSE @]
    /\ UNCHANGED <<interposer, chain, given, asked, ping>>

\* DLSSGGetState says that generation has failed.
GivesUp(ok) == s.active /\ s.token /\ s.generation /\ s.mode = "on" /\ ~ok

\* Present and RTAfterPresent.
Present ==
    /\ pc = "presenting" /\ pc' = "idle"
    /\ \E ok \in Results("status") :
        /\ s' = [s EXCEPT !.failed = @ \/ GivesUp(ok)]
        /\ chain' = [chain EXCEPT !.failed = @ \/ (s.token /\ plugin.mode = "on" /\ ~ok)]
    /\ UNCHANGED <<interposer, plugin, given, asked, ping>>

-----------------------------------------------------------------------------
\* QueueLatencyPing, on the main thread.
QueueLatencyPing ==
    /\ s.active /\ s.can.pcl /\ ~ping
    /\ ping' = TRUE
    /\ UNCHANGED <<interposer, s, plugin, chain, pc, given, asked>>

ChangeChain ==
    \/ \E call \in {"resize", "exclusive", "windowed", "release"} : SuspendFor(call)
    \/ CallChain \/ ReleaseChain
    \/ \E wanted, scRGB \in BOOLEAN : RTCreateSwapChain(wanted, scRGB)

Frame ==
    \/ \E low \in Latencies : RTBeginFrame(low)
    \/ RTSetFrameConstants
    \/ \E desc \in BOOLEAN : RTSetFrameGenerationInputs(desc)
    \/ \E size \in Sizes : RTUpscale(size)
    \/ EvaluateFeature \/ RTBeforePresent \/ Present

Next == RTInit \/ RTShutdown \/ ChangeChain \/ Frame \/ QueueLatencyPing

Spec == Init /\ [][Next]_vars

-----------------------------------------------------------------------------
\* The type invariant; the chain exists where it is used and was made as the
\* bridge believes.
TypeOK ==
    /\ pc \in {"down", "chainless", "idle", "resize", "exclusive", "windowed",
               "release", "drawing", "evaluating", "presenting"}
    /\ chain.made <=> pc \notin {"down", "chainless"}
    /\ chain.made => chain.generation = s.generation
    /\ s.mode \in {Unset, "off", "on"} /\ plugin.mode \in {"off", "on"}
    /\ s.latency \in {Unset} \union Latencies /\ plugin.latency \in Latencies
    /\ s.upscaled \in {Unset} \union Sizes

\* While the back end resizes, switches or releases its swap chain, the thread
\* of the plugin doesn't present to it: frame generation is off in the plugin,
\* not only in what the bridge believes (RTSuspendFrameGeneration).
ChainChangesWithoutGeneration ==
    pc \in {"resize", "exclusive", "windowed", "release"} => plugin.mode = "off"

\* A frame is presented with generated ones only if the module has given its
\* constants and inputs for this very frame, to a chain made for it on which it
\* has not failed ("A frame without inputs, or a null desc, pauses frame generation
\* for that frame"), however the settings and the chain changed in between.
GeneratesOnlyFromThisFrame ==
    pc = "presenting" /\ s.token /\ plugin.mode = "on" =>
        given = {"constants", "inputs"} /\ chain.generation /\ ~chain.failed

\* "While frame generation runs the host uses at least MGDF_LOW_LATENCY_ON".
GenerationNeedsLowLatency ==
    pc = "presenting" /\ plugin.mode = "on" => plugin.latency # "off"

\* The upscaler is evaluated with the options of this call, though it is told
\* them only when they differ from the last ones it took (RTUpscale).
EvaluatesAsAsked == pc = "evaluating" => plugin.upscaled = asked

\* The plugin has the settings that the call under way relies on.
PluginIsSetAsNeeded == TypeOK /\ GenerationNeedsLowLatency /\ EvaluatesAsAsked

-----------------------------------------------------------------------------
(* What the code does not do.                                              *)

\* Once generation doesn't run, the plugin holds no resources of the module.
PausedHoldsNothing ==
    pc = "presenting" /\ s.token /\ plugin.mode = "off" => ~plugin.held

\* GeneratesOnlyFromThisFrame, of the frames without a token as well.
PausesWithoutInputs ==
    pc = "presenting" /\ plugin.mode = "on" => given = {"constants", "inputs"}
=============================================================================
