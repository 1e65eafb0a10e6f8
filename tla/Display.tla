------------------------------ MODULE Display -------------------------------
(***************************************************************************)
(* The render thread of MGDFD3DAppFramework.cpp where it makes swap chains *)
(* of the render settings (RTInitD3D, Run, RTApplyFullscreen), with the    *)
(* window and either back end.  Between any two of its steps the module    *)
(* may change the settings and the displays may change.                    *)
(*                                                                         *)
(* How a module answers a device reset and how the program ends is the     *)
(* business of module RenderLoop.                                          *)
(***************************************************************************)
EXTENDS RenderSettings

CONSTANTS
    CheckFails,  \* whether RTCheckForDisplayChanges can fail
    KeepsChanges,\* whether a change can stay open while the device is replaced
    MaxChanges,  \* bound: settings that the module changes, and saves
    MaxEvents,   \* bound: changes of the displays
    MaxRemovals  \* bound: how often the device is removed

ASSUME DisplayAssumption ==
    /\ {CheckFails, KeepsChanges} \subseteq BOOLEAN
    /\ {MaxChanges, MaxEvents, MaxRemovals} \subseteq Nat

VARIABLES
    d3d12,      \* which back end it is
    output,     \* the display as it is
    stale,      \* _rtFactory is no longer current
    queue,      \* _pendingDisplayChanges
    place,      \* where the render thread is
    new,        \* newFullScreen, Windowed where it is out of scope
    current,    \* _rtCurrentFullScreen
    desc,       \* _rtSwapDesc, _rtFullscreenSwapDesc and _rtColorSpace
    fallback,   \* exclusive mode was refused, the chain is made once more
    style,      \* the style of the window
    gpu,        \* "up", "lost", "none"
    chain,      \* the swap chain and how it was made
    started,    \* the module's thread runs
    failed,     \* FatalError
    changes, events, removals

placeVars == <<place, new, current, desc, fallback, style>>
graphicsVars == <<gpu, chain, started, failed>>
countVars == <<changes, events, removals>>
displayVars == <<settingVars, d3d12, output, stale, queue, placeVars, graphicsVars,
          countVars>>

NoChain == [made |-> FALSE, full |-> FALSE]
NoDesc == [windowed |-> TRUE, waitable |-> TRUE, hdr |-> FALSE, level |-> 1]

DisplayInit ==
    /\ SettingsInit
    /\ d3d12 \in BOOLEAN /\ output \in Outputs /\ stale = FALSE /\ queue = <<>>
    /\ place = "init" /\ new = Windowed /\ current = Windowed /\ desc = NoDesc
    /\ fallback = FALSE /\ style = "framed"
    /\ gpu = "none" /\ chain = NoChain /\ started = FALSE /\ failed = FALSE
    /\ changes = 0 /\ events = 0 /\ removals = 0

\* A step of the render thread from one place to another.
Goto(from, to) == ~failed /\ place = from /\ place' = to

-----------------------------------------------------------------------------
(* RTInitD3D.                                                              *)

\* RTInit of the back end, and RTCheckForDisplayChanges.
RTInit ==
    /\ Goto("init", "settings")
    /\ gpu' = "up" /\ stale' = FALSE
    /\ SetOutputProperties(output)
    /\ UNCHANGED <<d3d12, output, queue, new, current, desc, fallback, style,
                   chain, started, failed, countVars>>

\* Host::RTSetDevices, its sections one by one.
SetDevices ==
    /\ \/ /\ Goto("settings", "support")
          /\ IF d3d12 THEN InitFromDevice({1}, TRUE)
             ELSE \E ls \in LevelSets : InitFromDevice(ls, FALSE)
          /\ change' = IF KeepsChanges THEN change ELSE NoChange
       \/ /\ Goto("support", "preferences")
          /\ \E n \in 0 .. (IF d3d12 THEN MostGenerated ELSE 0) : SetGraphicsSupport(n)
       \/ Goto("preferences", "generation") /\ LoadFullScreen
       \/ Goto("generation", "mode") /\ LoadGeneration
       \/ Goto("mode", "level") /\ LoadMode
       \/ Goto("level", "before") /\ LoadLevel
    /\ UNCHANGED <<d3d12, output, stale, queue, new, current, desc, fallback,
                   style, graphicsVars, countVars>>

\* The rest of RTInitD3D up to RTOnResetSwapChain: the window is made
\* borderless if it is to be.
InitWindowMode ==
    /\ Goto("before", "read")
    /\ \/ /\ Borderless(want.full) /\ style' = "borderless"
          /\ UNCHANGED settingVars
       \/ Borderless(want.full) /\ UNCHANGED style /\ SetFullscreen(Windowed)
       \/ ~Borderless(want.full) /\ UNCHANGED <<style, settingVars>>
    /\ UNCHANGED <<d3d12, output, stale, queue, new, current, desc, fallback,
                   graphicsVars, countVars>>

-----------------------------------------------------------------------------
(* A turn of the loop.                                                     *)

\* Whether RTCheckForDisplayChanges runs: on any message, or for the factory.
Checks == queue # <<>> \/ stale

\* PopRTMessage and RTCheckForDisplayChanges.  A resize ends in
\* RTResizeBackBuffer or, of an empty window or in exclusive mode, nowhere.
LookAtDisplays ==
    /\ ~failed /\ place = "top" /\ gpu # "none"
    /\ started' = TRUE
    /\ queue' = IF queue = <<>> THEN queue ELSE Tail(queue)
    /\ stale' = FALSE
    /\ IF queue # <<>> /\ Head(queue) = "resize"
       THEN place' \in {"top"} \union (IF Exclusive(current) THEN {} ELSE {"resize"})
       ELSE place' = "decide"
    /\ IF ~Checks THEN UNCHANGED settingVars
       ELSE SetOutputProperties(output) \/ (CheckFails /\ UNCHANGED settingVars)
    /\ UNCHANGED <<d3d12, output, new, current, desc, fallback, style, gpu,
                   chain, failed, countVars>>

\* Mutant of LeavesFullScreen: it looks at what is wanted.
LeavesUnwanted == chain.full /\ ~Exclusive(want.full)

\* A chain in full screen can't be released: RTSetWindowed.
LeavesFullScreen == Exclusive(current) /\ chain.full

\* RTIsBackBufferChangePending, RTGetFullscreen and RTSetWindowed.
BeginChange ==
    /\ IF changePending THEN Goto("decide", "style") ELSE Goto("decide", "frame")
    /\ IF changePending
       THEN /\ new' = want.full
            /\ chain' = IF LeavesFullScreen THEN [chain EXCEPT !.full = FALSE] ELSE chain
       ELSE UNCHANGED <<new, chain>>
    /\ UNCHANGED <<settingVars, d3d12, output, stale, queue, current, desc,
                   fallback, style, gpu, started, failed, countVars>>

\* ApplyWindowMode; if the window can't be changed the setting is taken back.
ChangeStyle ==
    /\ Goto("style", "read")
    /\ IF Borderless(current) = Borderless(new)
       THEN UNCHANGED <<style, settingVars>>
       ELSE \/ /\ style' = IF Borderless(new) THEN "borderless" ELSE "framed"
               /\ UNCHANGED settingVars
            \/ SetFullscreen(current) /\ UNCHANGED style
    /\ new' = Windowed
    /\ UNCHANGED <<d3d12, output, stale, queue, current, desc, fallback,
                   graphicsVars, countVars>>


\* Mutant of PendingOnce: the flag is cleared when the chain has been made.
PendingUntilMade(step) == changePending /\ step # "create"

\* Where the flag is cleared: with the settings read, under one lock.
PendingOnce(step) == changePending /\ step # "read"

\* RenderSettingsManager::OnResetSwapChain.
ReadSettings ==
    /\ Goto("read", "current")
    /\ desc' = SwapChainDesc
    /\ changePending' = PendingOnce("read")
    /\ UNCHANGED <<want, change, seen, levels, most, saved, d3d12, output, stale, queue,
                   new, current, fallback, style, graphicsVars, countVars>>

\* MGDFApp::RTOnResetSwapChain reads the mode again, in a section of its own.
ReadCurrent ==
    /\ Goto("current", "create")
    /\ current' = want.full
    /\ UNCHANGED <<settingVars, d3d12, output, stale, queue, new, desc, fallback,
                   style, graphicsVars, countVars>>

\* RTCreateSwapChain: the old chain is released, the frames to generate are
\* read.  A removed device is not expected here, by neither back end.
CreateSwapChain ==
    /\ Goto("create", IF fallback THEN "resize" ELSE "apply")
    /\ IF gpu = "lost" THEN failed' = TRUE /\ UNCHANGED chain
       ELSE /\ chain' = [made |-> TRUE, full |-> FALSE, desc |-> desc,
                         generated |-> want.generated]
            /\ UNCHANGED failed
    /\ changePending' = PendingOnce("create")
    /\ fallback' = FALSE
    /\ UNCHANGED <<want, change, seen, levels, most, saved, d3d12, output, stale, queue,
                   new, current, desc, style, gpu, started, countVars>>

\* RTApplyFullscreen: if exclusive mode is refused, it is given up for a
\* window and the chain is made once more.
ApplyFullscreen ==
    /\ \/ /\ Goto("apply", "resize")
          /\ chain' = [chain EXCEPT !.full = Exclusive(current)]
          /\ UNCHANGED <<settingVars, style, fallback>>
       \/ /\ Goto("apply", "read") /\ Exclusive(current)
          /\ SetFullscreen(Windowed)
          /\ style' \in {style, "framed"}
          /\ fallback' = TRUE
          /\ UNCHANGED chain
    /\ UNCHANGED <<d3d12, output, stale, queue, new, current, desc, gpu,
                   started, failed, countVars>>

\* RTResizeBackBuffer, the frame that follows, and what notices the removal.
ResizeAndDraw ==
    /\ place \in {"resize", "frame"}
    /\ IF gpu = "lost" THEN Goto(place, "uninit")
       ELSE IF place = "resize" THEN Goto("resize", "frame") ELSE Goto("frame", "top")
    /\ UNCHANGED <<settingVars, d3d12, output, stale, queue, new, current, desc,
                   fallback, style, graphicsVars, countVars>>

\* RTUninit of either back end, which leaves full screen, then releases the
\* chain; the device is made again when the module is ready.
LeaveForUninit ==
    /\ Goto("uninit", "release")
    /\ chain' = IF LeavesFullScreen THEN [chain EXCEPT !.full = FALSE] ELSE chain
    /\ UNCHANGED <<settingVars, d3d12, output, stale, queue, new, current, desc,
                   fallback, style, gpu, started, failed, countVars>>

RTUninit ==
    /\ Goto("release", "init")
    /\ gpu' = "none" /\ chain' = NoChain
    /\ UNCHANGED <<settingVars, d3d12, output, stale, queue, new, current, desc,
                   fallback, style, started, failed, countVars>>

RenderThread ==
    \/ RTInit \/ SetDevices \/ InitWindowMode
    \/ LookAtDisplays \/ BeginChange \/ ChangeStyle
    \/ ReadSettings \/ ReadCurrent \/ CreateSwapChain \/ ApplyFullscreen
    \/ ResizeAndDraw \/ LeaveForUninit \/ RTUninit

-----------------------------------------------------------------------------
(* The module, the user and the system.                                    *)

\* Of its changes one is open at a time.
ModuleActs ==
    /\ started /\ ~failed
    /\ \/ /\ changes < MaxChanges /\ changes' = changes + 1
          /\ Setter \/ SavePreferences
       \/ (ApplyChange \/ CancelChange) /\ UNCHANGED changes
    /\ UNCHANGED <<d3d12, output, stale, queue, placeVars, graphicsVars, events,
                   removals>>

\* PushRTMessage: a message like the last one is the last one.
Pushed(message) ==
    IF queue # <<>> /\ Last(queue) = message THEN queue ELSE Append(queue, message)

\* A display is another, or HDR is turned on: WM_DISPLAYCHANGE.
DisplayChanges ==
    /\ ~failed /\ events < MaxEvents /\ events' = events + 1
    /\ output' \in Outputs \ {output}
    /\ stale' \in {stale, TRUE}
    /\ queue' = Pushed("display")
    /\ UNCHANGED <<settingVars, d3d12, placeVars, graphicsVars, changes, removals>>

\* WM_SIZE, when there is a swap chain.
UserResizes ==
    /\ ~failed /\ chain.made
    /\ queue' = Pushed("resize")
    /\ UNCHANGED <<settingVars, d3d12, output, stale, placeVars, graphicsVars,
                   countVars>>

\* Another program takes the display: DXGI leaves full screen by itself.
LosesFullScreen ==
    /\ ~failed /\ chain.full
    /\ chain' = [chain EXCEPT !.full = FALSE]
    /\ UNCHANGED <<settingVars, d3d12, output, stale, queue, placeVars, gpu,
                   started, failed, countVars>>

LosesDevice ==
    /\ ~failed /\ gpu = "up" /\ removals < MaxRemovals /\ removals' = removals + 1
    /\ gpu' = "lost"
    /\ UNCHANGED <<settingVars, d3d12, output, stale, queue, placeVars, chain,
                   started, failed, changes, events>>

DisplayNext == RenderThread \/ ModuleActs \/ DisplayChanges \/ UserResizes
          \/ LosesFullScreen \/ LosesDevice

\* The render thread goes on.
DisplaySpec == DisplayInit /\ [][DisplayNext]_displayVars /\ WF_displayVars(RenderThread)

-----------------------------------------------------------------------------
\* The type invariant.
DisplayTypeOK ==
    /\ want.full \in FullScreenDescs /\ want.generated \in 0 .. MostGenerated
    /\ {changePending, started, failed, stale, fallback} \subseteq BOOLEAN
    /\ ToSet(queue) \subseteq {"display", "resize"}
    /\ {new, current} \subseteq FullScreenDescs
    /\ style \in {"framed", "borderless"} /\ gpu \in {"up", "lost", "none"}
    /\ chain.full => chain.made /\ Exclusive(current)

\* At the head of the loop, with no change pending, the swap chain was made of
\* the settings and displays as they are known: nothing that the module
\* changed between any two steps, also while a chain was made or a device
\* created, is forgotten with the flag (OnResetSwapChain, Cleanup).
\* SetOutputProperties compares white levels only, so this takes displays that
\* have another one in HDR.
ChainFollowsSettings ==
    place = "top" /\ ~changePending =>
        chain.desc = SwapChainDesc /\ chain.generated = want.generated

\* "d3d has to be in windowed mode to cleanup correctly": whatever has become
\* of the settings, a chain is not in full screen when it is released.
ReleasedWindowed == place \in {"create", "release"} => ~chain.full

\* The level of a chain is one that the device has, though it may come from
\* preferences saved with another device.  LoadPreferences compares with the
\* highest level only, so this takes devices without gaps below theirs; and a
\* change is checked by its setters only, so it takes modules that keep none
\* open while the device is replaced.
ChainHasSupportedLevel == place \in {"current", "create"} => desc.level \in levels

\* When nothing is left to pop, the displays are known as they are.
DisplaysAreKnown ==
    place \in {"top", "decide"} /\ queue = <<>> /\ ~stale => seen = Described(output)

\* The swap chain is one of the settings, for the displays as they are and at
\* a level that the device has.
ChainFitsDisplay ==
    DisplayTypeOK /\ ChainFollowsSettings /\ ChainHasSupportedLevel /\ DisplaysAreKnown


-----------------------------------------------------------------------------
(* What the code does not do.                                              *)

\* "Once released the settings will be applied to the render system on the
\* next frame": with no change pending the window has the style of the mode.
WindowFollowsSettings ==
    place = "top" /\ ~changePending => (style = "borderless") = Borderless(want.full)

\* "sets whether HDR should be enabled when its supported by the current display
\* output": with no change pending the chain has the HDR that the display has.
HDRFollowsDisplay ==
    place = "top" /\ ~changePending => chain.desc.hdr = SwapChainDesc.hdr

\* "find the highest refresh rate for the given resolution".
ChoosesHighestRate ==
    \A i \in DOMAIN seen.modes :
        LET best == ModeOfSize(seen.modes[i].size)
        IN seen.modes[i].num * best.den <= best.num * seen.modes[i].den

\* "generatedFrames 0 for no frame generation, otherwise 1 to
\* GetMaxGeneratedFrames": no more frames are asked for than the device can
\* generate.
GeneratesWhatIsSupported == place = "top" => chain.generated <= most

\* "the settings will be applied to the render system on the next frame": also
\* while the user resizes.
AppliedWhileResizing == changePending ~> ~changePending \/ failed

\* A removed device is replaced and doesn't end the program.
RemovalIsNotFatal == ~failed
=============================================================================
