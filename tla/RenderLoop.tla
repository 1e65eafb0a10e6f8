------------------------------ MODULE RenderLoop -----------------------------
(***************************************************************************)
(* The three threads of MGDFD3DAppFramework.cpp (Run, MsgProc) and the     *)
(* module they drive: the main thread pumps window messages, the render    *)
(* thread draws, the sim thread runs the module.                           *)
(*                                                                         *)
(* A device that is removed is replaced: the render thread tells the       *)
(* module (RTBeforeDeviceReset), releases the device, waits until the      *)
(* module has called QueueDeviceReset, creates another and tells the       *)
(* module again (RTDeviceReset).  Closing the window goes from the main    *)
(* thread to the sim thread (STShutDown), back to the main thread          *)
(* (ShutDown posts WM_CLOSE), which stops the render thread first.         *)
(*                                                                         *)
(* The flags that stop a thread are atomic_flags it sets with every        *)
(* test_and_set: here they are TRUE until cleared.  What a display change  *)
(* does to the swap chain is the business of module Display, what the host *)
(* does in each of the calls that of module Host, which composes the loop  *)
(* with it and has the next-state relation.                                *)
(***************************************************************************)
EXTENDS Naturals

CONSTANTS
    MaxRetries, \* maxRetries of RTReinitD3D
    MaxLosses,  \* bound: how often the device is removed
    MaxCloses   \* bound: how many WM_CLOSE the user and the module cause

ASSUME LoopAssumption == {MaxRetries, MaxLosses, MaxCloses} \subseteq Nat

VARIABLES
    device,     \* "up", "lost" once removed, "none" when the back end is
                \* not initialised
    losses,     \* how often it has been removed
    awaiting,   \* _awaitingD3DReset
    owed,       \* the module has not yet answered an RTBeforeDeviceReset
    holds,      \* the module holds resources of a device
    rpc,        \* where the render thread is ("start": RTOnBeforeFirstDraw)
    ret,        \* where it goes on after RTPrepareToReinitD3D
    attempt,    \* the attempt of RTReinitD3D
    sent,       \* it waits for the main thread to process a window message
    runRender,  \* _runRenderThread
    minimized,  \* _minimized
    mpc,        \* the main thread: "pump", "stopping" the render thread,
                \* "quit", "joining" the sim thread, "done"
    posted,     \* WM_CLOSE messages in the queue
    closes,     \* how many were caused
    internal,   \* _internalShutDown
    spc,        \* the sim thread: "new", "update", "exited"
    runSim,     \* runSimThread
    firstFrame, \* _awaitFrame: the first update has not ended yet
    shutdown,   \* Host::_shutdownQueued, until the module's STShutDown is called
    fatal       \* FatalError has terminated the process

deviceVars == <<device, losses, awaiting, owed, holds>>
renderVars == <<rpc, ret, attempt, sent>>
closeVars == <<posted, closes, internal>>
simVars == <<spc, firstFrame, shutdown>>
flagVars == <<runRender, runSim, minimized, fatal>>
loopVars == <<deviceVars, renderVars, mpc, closeVars, simVars, flagVars>>

\* Before InitWindow there is no device.
LoopInit ==
    /\ device = "none" /\ losses = 0 /\ awaiting = FALSE /\ owed = FALSE
    /\ holds = FALSE
    /\ rpc = "start" /\ ret = "loop" /\ attempt = 0 /\ sent = FALSE
    /\ mpc = "pump" /\ posted = 0 /\ closes = 0 /\ internal = FALSE
    /\ spc = "new" /\ firstFrame = TRUE /\ shutdown = FALSE
    /\ runRender = TRUE /\ runSim = FALSE /\ minimized = FALSE /\ fatal = FALSE

-----------------------------------------------------------------------------
(* The render thread.                                                      *)

\* RTOnBeforeFirstDraw: it starts when the sim thread has ended one update.
FirstDraw ==
    /\ rpc = "start" /\ ~firstFrame
    /\ holds' = TRUE
    /\ rpc' = "loop"
    /\ UNCHANGED <<device, losses, awaiting, owed, ret, attempt, sent, mpc,
                   closeVars, simVars, flagVars>>

\* Mutant of MayReinit: the device is replaced as soon as it is gone.
NeverWaits == TRUE

MayReinit == ~awaiting

\* The head of the loop; while it waits for the module it comes back here.
LoopTop ==
    /\ rpc = "loop"
    /\ IF ~runRender THEN rpc' = "exited" /\ UNCHANGED attempt
       ELSE /\ MayReinit
            /\ rpc' = IF device = "none" THEN "init" ELSE "change"
            /\ attempt' = 0
    /\ UNCHANGED <<deviceVars, ret, sent, mpc, closeVars, simVars, flagVars>>

\* Mutant of TimesOut: there is no deadline.
NeverTimesOut == FALSE

TimesOut == awaiting

\* "Module did not call QueueDeviceReset within 10 seconds".
ResetTimesOut ==
    /\ rpc = "loop" /\ runRender /\ TimesOut
    /\ fatal' = TRUE
    /\ UNCHANGED <<deviceVars, renderVars, mpc, closeVars, simVars, runRender,
                   runSim, minimized>>

\* A resize of the window or a change of the settings may ask for new back
\* buffers; changing the window needs the main thread.  A resize to nothing, or
\* of an exclusive full screen, ends the turn.
BackBufferChange ==
    /\ rpc = "change"
    /\ \/ rpc' \in {"frame", "loop"} /\ UNCHANGED sent
       \/ rpc' = "resize" /\ sent' \in BOOLEAN
    /\ UNCHANGED <<deviceVars, ret, attempt, mpc, closeVars, simVars, flagVars>>

\* RTPrepareToReinitD3D begins.
Prepare(back) ==
    /\ awaiting' = TRUE
    /\ rpc' = "tell"
    /\ ret' = back

\* RTResizeBackBuffer, which may be where the removal is noticed, in the loop
\* as well as at the end of RTInitD3D.
ResizeBackBuffer ==
    /\ rpc \in {"resize", "initResize"} /\ ~sent
    /\ LET next == IF rpc = "resize" THEN "frame" ELSE "initDone"
       IN IF device = "lost" THEN Prepare(next)
          ELSE rpc' = next /\ UNCHANGED <<awaiting, ret>>
    /\ UNCHANGED <<device, losses, owed, holds, attempt, sent, mpc, closeVars,
                   simVars, flagVars>>

\* The rest of RTPrepareToReinitD3D: the module is told and releases its
\* resources; the host forgets the device; the back end is uninitialised.
TellModule ==
    /\ rpc = "tell"
    /\ owed' = TRUE /\ holds' = FALSE
    /\ rpc' = "forget"
    /\ UNCHANGED <<device, losses, awaiting, ret, attempt, sent, mpc, closeVars,
                   simVars, flagVars>>

ForgetDevice ==
    /\ rpc = "forget"
    /\ rpc' = "uninit"
    /\ UNCHANGED <<deviceVars, ret, attempt, sent, mpc, closeVars, simVars,
                   flagVars>>

Uninit ==
    /\ rpc = "uninit"
    /\ device' = "none"
    /\ rpc' = ret
    /\ UNCHANGED <<losses, awaiting, owed, holds, ret, attempt, sent, mpc,
                   closeVars, simVars, flagVars>>

\* RTInitD3D up to its RTResizeBackBuffer; RTReinitD3D tries it again.
InitDevice ==
    /\ rpc = "init"
    /\ \/ /\ device' = "up" /\ rpc' = "initResize"
          /\ sent' \in BOOLEAN
          /\ UNCHANGED <<attempt, fatal>>
       \/ /\ IF attempt < MaxRetries
             THEN attempt' = attempt + 1 /\ UNCHANGED fatal
             ELSE fatal' = TRUE /\ UNCHANGED attempt
          /\ UNCHANGED <<device, rpc, sent>>
    /\ UNCHANGED <<losses, awaiting, owed, holds, ret, mpc, closeVars, simVars,
                   runRender, runSim, minimized>>

\* RTOnDeviceReset.
DeviceReset ==
    /\ rpc = "initDone"
    /\ holds' = TRUE
    /\ rpc' = "frame"
    /\ UNCHANGED <<device, losses, awaiting, owed, ret, attempt, sent, mpc,
                   closeVars, simVars, flagVars>>

MayDraw == ~minimized /\ device # "none"

\* RTWaitForFrame and the look at the device before the frame.
BeginFrame ==
    /\ rpc = "frame"
    /\ IF ~MayDraw THEN rpc' = "loop" /\ UNCHANGED <<awaiting, ret>>
       ELSE IF device = "lost" THEN Prepare("loop")
       ELSE rpc' \in {"loop", "draw"} /\ UNCHANGED <<awaiting, ret>>
    /\ UNCHANGED <<device, losses, owed, holds, attempt, sent, mpc, closeVars,
                   simVars, flagVars>>

\* RTOnDraw; a frame generation Present can wait for the main thread.
Draw ==
    /\ rpc = "draw"
    /\ sent' \in BOOLEAN
    /\ rpc' = "present"
    /\ UNCHANGED <<deviceVars, ret, attempt, mpc, closeVars, simVars, flagVars>>

Present ==
    /\ rpc = "present" /\ ~sent
    /\ IF device = "lost" THEN Prepare("loop")
       ELSE rpc' = "loop" /\ UNCHANGED <<awaiting, ret>>
    /\ UNCHANGED <<device, losses, owed, holds, attempt, sent, mpc, closeVars,
                   simVars, flagVars>>

-----------------------------------------------------------------------------
(* The sim thread and the module.                                          *)

\* The thread sets its flag and creates the module.
SimStarts ==
    /\ spc = "new"
    /\ spc' = "update" /\ runSim' = TRUE
    /\ UNCHANGED <<deviceVars, renderVars, mpc, closeVars, firstFrame, shutdown,
                   runRender, minimized, fatal>>

\* STOnUpdateSim.
SimUpdates ==
    /\ spc = "update"
    /\ IF runSim
       THEN /\ firstFrame' = FALSE
            /\ shutdown' = FALSE
            /\ UNCHANGED spc
       ELSE spc' = "exited" /\ UNCHANGED <<firstFrame, shutdown>>
    /\ UNCHANGED <<deviceVars, renderVars, mpc, closeVars, flagVars>>

\* The module calls ShutDown, as STShutDown asks it to or on its own.
ModuleShutsDown ==
    /\ spc = "update" /\ runSim
    /\ closes < MaxCloses
    /\ closes' = closes + 1 /\ posted' = posted + 1 /\ internal' = TRUE
    /\ UNCHANGED <<deviceVars, renderVars, mpc, simVars, flagVars>>

\* The module calls QueueDeviceReset, once for each RTBeforeDeviceReset.
ModuleQueuesReset ==
    /\ owed
    /\ owed' = FALSE /\ awaiting' = FALSE
    /\ UNCHANGED <<device, losses, holds, renderVars, mpc, closeVars, simVars,
                   flagVars>>

-----------------------------------------------------------------------------
(* The main thread, the user and the graphics card.                        *)

\* Mutant of Pumping: a thread that stops the render thread only waits.
PumpingOnly == mpc = "pump"

Pumping == mpc \in {"pump", "stopping"}

AnswerSent ==
    /\ sent /\ Pumping
    /\ sent' = FALSE
    /\ UNCHANGED <<deviceVars, rpc, ret, attempt, mpc, closeVars, simVars,
                   flagVars>>

\* WM_SIZE, as far as _minimized goes: the user minimizes, maximizes, restores
\* and resizes in any order.
Minimize ==
    /\ Pumping
    /\ minimized' = ~minimized
    /\ UNCHANGED <<deviceVars, renderVars, mpc, closeVars, simVars, runRender,
                   runSim, fatal>>

\* WM_CLOSE.
Close ==
    /\ Pumping /\ posted > 0
    /\ posted' = posted - 1
    /\ IF ~internal
       THEN shutdown' = TRUE /\ UNCHANGED <<mpc, runRender>>
       ELSE /\ IF mpc = "stopping" THEN UNCHANGED runRender ELSE runRender' = FALSE
            /\ mpc' = "stopping"
            /\ UNCHANGED shutdown
    /\ UNCHANGED <<deviceVars, renderVars, closes, internal, spc, firstFrame,
                   runSim, minimized, fatal>>

\* The render thread has been joined: the window is destroyed, which posts
\* WM_QUIT; what is left in the queue goes with the window.
DestroyTheWindow ==
    /\ mpc = "stopping" /\ rpc = "exited"
    /\ mpc' = "quit" /\ posted' = 0
    /\ UNCHANGED <<deviceVars, renderVars, closes, internal, simVars, flagVars>>

StopSim ==
    /\ mpc = "quit"
    /\ runSim' = FALSE
    /\ mpc' = "joining"
    /\ UNCHANGED <<deviceVars, renderVars, closeVars, simVars, runRender,
                   minimized, fatal>>

\* The sim thread has been joined and Run returns.
RunReturns ==
    /\ mpc = "joining" /\ spc = "exited"
    /\ mpc' = "done"
    /\ UNCHANGED <<deviceVars, renderVars, closeVars, simVars, flagVars>>

UserCloses ==
    /\ Pumping /\ closes < MaxCloses
    /\ closes' = closes + 1 /\ posted' = posted + 1
    /\ UNCHANGED <<deviceVars, renderVars, mpc, internal, simVars, flagVars>>

DeviceRemoved ==
    /\ device = "up" /\ losses < MaxLosses
    /\ device' = "lost" /\ losses' = losses + 1
    /\ UNCHANGED <<awaiting, owed, holds, renderVars, mpc, closeVars, simVars,
                   flagVars>>

-----------------------------------------------------------------------------
\* The type invariant of the threads.  The render thread waits for the main
\* thread only where a call of it can need a window message, and for the module
\* only with the device gone.
TypeOK ==
    /\ device \in {"up", "lost", "none"} /\ losses \in 0..MaxLosses
    /\ {awaiting, owed, holds, sent, runRender, minimized, internal, runSim,
        firstFrame, shutdown, fatal} \subseteq BOOLEAN
    /\ rpc \in {"start", "loop", "change", "resize", "tell", "forget", "uninit",
                "init", "initResize", "initDone", "frame", "draw", "present", "exited"}
    /\ ret \in {"loop", "frame", "initDone"} /\ attempt \in 0..MaxRetries
    /\ sent => rpc \in {"resize", "initResize", "present"}
    /\ awaiting => device = "none" \/ rpc \in {"tell", "forget", "uninit"}
    /\ mpc \in {"pump", "stopping", "quit", "joining", "done"}
    /\ posted \in 0..MaxCloses /\ closes \in 0..MaxCloses
    /\ spc \in {"new", "update", "exited"}

\* The module is asked to draw only between an RTBeforeFirstDraw or an
\* RTDeviceReset and the next RTBeforeDeviceReset, on a device that the back
\* end has, and never while the module still owes an answer.
DrawsOnLiveDevice ==
    rpc \in {"draw", "present"} => device # "none" /\ holds /\ ~owed

\* A device is created only when the module has said, of the last of all
\* resets, that all references to the old one are cleaned up (QueueDeviceReset:
\* "all references to the previous D3D device have been cleaned up and [...]
\* the device can be safely reset"), also when the removals follow on each
\* other; that the module may hold something again by then is the business of
\* ResetHasDevice.
ReinitAfterAcknowledgement == rpc = "init" => ~owed /\ ~awaiting

-----------------------------------------------------------------------------
(* What the documentation of the interface says and the code does not do.  *)

\* RTDeviceReset is "called by the host after the dxgi device has been reset".
ResetHasDevice == rpc = "initDone" => device # "none"
=============================================================================
