-------------------------------- MODULE Host --------------------------------
(***************************************************************************)
(* The life of the host: WinMain builds it step by step (MGDFHostBuilder,  *)
(* MGDFModuleFactory), makes the window and the device, runs the threads   *)
(* of module RenderLoop, and takes everything apart in the opposite order. *)
(* What the loop and the sim thread do goes through the host, which calls  *)
(* the game's module, keeps the device and the back buffer it hands out    *)
(* (MGDFHostImpl), and ends the process by FatalError from any thread.     *)
(*                                                                         *)
(* A FATALERROR stands wherever a call of the module or of the system can  *)
(* fail, so a running thread can come to one at any point.                 *)
(***************************************************************************)
EXTENDS RenderLoop, FiniteSets

CONSTANTS
    HasSound,  \* the sound manager could be made: Host::_sound is not null
    MaxFatals  \* bound: how many threads come to a FATALERROR

ASSUME HostAssumption == HasSound \in BOOLEAN /\ MaxFatals \in Nat

VARIABLES
    stage,      \* how far WinMain is
    module,     \* Host::_module: "none", "created" (STNew runs), "ready",
                \* "released"
    hasDevice,  \* the device and the queues Host hands out are not null
    backBuffer, \* Host::_backBuffer (_backBufferInfo with D3D12)
    borrowed,   \* the sim thread of the module has a reference to a device
    fatals,     \* where each thread is in Host::FatalError
    ended       \* how the process has ended

Threads == {"main", "render", "sim"}

hostVars == <<stage, module, hasDevice, backBuffer, borrowed, fatals, ended>>
vars == <<loopVars, hostVars>>

Init ==
    /\ LoopInit
    /\ stage = "base" /\ module = "none"
    /\ hasDevice = FALSE /\ backBuffer = FALSE /\ borrowed = FALSE
    /\ fatals = [t \in Threads |-> "no"] /\ ended = "no"

Running(t) == ended = "no" /\ fatals[t] = "no"

-----------------------------------------------------------------------------
(* Starting up.                                                            *)

\* One of the steps of HostBuilder::TryCreateHost that fail without more ado:
\* the host is not there yet, what has been built goes with its owners.
Builds(from, to) ==
    /\ stage = from
    /\ \/ (stage' = to /\ UNCHANGED ended)
       \/ (ended' = "failed" /\ UNCHANGED stage)
    /\ UNCHANGED <<loopVars, module, hasDevice, backBuffer, borrowed, fatals>>

RegisterBaseComponents == Builds("base", "gameFile")
LoadGame == Builds("gameFile", "additional")

\* "we can still probably run if the soundmanager failed to initialize".
RegisterAdditionalComponents == Builds("additional", "library")

\* ~Host stops the sound manager without looking whether there is one.
Destroyed(well) == IF HasSound THEN well ELSE "crashed"

\* A part of Host::Init.  When it fails the host is destroyed at once.
Initialises(from, to) ==
    /\ stage = from
    /\ \/ (stage' = to /\ UNCHANGED ended)
       \/ (ended' = Destroyed("failed") /\ UNCHANGED stage)
    /\ UNCHANGED <<loopVars, module, hasDevice, backBuffer, borrowed, fatals>>

\* ModuleFactory: the library is there, loads, and exports what it must.
LoadModuleLibrary == Initialises("library", "mounts")

\* The archive handlers, the module's own among them, and the two mounts.
MountFileSystems == Initialises("mounts", "graphics")

\* The constructor of MGDFApp.
InitGraphics ==
    /\ stage = "graphics"
    /\ stage' = "window"
    /\ UNCHANGED <<loopVars, module, hasDevice, backBuffer, borrowed, fatals,
                   ended>>

\* InitWindow, with the first RTInitD3D.  When the device is removed in there
\* nobody is told: there is no module yet.
InitWindow ==
    /\ stage = "window"
    /\ stage' = "run"
    /\ \/ /\ device' = "up" /\ hasDevice' = TRUE /\ backBuffer' = TRUE
          /\ UNCHANGED <<losses, awaiting>>
       \/ /\ losses < MaxLosses
          /\ losses' = losses + 1 /\ awaiting' = TRUE
          /\ UNCHANGED <<device, hasDevice, backBuffer>>
    /\ UNCHANGED <<owed, holds, renderVars, mpc, closeVars, simVars, flagVars,
                   module, borrowed, fatals, ended>>

StartUp ==
    \/ RegisterBaseComponents \/ LoadGame \/ RegisterAdditionalComponents
    \/ LoadModuleLibrary \/ MountFileSystems \/ InitGraphics \/ InitWindow

-----------------------------------------------------------------------------
(* The render thread's calls of the host.                                  *)

\* Mutant of ChangesBuffers: new back buffers come without a warning.
ChangesUnannounced == UNCHANGED backBuffer

\* RTBeforeBackBufferChange: the host drops its references and tells the module.
ChangesBuffers == backBuffer' = FALSE

\* Calls in which the host keeps what it has.
HostKeeps == UNCHANGED <<hasDevice, backBuffer>>

\* RTBeforeDeviceReset clears the device under _deviceMutex.
Forgets == hasDevice' = FALSE

RTBeforeFirstDraw == FirstDraw /\ HostKeeps
RTDeviceReset == DeviceReset /\ HostKeeps
RTDraw == Draw /\ HostKeeps
RTAfterPresent == Present /\ HostKeeps

RTBeforeBackBufferChange ==
    /\ BackBufferChange
    /\ IF rpc' = "resize" THEN ChangesBuffers ELSE UNCHANGED backBuffer
    /\ UNCHANGED hasDevice

\* The device may be found removed instead.
RTBackBufferChange ==
    /\ ResizeBackBuffer
    /\ backBuffer' = (backBuffer \/ device # "lost")
    /\ UNCHANGED hasDevice

RTBeforeDeviceReset ==
    \/ (TellModule /\ ChangesBuffers /\ UNCHANGED hasDevice)
    \/ (ForgetDevice /\ Forgets /\ UNCHANGED backBuffer)

RTSetDevices ==
    /\ InitDevice
    /\ IF rpc' = "initResize" THEN hasDevice' = TRUE /\ ChangesBuffers ELSE HostKeeps

RenderCalls ==
    \/ RTBeforeFirstDraw \/ RTDeviceReset \/ RTDraw \/ RTAfterPresent
    \/ RTBeforeBackBufferChange \/ RTBackBufferChange
    \/ RTBeforeDeviceReset \/ RTSetDevices
    \/ ((LoopTop \/ BeginFrame \/ ResetTimesOut \/ Uninit) /\ HostKeeps)

\* A FATALERROR of the loop (fatal') is FatalError's first step.
Render ==
    /\ stage = "run" /\ Running("render")
    /\ RenderCalls
    /\ fatals' = IF fatal' /\ ~fatal THEN [fatals EXCEPT !["render"] = "waiting"]
                 ELSE fatals
    /\ UNCHANGED <<stage, module, borrowed, ended>>

-----------------------------------------------------------------------------
(* The sim thread and the module.                                          *)

\* STCreateModule: the module is there for the other threads (FatalError) when
\* GetModule has returned, before its STNew has.
GetModule ==
    /\ spc = "update" /\ module = "none"
    /\ module' = "created"
    /\ UNCHANGED <<loopVars, stage, hasDevice, backBuffer, borrowed, fatals, ended>>

STNew ==
    /\ spc = "update" /\ module = "created"
    /\ module' = "ready"
    /\ UNCHANGED <<loopVars, stage, hasDevice, backBuffer, borrowed, fatals, ended>>

STUpdate == module = "ready" /\ SimUpdates /\ UNCHANGED hostVars

\* The module takes a reference to the device, and releases it before it calls
\* QueueDeviceReset, as MGDF.idl asks it to.
GetDevice ==
    /\ spc = "update" /\ module = "ready" /\ hasDevice
    /\ borrowed' = TRUE
    /\ UNCHANGED <<loopVars, stage, module, hasDevice, backBuffer, fatals, ended>>

QueueDeviceReset ==
    /\ ModuleQueuesReset
    /\ borrowed' = FALSE
    /\ UNCHANGED <<stage, module, hasDevice, backBuffer, fatals, ended>>

Sim ==
    /\ stage = "run" /\ Running("sim")
    /\ \/ (SimStarts /\ UNCHANGED hostVars)
       \/ GetModule \/ STNew \/ STUpdate

Module ==
    /\ stage = "run" /\ Running("sim") /\ module = "ready"
    /\ \/ (ModuleShutsDown /\ UNCHANGED hostVars)
       \/ GetDevice
       \/ QueueDeviceReset

-----------------------------------------------------------------------------
(* The main thread.                                                        *)

\* It also serves the window while the message box of a fatal error is open.
MainPumps == ended = "no" /\ fatals["main"] \in {"no", "handler"}

Pump(step) == stage = "run" /\ MainPumps /\ step /\ UNCHANGED hostVars

Finish ==
    /\ stage = "run" /\ Running("main")
    /\ DestroyTheWindow \/ StopSim \/ RunReturns
    /\ UNCHANGED hostVars

\* ~MGDFApp: the module's RTShutDown; the host lets go of the device.
RTShutDown ==
    /\ stage = "run" /\ mpc = "done"
    /\ stage' = "shut"
    /\ hasDevice' = FALSE /\ backBuffer' = FALSE /\ holds' = FALSE
    /\ UNCHANGED <<device, losses, awaiting, owed, renderVars, mpc, closeVars,
                   simVars, flagVars, module, borrowed, fatals, ended>>

\* ~D3DAppFramework.
UninitD3D ==
    /\ stage = "shut"
    /\ stage' = "uninit" /\ device' = "none"
    /\ UNCHANGED <<losses, awaiting, owed, holds, renderVars, mpc, closeVars,
                   simVars, flagVars, module, hasDevice, backBuffer,
                   borrowed, fatals, ended>>

\* ~Host: the module goes first, then sound and network are stopped.
ReleaseHost ==
    /\ stage = "uninit"
    /\ stage' = "released"
    /\ module' = "released" /\ borrowed' = FALSE
    /\ ended' = Destroyed("returned")
    /\ UNCHANGED <<loopVars, hasDevice, backBuffer, fatals>>

Main == Running("main") /\ (StartUp \/ RTShutDown \/ UninitD3D \/ ReleaseHost)

-----------------------------------------------------------------------------
(* FatalError.                                                             *)

\* The places of a FATALERROR of thread t.
MayFail(t) ==
    CASE t = "main" -> \/ stage \in {"graphics", "window"}
                       \/ (stage = "run" /\ mpc = "pump")
      [] t = "render" -> stage = "run" /\ rpc # "exited"
      [] t = "sim" -> stage = "run" /\ spc = "update"

Fails(t) ==
    /\ Running(t) /\ MayFail(t)
    /\ Cardinality({u \in Threads : fatals[u] # "no"}) < MaxFatals
    /\ fatals' = [fatals EXCEPT ![t] = "waiting"]
    /\ fatal' = TRUE
    /\ UNCHANGED <<deviceVars, renderVars, mpc, closeVars, simVars, runRender, runSim,
                   minimized, stage, module, hasDevice, backBuffer,
                   borrowed, ended>>

\* _mutex, which is never given back.
MayPanic(t) == fatals[t] = "waiting" /\ \A u \in Threads : fatals[u] \in {"no", "waiting"}

TellModuleToPanic(t) ==
    /\ ended = "no" /\ MayPanic(t)
    /\ fatals' = [fatals EXCEPT ![t] =
                     IF module \in {"created", "ready"} THEN "panic" ELSE "handler"]
    /\ UNCHANGED <<loopVars, stage, module, hasDevice, backBuffer, borrowed,
                   ended>>

\* The module's Panic returns: FatalErrorCallBack asks the launcher for a
\* minidump and shows the message.
PanicReturns(t) ==
    /\ ended = "no" /\ fatals[t] = "panic"
    /\ fatals' = [fatals EXCEPT ![t] = "handler"]
    /\ UNCHANGED <<loopVars, stage, module, hasDevice, backBuffer, borrowed,
                   ended>>

Terminate(t) ==
    /\ ended = "no" /\ fatals[t] = "handler"
    /\ ended' = "terminated"
    /\ UNCHANGED <<loopVars, stage, module, hasDevice, backBuffer, borrowed,
                   fatals>>

FatalError ==
    \E t \in Threads : Fails(t) \/ TellModuleToPanic(t) \/ PanicReturns(t) \/ Terminate(t)

-----------------------------------------------------------------------------
\* The user and the driver.
World ==
    /\ stage = "run" /\ ended = "no"
    /\ \/ (MainPumps /\ (UserCloses \/ Minimize))
       \/ DeviceRemoved
    /\ UNCHANGED hostVars

Next ==
    \/ Main \/ Render \/ Sim \/ Module \/ Pump(AnswerSent) \/ Pump(Close) \/ Finish
    \/ FatalError \/ World

\* Threads that can run are run, the clock passes the deadline, and the pump
\* neglects neither the messages in the queue nor those that are sent.  The
\* turns that a resize ends are not all there are (a message is taken from the
\* queue by each, and the user does not resize for ever).  A module need not
\* answer RTBeforeDeviceReset nor return from Panic, nobody has to close the
\* window or the message box.
Fairness ==
    /\ WF_vars(Main) /\ WF_vars(Render) /\ WF_vars(Sim) /\ WF_vars(Finish)
    /\ SF_vars(Render /\ BackBufferChange /\ rpc' = "frame")
    /\ WF_vars(Pump(AnswerSent)) /\ WF_vars(Pump(Close))

Spec == Init /\ [][Next]_vars /\ Fairness

-----------------------------------------------------------------------------
\* The host's calls keep to what interface IMGDFModule says: what the module's
\* two threads are asked comes in that order, whatever is removed, resized,
\* closed or fails in between.
Protocol == INSTANCE ModuleProtocol WITH
    sim <- IF module = "none" THEN "none"
           ELSE IF module = "released" THEN "gone"
           ELSE IF spc = "exited" THEN "stopped"
           ELSE IF firstFrame THEN "new" ELSE "running",
    render <- IF stage \in {"shut", "uninit", "released"} THEN "shut"
              ELSE IF rpc = "start" THEN "none" ELSE "on",
    buffers <- backBuffer,
    device <- holds,
    drawing <- rpc = "present"

ImplementsModuleProtocol == Protocol!Spec

\* What GetD3D11Device and GetD3D12Device hand out from any thread is a device
\* the back end has ("or null during device reset"): the host's references and
\* the back end come and go in different steps of different threads.
HandsOutLiveDevices == hasDevice => device # "none"

\* The device that is drawn on or handed out is live and known, and a new one
\* is made only when the module has let go of the old one (with the types).
DevicesAreLive ==
    /\ TypeOK
    /\ DrawsOnLiveDevice /\ ReinitAfterAcknowledgement /\ HandsOutLiveDevices

\* Of all the threads that may run into fatal errors while the first is being
\* reported, one tells the module to panic.
PanicsOnce == \A t, u \in Threads :
    {fatals[t], fatals[u]} \subseteq {"panic", "handler"} => t = u

\* The module is called as its interface promises, Panic included.
ModuleIsCalledAsPromised == ImplementsModuleProtocol /\ []PanicsOnce

\* Once ShutDown has posted WM_CLOSE, the process ends: the main thread goes on
\* answering the render thread while it waits for it, whether the device has
\* gone in the meantime or the module leaves a reset unanswered.
CloseCompletes == internal /\ posted > 0 ~> ended # "no" \/ fatal

\* A device that was removed is replaced, also one that goes while the first is
\* being made, unless the process ends or the window is minimized or closed.
RemovedDeviceIsReplaced ==
    stage = "run" /\ device # "up" ~> device = "up" \/ fatal \/ minimized \/ ~runRender

-----------------------------------------------------------------------------
(* What the documentation and the comments say and the code does not do.   *)

\* "release returned references before acknowledging a device reset": the module
\* does, and has one again when the device is replaced, for the host forgets the
\* device after it has told the module.
AcknowledgedDevicesAreGone == rpc = "init" => ~borrowed

\* "we can still probably run if the soundmanager failed to initialize".
RunsWithoutSound == ended # "crashed"

\* "should be used to do perform any initialization": Panic comes after STNew.
PanicsAfterNew == module = "created" => \A t \in Threads : fatals[t] # "panic"

\* RTBeforeFirstDraw finds a device.
FirstDrawHasDevice == rpc = "start" /\ stage = "run" => device # "none"
=============================================================================
