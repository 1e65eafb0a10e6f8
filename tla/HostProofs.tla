----------------------------- MODULE HostProofs ------------------------------
(***************************************************************************)
(* For any bounds and with or without sound: what the render thread draws  *)
(* on and the host hands out is a live device, a device is made only when  *)
(* the module has let go of the last, and the module is called in the      *)
(* order that its interface promises, by whatever thread and whatever is   *)
(* removed, closed or fails in between.                                    *)
(*                                                                         *)
(* None of it is inductive: what holds at a place of the render thread     *)
(* depends on how far WinMain and the other two threads are.  StagesOK and *)
(* ThreadsOK say how far they can be apart, DeviceOK and ModuleOK what is  *)
(* known of the device and of the module at each place of the loop.        *)
(*                                                                         *)
(* The same loop as module Display has it comes last: the swap chain is    *)
(* that of the settings, of the displays and of the device's levels, and   *)
(* it is released in windowed mode.                                        *)
(***************************************************************************)
EXTENDS Host, Display, TLAPS

BeforeRun == {"base", "gameFile", "additional", "library", "mounts", "graphics",
           "window"}
AfterRun == {"shut", "uninit", "released"}

\* The flags are flags.
Flags ==
    /\ awaiting \in BOOLEAN /\ owed \in BOOLEAN /\ holds \in BOOLEAN
    /\ sent \in BOOLEAN /\ runRender \in BOOLEAN /\ minimized \in BOOLEAN
    /\ internal \in BOOLEAN /\ runSim \in BOOLEAN /\ firstFrame \in BOOLEAN
    /\ shutdown \in BOOLEAN /\ fatal \in BOOLEAN
    /\ hasDevice \in BOOLEAN /\ backBuffer \in BOOLEAN

\* The types of all but the flags, and how many messages there can be.
Places ==
    /\ device \in {"up", "lost", "none"} /\ losses \in 0 .. MaxLosses
    /\ rpc \in {"start", "loop", "change", "resize", "tell", "forget", "uninit",
                "init", "initResize", "initDone", "frame", "draw", "present",
                "exited"}
    /\ ret \in {"loop", "frame", "initDone"} /\ attempt \in 0 .. MaxRetries
    /\ mpc \in {"pump", "stopping", "quit", "joining", "done"}
    /\ posted \in Nat /\ closes \in 0 .. MaxCloses /\ posted <= closes
    /\ spc \in {"new", "update", "exited"}
    /\ stage \in BeforeRun \union {"run"} \union AfterRun
    /\ module \in {"none", "created", "ready", "released"}
    /\ fatals \in [Threads -> {"no", "waiting", "panic", "handler"}]

\* The threads run between InitWindow and ~MGDFApp only.
StagesOK ==
    /\ stage \in BeforeRun =>
          /\ device = "none" /\ ~awaiting /\ ~owed
          /\ rpc = "start" /\ mpc = "pump" /\ spc = "new"
    /\ stage \in AfterRun => mpc = "done" /\ ~hasDevice
    /\ module = "released" <=> stage = "released"

\* The render thread begins after the first update of the sim thread and has
\* ended before that one is stopped.
ThreadsOK ==
    /\ mpc \in {"quit", "joining", "done"} => rpc = "exited"
    /\ mpc = "done" => spc = "exited"
    /\ rpc # "start" => ~firstFrame
    /\ spc = "new" => module = "none"
    /\ module \in {"none", "created"} => firstFrame
    /\ firstFrame => spc # "exited"
    /\ spc = "update" => runSim \/ mpc \in {"joining", "done"}

\* Where the back end has a device, where it has lost it, and where the host
\* has forgotten it; a reset is owed only while the render thread waits.
DeviceOK ==
    /\ sent => rpc \in {"resize", "initResize", "present"}
    /\ awaiting => device = "none" \/ rpc \in {"tell", "forget", "uninit"}
    /\ hasDevice => device # "none"
    /\ owed => awaiting
    /\ rpc \in {"change", "resize", "initResize", "draw", "present"} => device # "none"
    /\ rpc = "init" => device = "none" /\ ~awaiting
    /\ rpc = "tell" => awaiting /\ ~owed
    /\ rpc \in {"tell", "forget", "uninit"} => device = "lost"
    /\ rpc = "uninit" => ~hasDevice

\* What the module was told it has of a device, while there is one.
ModuleOK ==
    device # "none" =>
       /\ rpc \in {"loop", "change", "resize", "frame", "draw", "present"} => holds
       /\ rpc \in {"start", "loop", "change", "initDone", "frame", "draw",
                   "present"} => backBuffer

IInv == Flags /\ Places /\ StagesOK /\ ThreadsOK /\ DeviceOK /\ ModuleOK

-----------------------------------------------------------------------------

\* The bounds are natural numbers.
LEMMA Bounds == MaxRetries \in Nat /\ MaxLosses \in Nat /\ MaxCloses \in Nat
BY LoopAssumption

LEMMA InitIInv == Init => IInv
<1> USE DEF Init, LoopInit, BeforeRun, AfterRun
<1>1. Init => Flags
  BY DEF Flags
<1>2. Init => Places
  BY Bounds DEF Places, Threads
<1>3. Init => StagesOK /\ ThreadsOK
  BY DEF StagesOK, ThreadsOK
<1>4. Init => DeviceOK /\ ModuleOK
  BY DEF DeviceOK, ModuleOK
<1> QED BY <1>1, <1>2, <1>3, <1>4 DEF IInv

\* The main thread builds the host and takes it apart.
LEMMA MainStep == ASSUME IInv, Main PROVE IInv'
<1> USE DEF IInv, BeforeRun, AfterRun, loopVars, deviceVars, renderVars, closeVars,
       simVars, flagVars, hostVars
<1>1. CASE /\ stage \in BeforeRun /\ stage' \in BeforeRun
           /\ UNCHANGED <<loopVars, module, hasDevice, backBuffer, fatals>>
  BY <1>1 DEF Flags, Places, StagesOK, ThreadsOK, DeviceOK, ModuleOK
<1>2. CASE InitWindow
  <2> USE <1>2 DEF InitWindow
  <2>1. Flags'
    <3>1. CASE device' = "up"
      BY ZenonT(40), <3>1 DEF Flags
    <3>2. CASE ~(device' = "up")
      BY ZenonT(40), <3>2 DEF Flags
    <3> QED BY <3>1, <3>2
  <2>2. Places'
    BY Bounds DEF Flags, Places
  <2>3. StagesOK' /\ ThreadsOK'
    BY DEF Flags, Places, StagesOK, ThreadsOK, DeviceOK
  <2>4. DeviceOK' /\ ModuleOK'
    BY DEF Flags, Places, StagesOK, ThreadsOK, DeviceOK, ModuleOK
  <2> QED BY <2>1, <2>2, <2>3, <2>4
<1>3. CASE RTShutDown
  <2> USE <1>3 DEF RTShutDown
  <2>1. Flags'
    BY DEF Flags
  <2>2. Places'
    BY Bounds DEF Flags, Places
  <2>3. StagesOK' /\ ThreadsOK'
    BY DEF Flags, Places, StagesOK, ThreadsOK, DeviceOK
  <2>4. DeviceOK' /\ ModuleOK'
    BY DEF Flags, Places, StagesOK, ThreadsOK, DeviceOK, ModuleOK
  <2> QED BY <2>1, <2>2, <2>3, <2>4
<1>4. CASE UninitD3D
  <2> USE <1>4 DEF UninitD3D
  <2>1. Flags'
    BY DEF Flags
  <2>2. Places'
    BY Bounds DEF Flags, Places
  <2>3. StagesOK' /\ ThreadsOK'
    BY DEF Flags, Places, StagesOK, ThreadsOK, DeviceOK
  <2>4. DeviceOK' /\ ModuleOK'
    BY DEF Flags, Places, StagesOK, ThreadsOK, DeviceOK, ModuleOK
  <2> QED BY <2>1, <2>2, <2>3, <2>4
<1>5. CASE ReleaseHost
  <2> USE <1>5 DEF ReleaseHost
  <2>1. Flags'
    BY DEF Flags
  <2>2. Places'
    BY Bounds DEF Flags, Places
  <2>3. StagesOK' /\ ThreadsOK'
    BY DEF Flags, Places, StagesOK, ThreadsOK, DeviceOK
  <2>4. DeviceOK' /\ ModuleOK'
    BY DEF Flags, Places, StagesOK, ThreadsOK, DeviceOK, ModuleOK
  <2> QED BY <2>1, <2>2, <2>3, <2>4
<1> QED
  BY <1>1, <1>2, <1>3, <1>4, <1>5 DEF Main, StartUp,
     RegisterBaseComponents, LoadGame, RegisterAdditionalComponents,
     LoadModuleLibrary, MountFileSystems, InitGraphics, Builds, Initialises

\* The render thread, call by call.
LEMMA RenderStep == ASSUME IInv, Render PROVE IInv'
<1> USE DEF IInv, BeforeRun, AfterRun, loopVars, deviceVars, renderVars, closeVars,
       simVars, flagVars, hostVars
<1>1. /\ stage = "run" /\ RenderCalls /\ UNCHANGED <<stage, module>>
      /\ fatals' \in [Threads -> {"no", "waiting", "panic", "handler"}]
  BY DEF Render, Places
<1>2. CASE RTBeforeFirstDraw
  <2> USE <1>1, <1>2 DEF RTBeforeFirstDraw, FirstDraw, HostKeeps
  <2>1. Flags'
    BY DEF Flags
  <2>2. Places'
    BY Bounds DEF Flags, Places
  <2>3. StagesOK' /\ ThreadsOK'
    BY DEF Flags, Places, StagesOK, ThreadsOK, DeviceOK
  <2>4. DeviceOK' /\ ModuleOK'
    BY DEF Flags, Places, StagesOK, ThreadsOK, DeviceOK, ModuleOK
  <2> QED BY <2>1, <2>2, <2>3, <2>4
<1>3. CASE RTDeviceReset
  <2> USE <1>1, <1>3 DEF RTDeviceReset, DeviceReset, HostKeeps
  <2>1. Flags'
    BY DEF Flags
  <2>2. Places'
    BY Bounds DEF Flags, Places
  <2>3. StagesOK' /\ ThreadsOK'
    BY DEF Flags, Places, StagesOK, ThreadsOK, DeviceOK
  <2>4. DeviceOK' /\ ModuleOK'
    BY DEF Flags, Places, StagesOK, ThreadsOK, DeviceOK, ModuleOK
  <2> QED BY <2>1, <2>2, <2>3, <2>4
<1>4. CASE RTDraw
  <2> USE <1>1, <1>4 DEF RTDraw, Draw, HostKeeps
  <2>1. Flags'
    BY DEF Flags
  <2>2. Places'
    BY Bounds DEF Flags, Places
  <2>3. StagesOK' /\ ThreadsOK'
    BY DEF Flags, Places, StagesOK, ThreadsOK, DeviceOK
  <2>4. DeviceOK' /\ ModuleOK'
    BY DEF Flags, Places, StagesOK, ThreadsOK, DeviceOK, ModuleOK
  <2> QED BY <2>1, <2>2, <2>3, <2>4
<1>5. CASE RTAfterPresent
  <2> USE <1>1, <1>5 DEF RTAfterPresent, Present, Prepare, HostKeeps
  <2>1. Flags'
    BY ZenonT(40) DEF Flags
  <2>2. Places'
    BY Bounds DEF Flags, Places
  <2>3. StagesOK' /\ ThreadsOK'
    BY DEF Flags, Places, StagesOK, ThreadsOK, DeviceOK
  <2>4. DeviceOK' /\ ModuleOK'
    BY DEF Flags, Places, StagesOK, ThreadsOK, DeviceOK, ModuleOK
  <2> QED BY <2>1, <2>2, <2>3, <2>4
<1>6. CASE RTBeforeBackBufferChange
  <2> USE <1>1, <1>6 DEF RTBeforeBackBufferChange, BackBufferChange,
         ChangesBuffers
  <2>1. Flags'
    <3>1. CASE rpc' = "resize"
      BY <3>1 DEF Flags
    <3>2. CASE ~(rpc' = "resize")
      BY <3>2 DEF Flags
    <3> QED BY <3>1, <3>2
  <2>2. Places'
    BY Bounds DEF Flags, Places
  <2>3. StagesOK' /\ ThreadsOK'
    BY DEF Flags, Places, StagesOK, ThreadsOK, DeviceOK
  <2>4. DeviceOK' /\ ModuleOK'
    <3>1. CASE rpc' = "resize"
      BY <3>1 DEF Flags, Places, DeviceOK, ModuleOK
    <3>2. CASE rpc' # "resize"
      BY <3>2 DEF Flags, Places, DeviceOK, ModuleOK
    <3> QED BY <3>1, <3>2
  <2> QED BY <2>1, <2>2, <2>3, <2>4
<1>7. CASE RTBackBufferChange
  <2> USE <1>1, <1>7 DEF RTBackBufferChange, ResizeBackBuffer, Prepare
  <2>1. Flags'
    BY DEF Flags
  <2>2. Places'
    BY Bounds DEF Flags, Places
  <2>3. StagesOK' /\ ThreadsOK'
    BY DEF Flags, Places, StagesOK, ThreadsOK, DeviceOK
  <2>4. DeviceOK' /\ ModuleOK'
    BY DEF Flags, Places, StagesOK, ThreadsOK, DeviceOK, ModuleOK
  <2> QED BY <2>1, <2>2, <2>3, <2>4
<1>8. CASE TellModule /\ ChangesBuffers /\ UNCHANGED hasDevice
  <2> USE <1>1, <1>8 DEF TellModule, ChangesBuffers
  <2>1. Flags'
    BY DEF Flags
  <2>2. Places'
    BY Bounds DEF Flags, Places
  <2>3. StagesOK' /\ ThreadsOK'
    BY DEF Flags, Places, StagesOK, ThreadsOK, DeviceOK
  <2>4. DeviceOK' /\ ModuleOK'
    BY DEF Flags, Places, StagesOK, ThreadsOK, DeviceOK, ModuleOK
  <2> QED BY <2>1, <2>2, <2>3, <2>4
<1>9. CASE ForgetDevice /\ Forgets /\ UNCHANGED backBuffer
  <2> USE <1>1, <1>9 DEF ForgetDevice, Forgets
  <2>1. Flags'
    BY ZenonT(40) DEF Flags
  <2>2. Places'
    BY Bounds DEF Flags, Places
  <2>3. StagesOK' /\ ThreadsOK'
    BY DEF Flags, Places, StagesOK, ThreadsOK, DeviceOK
  <2>4. DeviceOK' /\ ModuleOK'
    BY DEF Flags, Places, StagesOK, ThreadsOK, DeviceOK, ModuleOK
  <2> QED BY <2>1, <2>2, <2>3, <2>4
<1>10. CASE RTSetDevices
  <2> USE <1>1, <1>10 DEF RTSetDevices, InitDevice, ChangesBuffers, HostKeeps
  <2>1. Flags'
    <3>1. CASE rpc' = "initResize"
      BY <3>1 DEF Flags
    <3>2. CASE ~(rpc' = "initResize")
      BY ZenonT(40), <3>2 DEF Flags
    <3> QED BY <3>1, <3>2
  <2>2. Places'
    BY Bounds DEF Flags, Places
  <2>3. StagesOK' /\ ThreadsOK'
    BY DEF Flags, Places, StagesOK, ThreadsOK, DeviceOK
  <2>4. DeviceOK' /\ ModuleOK'
    BY DEF Flags, Places, StagesOK, ThreadsOK, DeviceOK, ModuleOK
  <2> QED BY <2>1, <2>2, <2>3, <2>4
<1>11. CASE LoopTop /\ HostKeeps
  <2> USE <1>1, <1>11 DEF LoopTop, MayReinit, HostKeeps
  <2>1. Flags'
    BY DEF Flags
  <2>2. Places'
    BY Bounds DEF Flags, Places
  <2>3. StagesOK' /\ ThreadsOK'
    BY DEF Flags, Places, StagesOK, ThreadsOK, DeviceOK
  <2>4. DeviceOK' /\ ModuleOK'
    BY DEF Flags, Places, StagesOK, ThreadsOK, DeviceOK, ModuleOK
  <2> QED BY <2>1, <2>2, <2>3, <2>4
<1>12. CASE BeginFrame /\ HostKeeps
  <2> USE <1>1, <1>12 DEF BeginFrame, MayDraw, Prepare, HostKeeps
  <2>1. Flags'
    <3>1. CASE device = "lost" /\ MayDraw
      BY <3>1 DEF Flags
    <3>2. CASE ~(device = "lost" /\ MayDraw)
      BY <3>2 DEF Flags
    <3> QED BY <3>1, <3>2
  <2>2. Places'
    BY Bounds DEF Flags, Places
  <2>3. StagesOK' /\ ThreadsOK'
    BY DEF Flags, Places, StagesOK, ThreadsOK, DeviceOK
  <2>4. DeviceOK' /\ ModuleOK'
    BY DEF Flags, Places, StagesOK, ThreadsOK, DeviceOK, ModuleOK
  <2> QED BY <2>1, <2>2, <2>3, <2>4
<1>13. CASE ResetTimesOut /\ HostKeeps
  <2> USE <1>1, <1>13 DEF ResetTimesOut, HostKeeps
  <2>1. Flags'
    BY DEF Flags
  <2>2. Places'
    BY Bounds DEF Flags, Places
  <2>3. StagesOK' /\ ThreadsOK'
    BY DEF Flags, Places, StagesOK, ThreadsOK, DeviceOK
  <2>4. DeviceOK' /\ ModuleOK'
    BY DEF Flags, Places, StagesOK, ThreadsOK, DeviceOK, ModuleOK
  <2> QED BY <2>1, <2>2, <2>3, <2>4
<1>14. CASE Uninit /\ HostKeeps
  <2> USE <1>1, <1>14 DEF Uninit, HostKeeps
  <2>1. Flags'
    BY DEF Flags
  <2>2. Places'
    BY Bounds DEF Flags, Places
  <2>3. StagesOK' /\ ThreadsOK'
    BY DEF Flags, Places, StagesOK, ThreadsOK, DeviceOK
  <2>4. DeviceOK' /\ ModuleOK'
    BY DEF Flags, Places, StagesOK, ThreadsOK, DeviceOK, ModuleOK
  <2> QED BY <2>1, <2>2, <2>3, <2>4
<1> QED
  BY <1>1, <1>2, <1>3, <1>4, <1>5, <1>6, <1>7, <1>8, <1>9, <1>10, <1>11,
     <1>12, <1>13, <1>14
  DEF RenderCalls, RTBeforeDeviceReset

\* The sim thread and the module.
LEMMA SimStep == ASSUME IInv, Sim \/ Module PROVE IInv'
<1> USE DEF IInv, BeforeRun, AfterRun, loopVars, deviceVars, renderVars, closeVars,
       simVars, flagVars, hostVars
<1>1. CASE Sim /\ SimStarts /\ UNCHANGED hostVars
  <2> USE <1>1 DEF Sim, SimStarts
  <2>1. Flags'
    BY DEF Flags
  <2>2. Places'
    BY Bounds DEF Flags, Places
  <2>3. StagesOK' /\ ThreadsOK'
    BY DEF Flags, Places, StagesOK, ThreadsOK, DeviceOK
  <2>4. DeviceOK' /\ ModuleOK'
    BY DEF Flags, Places, StagesOK, ThreadsOK, DeviceOK, ModuleOK
  <2> QED BY <2>1, <2>2, <2>3, <2>4
<1>2. CASE Sim /\ (GetModule \/ STNew)
  <2> USE <1>2 DEF Sim, GetModule, STNew
  <2>1. Flags'
    BY DEF Flags
  <2>2. Places'
    BY Bounds DEF Flags, Places
  <2>3. StagesOK' /\ ThreadsOK'
    BY DEF Flags, Places, StagesOK, ThreadsOK, DeviceOK
  <2>4. DeviceOK' /\ ModuleOK'
    BY DEF Flags, Places, StagesOK, ThreadsOK, DeviceOK, ModuleOK
  <2> QED BY <2>1, <2>2, <2>3, <2>4
<1>3. CASE Sim /\ STUpdate
  <2> USE <1>3 DEF Sim, STUpdate, SimUpdates
  <2>1. Flags'
    BY ZenonT(40) DEF Flags
  <2>2. Places'
    BY Bounds DEF Flags, Places
  <2>3. StagesOK' /\ ThreadsOK'
    BY DEF Flags, Places, StagesOK, ThreadsOK, DeviceOK
  <2>4. DeviceOK' /\ ModuleOK'
    BY DEF Flags, Places, StagesOK, ThreadsOK, DeviceOK, ModuleOK
  <2> QED BY <2>1, <2>2, <2>3, <2>4
<1>4. CASE Module
  <2> USE <1>4 DEF Module, ModuleShutsDown, GetDevice, QueueDeviceReset,
         ModuleQueuesReset
  <2>1. Flags'
    BY ZenonT(40) DEF Flags
  <2>2. Places'
    BY Bounds DEF Flags, Places
  <2>3. StagesOK' /\ ThreadsOK'
    BY DEF Flags, Places, StagesOK, ThreadsOK, DeviceOK
  <2>4. DeviceOK' /\ ModuleOK'
    BY DEF Flags, Places, StagesOK, ThreadsOK, DeviceOK, ModuleOK
  <2> QED BY <2>1, <2>2, <2>3, <2>4
<1> QED
  BY <1>1, <1>2, <1>3, <1>4 DEF Sim

\* The main thread in Run, and what comes from outside.
LEMMA LoopStep ==
    ASSUME IInv, Pump(AnswerSent) \/ Pump(Close) \/ Finish \/ World
    PROVE  IInv'
<1> USE DEF IInv, BeforeRun, AfterRun, loopVars, deviceVars, renderVars, closeVars,
       simVars, flagVars, hostVars
<1>1. CASE Pump(AnswerSent)
  <2> USE <1>1 DEF Pump, AnswerSent
  <2>1. Flags'
    BY ZenonT(40) DEF Flags
  <2>2. Places'
    BY Bounds DEF Flags, Places
  <2>3. StagesOK' /\ ThreadsOK'
    BY DEF Flags, Places, StagesOK, ThreadsOK, DeviceOK
  <2>4. DeviceOK' /\ ModuleOK'
    BY DEF Flags, Places, StagesOK, ThreadsOK, DeviceOK, ModuleOK
  <2> QED BY <2>1, <2>2, <2>3, <2>4
<1>2. CASE Pump(Close)
  <2> USE <1>2 DEF Pump, Close, Pumping
  <2>1. Flags'
    <3>1. CASE internal
      BY ZenonT(40), <3>1 DEF Flags
    <3>2. CASE ~(internal)
      BY <3>2 DEF Flags
    <3> QED BY <3>1, <3>2
  <2>2. Places'
    BY Bounds DEF Flags, Places
  <2>3. StagesOK' /\ ThreadsOK'
    BY DEF Flags, Places, StagesOK, ThreadsOK, DeviceOK
  <2>4. DeviceOK' /\ ModuleOK'
    BY DEF Flags, Places, StagesOK, ThreadsOK, DeviceOK, ModuleOK
  <2> QED BY <2>1, <2>2, <2>3, <2>4
<1>3. CASE Finish
  <2> USE <1>3 DEF Finish, DestroyTheWindow, StopSim, RunReturns
  <2>1. Flags'
    BY ZenonT(40) DEF Flags
  <2>2. Places'
    BY Bounds DEF Flags, Places
  <2>3. StagesOK' /\ ThreadsOK'
    BY DEF Flags, Places, StagesOK, ThreadsOK, DeviceOK
  <2>4. DeviceOK' /\ ModuleOK'
    BY DEF Flags, Places, StagesOK, ThreadsOK, DeviceOK, ModuleOK
  <2> QED BY <2>1, <2>2, <2>3, <2>4
<1>4. CASE World /\ UserCloses
  <2> USE <1>4 DEF World, UserCloses
  <2>1. Flags'
    BY DEF Flags
  <2>2. Places'
    BY Bounds DEF Flags, Places
  <2>3. StagesOK' /\ ThreadsOK'
    BY DEF Flags, Places, StagesOK, ThreadsOK, DeviceOK
  <2>4. DeviceOK' /\ ModuleOK'
    BY DEF Flags, Places, StagesOK, ThreadsOK, DeviceOK, ModuleOK
  <2> QED BY <2>1, <2>2, <2>3, <2>4
<1>5. CASE World /\ Minimize
  <2> USE <1>5 DEF World, Minimize
  <2>1. Flags'
    BY DEF Flags
  <2>2. Places'
    BY Bounds DEF Flags, Places
  <2>3. StagesOK' /\ ThreadsOK'
    BY DEF Flags, Places, StagesOK, ThreadsOK, DeviceOK
  <2>4. DeviceOK' /\ ModuleOK'
    BY DEF Flags, Places, StagesOK, ThreadsOK, DeviceOK, ModuleOK
  <2> QED BY <2>1, <2>2, <2>3, <2>4
<1>6. CASE World /\ DeviceRemoved
  <2> USE <1>6 DEF World, DeviceRemoved
  <2>1. Flags'
    BY DEF Flags
  <2>2. Places'
    BY Bounds DEF Flags, Places
  <2>3. StagesOK' /\ ThreadsOK'
    BY DEF Flags, Places, StagesOK, ThreadsOK, DeviceOK
  <2>4. DeviceOK' /\ ModuleOK'
    BY DEF Flags, Places, StagesOK, ThreadsOK, DeviceOK, ModuleOK
  <2> QED BY <2>1, <2>2, <2>3, <2>4
<1> QED
  BY <1>1, <1>2, <1>3, <1>4, <1>5, <1>6 DEF World

\* A fatal error stops threads where they are.
LEMMA FatalStep == ASSUME IInv, FatalError PROVE IInv'
<1>1. /\ UNCHANGED <<device, losses, awaiting, owed, holds, rpc, ret, attempt, sent,
                     mpc, posted, closes, internal, spc, firstFrame, shutdown,
                     runRender, runSim, minimized, stage, module, hasDevice,
                     backBuffer>>
      /\ fatal' \in BOOLEAN
      /\ fatals' \in [Threads -> {"no", "waiting", "panic", "handler"}]
  BY DEF IInv, Flags, Places, FatalError, Fails, TellModuleToPanic, PanicReturns,
     Terminate, loopVars, deviceVars, renderVars, closeVars, simVars, flagVars
<1> QED
  BY <1>1 DEF IInv, Flags, Places, StagesOK, ThreadsOK, DeviceOK, ModuleOK

\* The inductive invariant of the host.
THEOREM HostInvariant == Spec => []IInv
<1>1. ASSUME IInv, [Next]_vars PROVE IInv'
  <2>1. CASE UNCHANGED vars
    BY <1>1, <2>1 DEF vars, loopVars, deviceVars, renderVars, closeVars, simVars,
       flagVars, hostVars, IInv, Flags, Places, StagesOK, ThreadsOK, DeviceOK, ModuleOK
  <2> QED
    BY <1>1, <2>1, MainStep, RenderStep, SimStep, LoopStep, FatalStep DEF Next
<1> QED BY <1>1, InitIInv, PTL DEF Spec

\* What is drawn on or handed out is live and known, and a device is made only
\* when the module has answered for the last one.
THEOREM LiveDevices == Spec => []DevicesAreLive
<1>1. IInv => TypeOK
  BY Bounds DEF IInv, Flags, Places, DeviceOK, TypeOK
<1>2. IInv => DrawsOnLiveDevice
  BY DEF IInv, Flags, DeviceOK, ModuleOK, DrawsOnLiveDevice
<1>3. IInv => ReinitAfterAcknowledgement /\ HandsOutLiveDevices
  BY DEF IInv, DeviceOK, ReinitAfterAcknowledgement, HandsOutLiveDevices
<1> QED BY <1>1, <1>2, <1>3, HostInvariant, PTL DEF DevicesAreLive

-----------------------------------------------------------------------------
(* The host implements ModuleProtocol.                                     *)

\* The module has been told nothing new.
Quiet == UNCHANGED <<stage, module, spc, firstFrame, rpc, holds, backBuffer>>

LEMMA QuietStep == ASSUME Quiet PROVE UNCHANGED Protocol!vars
BY DEF Quiet, Protocol!vars

\* Before the threads run nothing of the module is there, whatever WinMain
\* is about and also when there are back buffers already.
LEMMA MainCalls == ASSUME IInv, Main PROVE [Protocol!Next]_(Protocol!vars)
<1> USE DEF IInv
<1>1. CASE StartUp /\ ~InitWindow
  <2>1. /\ stage \in BeforeRun /\ stage' \in BeforeRun
        /\ UNCHANGED <<module, spc, firstFrame, rpc, holds, backBuffer>>
    BY <1>1 DEF StartUp, RegisterBaseComponents, LoadGame, RegisterAdditionalComponents,
       LoadModuleLibrary, MountFileSystems, InitGraphics, Builds, Initialises, BeforeRun,
       loopVars, deviceVars, renderVars, simVars
  <2> QED BY <2>1 DEF Protocol!vars, BeforeRun
<1>2. CASE InitWindow /\ device' = "up"
  <2> QED
    BY <1>2 DEF InitWindow, StagesOK, BeforeRun, Protocol!vars, Protocol!Next,
       Protocol!RTBackBufferChange, renderVars, simVars
<1>3. CASE InitWindow /\ UNCHANGED backBuffer
  BY <1>3 DEF InitWindow, StagesOK, BeforeRun, Protocol!vars, renderVars, simVars
<1>4. CASE RTShutDown
  BY <1>4 DEF RTShutDown, StagesOK, ThreadsOK, Places, BeforeRun, AfterRun, Protocol!vars,
     Protocol!Next, Protocol!RTShutDown, renderVars, simVars
<1>5. CASE UninitD3D
  BY <1>5 DEF UninitD3D, Protocol!vars, renderVars, simVars
<1>6. CASE ReleaseHost
  BY <1>6 DEF ReleaseHost, StagesOK, ThreadsOK, Places, BeforeRun, AfterRun, Protocol!vars,
     Protocol!Next, Protocol!Released, loopVars, deviceVars, renderVars, simVars
<1> QED BY <1>1, <1>2, <1>3, <1>4, <1>5, <1>6 DEF Main, StartUp, InitWindow

\* The sim thread's place as the module knows it, which the render thread
\* leaves alone.
LEMMA RenderCallsStep == ASSUME IInv, Render PROVE [Protocol!Next]_(Protocol!vars)
<1> USE DEF IInv, deviceVars, renderVars, simVars, flagVars, HostKeeps
<1>1. /\ stage = "run" /\ RenderCalls
      /\ UNCHANGED <<stage, module, spc, firstFrame>>
  BY DEF Render, RenderCalls, RTBeforeFirstDraw, FirstDraw, RTDeviceReset, DeviceReset,
     RTDraw, Draw, RTAfterPresent, Present, RTBeforeBackBufferChange, BackBufferChange,
     RTBackBufferChange, ResizeBackBuffer, RTBeforeDeviceReset, TellModule, ForgetDevice,
     RTSetDevices, InitDevice, LoopTop, BeginFrame, ResetTimesOut, Uninit
<1>2. CASE RTBeforeFirstDraw
  <2>1. module = "ready"
    BY <1>1, <1>2 DEF RTBeforeFirstDraw, FirstDraw, Places, StagesOK, ThreadsOK, AfterRun
  <2> QED
    BY <1>1, <1>2, <2>1 DEF RTBeforeFirstDraw, FirstDraw, Protocol!Next, Protocol!vars,
       Protocol!RTBeforeFirstDraw
<1>3. CASE RTDeviceReset
  BY <1>1, <1>3 DEF RTDeviceReset, DeviceReset, Protocol!Next, Protocol!vars,
     Protocol!RTDeviceReset
<1>4. CASE RTDraw
  BY <1>1, <1>4 DEF RTDraw, Draw, DeviceOK, ModuleOK, Protocol!Next, Protocol!vars,
     Protocol!RTDraw
<1>5. CASE RTAfterPresent
  BY <1>1, <1>5 DEF RTAfterPresent, Present, Prepare, Protocol!Next, Protocol!vars,
     Protocol!RTAfterPresent
<1>6. CASE RTBeforeBackBufferChange /\ rpc' = "resize"
  BY <1>1, <1>6 DEF RTBeforeBackBufferChange, BackBufferChange, ChangesBuffers,
     Protocol!Next, Protocol!vars, Protocol!RTBeforeBackBufferChange
<1>7. CASE RTBeforeBackBufferChange /\ rpc' # "resize"
  BY <1>1, <1>7 DEF RTBeforeBackBufferChange, BackBufferChange, Protocol!vars
<1>8. CASE RTBackBufferChange /\ device = "lost"
  <2>1. /\ rpc \in {"resize", "initResize"} /\ rpc' = "tell"
        /\ UNCHANGED <<holds, backBuffer>>
    BY <1>8 DEF RTBackBufferChange, ResizeBackBuffer, Prepare, Flags
  <2> QED BY <1>1, <2>1 DEF Protocol!vars
<1>9. CASE RTBackBufferChange /\ device # "lost"
  <2>1. /\ rpc \in {"resize", "initResize"} /\ rpc' \in {"frame", "initDone"}
        /\ backBuffer' = TRUE /\ UNCHANGED holds
    BY <1>9 DEF RTBackBufferChange, ResizeBackBuffer, Flags
  <2> QED
    BY <1>1, <2>1 DEF Protocol!Next, Protocol!vars, Protocol!RTBackBufferChange
<1>10. CASE TellModule /\ ChangesBuffers
  BY <1>1, <1>10 DEF TellModule, ChangesBuffers, Protocol!Next, Protocol!vars,
     Protocol!RTBeforeDeviceReset
<1>11. CASE RTSetDevices /\ rpc' = "initResize"
  BY <1>1, <1>11 DEF RTSetDevices, InitDevice, ChangesBuffers, Protocol!Next,
     Protocol!vars, Protocol!RTBeforeBackBufferChange
<1>12. CASE RTSetDevices /\ rpc' # "initResize"
  BY <1>1, <1>12 DEF RTSetDevices, InitDevice, Protocol!vars
<1>13. CASE ForgetDevice /\ UNCHANGED backBuffer
  BY <1>1, <1>13 DEF ForgetDevice, Protocol!vars
<1>14. CASE (LoopTop \/ BeginFrame \/ ResetTimesOut \/ Uninit) /\ HostKeeps
  <2>1. /\ rpc \notin {"start", "present"} /\ rpc' \notin {"start", "present"}
        /\ UNCHANGED <<holds, backBuffer>>
    BY <1>14 DEF LoopTop, BeginFrame, Prepare, ResetTimesOut, Uninit, Places
  <2> QED BY <1>1, <2>1 DEF Protocol!vars
<1> QED
  BY <1>1, <1>2, <1>3, <1>4, <1>5, <1>6, <1>7, <1>8, <1>9, <1>10, <1>11, <1>12, <1>13,
     <1>14
  DEF RenderCalls, RTBeforeDeviceReset

\* The sim thread: STNew begins when the module is there, before the others know.
LEMMA SimCalls == ASSUME IInv, Sim PROVE [Protocol!Next]_(Protocol!vars)
<1> USE DEF IInv, loopVars, deviceVars, renderVars, closeVars, simVars, flagVars,
            hostVars
<1>1. CASE SimStarts /\ UNCHANGED hostVars
  BY <1>1 DEF SimStarts, ThreadsOK, Protocol!vars
<1>2. CASE GetModule
  BY <1>2 DEF GetModule, ThreadsOK, Protocol!Next, Protocol!vars, Protocol!STNew
<1>3. CASE STNew
  BY <1>3 DEF STNew, Protocol!vars
<1>4. CASE STUpdate /\ runSim
  BY <1>4 DEF STUpdate, SimUpdates, ThreadsOK, Flags, Protocol!Next, Protocol!vars,
     Protocol!STUpdate
<1>5. CASE STUpdate /\ ~runSim
  <2>1. ~firstFrame
    BY <1>5 DEF STUpdate, SimUpdates, ThreadsOK
  <2> QED
    BY <1>5, <2>1 DEF STUpdate, SimUpdates, Protocol!Next, Protocol!vars,
       Protocol!STUpdate
<1> QED BY <1>1, <1>2, <1>3, <1>4, <1>5 DEF Sim

\* What the module is not told of.
LEMMA UntoldSteps ==
    ASSUME \/ Module \/ Pump(AnswerSent) \/ Pump(Close) \/ Finish
           \/ FatalError \/ World \/ UNCHANGED vars
    PROVE  UNCHANGED Protocol!vars
<1>1. Quiet
  BY DEF Quiet, Module, ModuleShutsDown, GetDevice, QueueDeviceReset, ModuleQueuesReset,
     Pump, AnswerSent, Close, Finish, DestroyTheWindow, StopSim, RunReturns, FatalError,
     Fails, TellModuleToPanic, PanicReturns, Terminate, World, UserCloses, Minimize,
     DeviceRemoved, vars, loopVars, deviceVars, renderVars, closeVars, simVars, flagVars,
     hostVars
<1> QED BY <1>1, QuietStep

\* At most one thread tells the module to panic.
LEMMA OnePanics == Spec => []PanicsOnce
<1>1. Init => PanicsOnce
  BY DEF Init, PanicsOnce
<1>2. ASSUME IInv, PanicsOnce, [Next]_vars PROVE PanicsOnce'
  <2> USE DEF IInv, Places, PanicsOnce
  <2>1. CASE UNCHANGED fatals
    BY <1>2, <2>1
  <2>2. ASSUME NEW t \in Threads, fatals' = [fatals EXCEPT ![t] = "waiting"]
        PROVE  PanicsOnce'
    BY <1>2, <2>2
  <2>3. ASSUME NEW t \in Threads, TellModuleToPanic(t) PROVE PanicsOnce'
    BY <1>2, <2>3 DEF TellModuleToPanic, MayPanic
  <2>4. ASSUME NEW t \in Threads, PanicReturns(t) PROVE PanicsOnce'
    BY <1>2, <2>4 DEF PanicReturns
  <2>5. CASE Main \/ Sim \/ Module \/ Pump(AnswerSent) \/ Pump(Close) \/ Finish \/ World
             \/ UNCHANGED vars
    <3>1. UNCHANGED fatals
      BY <2>5 DEF Main, StartUp, RegisterBaseComponents, LoadGame,
         RegisterAdditionalComponents, LoadModuleLibrary, MountFileSystems, InitGraphics,
         InitWindow, Builds, Initialises, RTShutDown, UninitD3D, ReleaseHost, Sim,
         GetModule, STNew, STUpdate, Module, GetDevice, QueueDeviceReset, Pump, Finish,
         World, vars, hostVars
    <3> QED BY <2>1, <3>1
  <2>6. CASE Render
    BY <2>1, <2>2, <2>6 DEF Render, Threads
  <2>7. CASE FatalError
    BY <2>1, <2>2, <2>3, <2>4, <2>7 DEF FatalError, Fails, Terminate
  <2> QED BY <1>2, <2>5, <2>6, <2>7 DEF Next
<1> QED BY <1>1, <1>2, HostInvariant, PTL DEF Spec

\* The methods of the module are called in the order that interface IMGDFModule
\* promises, and one thread calls Panic (run render_loop).
THEOREM CalledAsPromised == Spec => ModuleIsCalledAsPromised
<1>1. Init => Protocol!Init
  <2>1. Init => /\ module = "none" /\ stage = "base" /\ rpc = "start"
                /\ backBuffer = FALSE /\ holds = FALSE
    BY DEF Init, LoopInit
  <2>2. stage = "base" => ~(stage \in {"shut", "uninit", "released"})
    OBVIOUS
  <2>3. rpc = "start" => ~(rpc = "present")
    OBVIOUS
  <2> QED BY <2>1, <2>2, <2>3 DEF Protocol!Init
<1>2. ASSUME IInv, [Next]_vars PROVE [Protocol!Next]_(Protocol!vars)
  BY <1>2, MainCalls, RenderCallsStep, SimCalls, UntoldSteps DEF Next
<1>3. Spec => Protocol!Spec
  BY <1>1, <1>2, HostInvariant, PTL DEF Spec, Protocol!Spec
<1> QED BY <1>3, OnePanics DEF ModuleIsCalledAsPromised, ImplementsModuleProtocol

-----------------------------------------------------------------------------
(* The swap chain and the displays: the same loop, as module Display has it. *)

\* A display in HDR has another white level than one that is not: all that
\* SetOutputProperties compares.
WhiteTellsHDR == \A o \in Outputs : o.hdr => o.white # 1000

\* The sets of levels that the back ends report.
AllLevelSets == LevelSets \union {{1}}

\* A device has all the levels below its highest that any device has: all that
\* LoadPreferences compares.
LevelsNest ==
    \A a, b \in AllLevelSets : \A l \in a : l \in b \/ \A m \in b : l > m

Keys == {"full", "hdr", "generated", "level", "mode"}

Sound(w) ==
    /\ w = [k \in Keys |-> w[k]]
    /\ w.full \in FullScreenDescs /\ w.generated \in 0 .. MostGenerated
    /\ w.level \in UNION AllLevelSets

\* A change, or the preferences: each setting may be there or not.
SoundChange(c) ==
    /\ c = [k \in Keys |-> c[k]]
    /\ c.full \subseteq FullScreenDescs /\ c.generated \subseteq 0 .. MostGenerated
    /\ c.level \subseteq UNION AllLevelSets

\* The settings, the open change, the preferences and what is known of the
\* device.
SettingsOK ==
    /\ Sound(want) /\ most \in 0 .. MostGenerated
    /\ SoundChange(change) /\ SoundChange(saved)
    /\ {new, current} \subseteq FullScreenDescs
    /\ levels \in AllLevelSets \union {{}}
    /\ changePending \in BOOLEAN

\* The types of the render thread and of the window.
LoopOK ==
    /\ started \in BOOLEAN /\ failed \in BOOLEAN
    /\ stale \in BOOLEAN /\ fallback \in BOOLEAN
    /\ queue \in Seq({"display", "resize"})
    /\ style \in {"framed", "borderless"} /\ gpu \in {"up", "lost", "none"}
    /\ place \in {"init", "settings", "support", "preferences", "before", "read",
                  "generation", "mode", "level", "current", "create", "apply",
                  "resize", "frame", "top", "decide", "style", "uninit", "release"}
    /\ failed => place \in {"apply", "resize"}

\* What is known of the displays is up to date when no message is left.
SeenOK ==
    /\ output \in Outputs
    /\ seen = NoOutput \/ \E o \in Outputs : seen = Described(o)
    /\ place # "init" /\ queue = <<>> /\ ~stale => seen = Described(output)

\* The places before the level is loaded, those before the device's levels are
\* known among them.
BeforeLevels == {"init", "settings"}
BeforeLevel == BeforeLevels \union {"support", "preferences", "generation", "mode", "level"}

\* Where the level is one of the device; that of an open change always is.
LevelsOK ==
    /\ change.level \subseteq levels
    /\ place \notin BeforeLevels => levels \in AllLevelSets
    /\ place \notin BeforeLevel => want.level \in levels
    /\ place \in {"current", "create"} => desc.level \in levels

\* The places at which there is a chain that is not about to be replaced.
HasChain == {"apply", "resize", "frame", "top", "decide"}

IsChain(c) ==
    \/ c = NoChain
    \/ /\ c = [made |-> TRUE, full |-> c.full, desc |-> c.desc,
               generated |-> c.generated]
       /\ c.full \in BOOLEAN

\* Where a chain can be in full screen, and what it was made of.
ChainOK ==
    /\ IsChain(chain)
    /\ chain.full => /\ Exclusive(current)
                     /\ place \in {"resize", "frame", "top", "decide", "uninit"}
    /\ place \in HasChain /\ ~failed => chain.made

\* Up to date with the settings, unless a change is pending.
FollowsOK ==
    ~changePending /\ ~failed =>
       /\ place \in {"current", "create"} => desc = SwapChainDesc
       /\ place \in HasChain =>
             chain.desc = SwapChainDesc /\ chain.generated = want.generated

DisplayInv == SettingsOK /\ LoopOK /\ SeenOK /\ LevelsOK /\ ChainOK /\ FollowsOK

\* The messages of _pendingDisplayChanges.
LEMMA Messages ==
  ASSUME NEW q \in Seq({"display", "resize"})
  PROVE  /\ q # <<>> => Tail(q) \in Seq({"display", "resize"})
         /\ \A m \in {"display", "resize"} :
                Append(q, m) \in Seq({"display", "resize"}) /\ Append(q, m) # <<>>
OBVIOUS

\* A chain goes into full screen or leaves it.
LEMMA FullScreenOf ==
  ASSUME NEW c, IsChain(c), c.made, NEW f \in BOOLEAN, NEW e,
         e = [c EXCEPT !.full = f]
  PROVE  /\ IsChain(e) /\ e.made /\ e.full = f
         /\ e.desc = c.desc /\ e.generated = c.generated
<1>1. c = [made |-> TRUE, full |-> c.full, desc |-> c.desc, generated |-> c.generated]
  BY DEF IsChain, NoChain
<1>2. PICK d, g : d = c.desc /\ g = c.generated
  OBVIOUS
<1>3. e = [made |-> TRUE, full |-> f, desc |-> d, generated |-> g]
  BY <1>1, <1>2
<1>4. e.made /\ e.full = f /\ e.desc = d /\ e.generated = g
  BY <1>3
<1> QED BY <1>2, <1>3, <1>4 DEF IsChain

\* A chain that is in full screen has been made.
LEMMA FullIsMade == ASSUME NEW c, IsChain(c), c.full PROVE c.made = TRUE
BY DEF IsChain, NoChain

\* Where the render thread is, and whether its chain is in full screen.
LEMMA LoopSteps ==
  ASSUME LoopOK, ChainOK, [DisplayNext]_(displayVars)
  PROVE  LoopOK' /\ ChainOK'
<1> USE DEF LoopOK, Goto, graphicsVars, countVars
<1>0. queue \in Seq({"display", "resize"})
  OBVIOUS
<1>1. CASE RTInit \/ SetDevices \/ InitWindowMode
  <2>1. /\ UNCHANGED <<queue, chain, current, failed, fallback, started>> /\ ~failed
        /\ stale' \in {stale, FALSE} /\ gpu' \in {gpu, "up"}
        /\ style' \in {style, "borderless"}
        /\ place \in BeforeLevel \union {"before"}
        /\ place' \in BeforeLevel \union {"before", "read"}
    <3> USE DEF BeforeLevel, BeforeLevels
    <3>1. CASE RTInit
      BY <3>1 DEF RTInit
    <3>2. CASE SetDevices
      BY <3>2 DEF SetDevices
    <3>3. CASE InitWindowMode
      BY <3>3 DEF InitWindowMode
    <3> QED BY <1>1, <3>1, <3>2, <3>3
  <2>2. place \notin HasChain \union {"uninit"} /\ place' \notin HasChain \union {"uninit"}
    BY <2>1 DEF HasChain, BeforeLevel, BeforeLevels
  <2>3. ChainOK'
    BY <2>1, <2>2 DEF ChainOK, HasChain
  <2>4. place' \in {"init", "settings", "support", "preferences", "generation", "mode",
                    "level", "before", "read"}
    BY <2>1 DEF BeforeLevel, BeforeLevels
  <2>5. /\ started' \in BOOLEAN /\ failed' = FALSE /\ stale' \in BOOLEAN
        /\ fallback' \in BOOLEAN /\ queue' \in Seq({"display", "resize"})
        /\ style' \in {"framed", "borderless"} /\ gpu' \in {"up", "lost", "none"}
    BY <1>0, <2>1
  <2>6. LoopOK'
    BY ONLY <2>4, <2>5 DEF LoopOK
  <2> QED BY <2>3, <2>6
<1>2. CASE LookAtDisplays
  <2>1. /\ UNCHANGED <<chain, current, failed, fallback, style, gpu>> /\ ~failed
        /\ started' = TRUE /\ stale' = FALSE
        /\ place = "top" /\ place' \in {"top", "decide", "resize"}
        /\ queue' = IF queue = <<>> THEN queue ELSE Tail(queue)
    BY <1>2 DEF LookAtDisplays
  <2>2. queue' \in Seq({"display", "resize"})
    BY <1>0, <2>1, Messages
  <2> QED BY <2>1, <2>2 DEF ChainOK, HasChain
<1>3. CASE BeginChange
  <2>1. /\ UNCHANGED <<queue, current, failed, fallback, style, gpu, started, stale>>
        /\ ~failed /\ place = "decide" /\ place' \in {"style", "frame"}
        /\ place' = "style" =>
             chain' = IF LeavesFullScreen THEN [chain EXCEPT !.full = FALSE] ELSE chain
        /\ place' = "frame" => chain' = chain
    BY <1>3 DEF BeginChange
  <2>2. place' = "style" => IsChain(chain') /\ ~chain'.full
    BY <2>1, FullIsMade, FullScreenOf DEF LeavesFullScreen, ChainOK
  <2> QED BY <2>1, <2>2 DEF ChainOK, HasChain
<1>4. CASE ChangeStyle \/ ReadSettings \/ ReadCurrent
  <2>1. /\ UNCHANGED <<queue, chain, failed, fallback, gpu, started, stale>>
        /\ ~failed /\ place \in {"style", "read", "current"}
        /\ place' \in {"read", "current", "create"}
        /\ style' \in {"framed", "borderless"}
    BY <1>4 DEF ChangeStyle, ReadSettings, ReadCurrent
  <2> QED BY <2>1 DEF ChainOK, HasChain
<1>5. CASE CreateSwapChain
  <2>1. /\ UNCHANGED <<queue, current, gpu, started, stale, style>>
        /\ ~failed /\ place = "create" /\ place' \in {"resize", "apply"}
        /\ fallback' = FALSE
        /\ \/ failed' = TRUE /\ chain' = chain
           \/ /\ chain' = [made |-> TRUE, full |-> FALSE, desc |-> desc,
                           generated |-> want.generated]
              /\ failed' = failed
    BY <1>5 DEF CreateSwapChain
  <2>2. ~chain.full
    BY <2>1 DEF ChainOK
  <2>3. IsChain(chain') /\ ~chain'.full /\ (~failed' => chain'.made)
    <3>1. CASE failed' = TRUE /\ chain' = chain
      BY <2>2, <3>1 DEF ChainOK
    <3>2. CASE chain' = [made |-> TRUE, full |-> FALSE, desc |-> desc,
                         generated |-> want.generated]
      <4>1. PICK d, g : d = desc /\ g = want.generated
        OBVIOUS
      <4>2. PICK c : c = [made |-> TRUE, full |-> FALSE, desc |-> d, generated |-> g]
        OBVIOUS
      <4>3. IsChain(c) /\ ~c.full /\ c.made
        BY <4>2 DEF IsChain
      <4> QED BY <3>2, <4>1, <4>2, <4>3
    <3> QED BY <2>1, <3>1, <3>2
  <2>4. ChainOK'
    BY <2>1, <2>3 DEF ChainOK
  <2> QED BY <2>1, <2>4
<1>6. CASE ApplyFullscreen
  <2>1. /\ UNCHANGED <<queue, current, gpu, started, stale, failed>>
        /\ ~failed /\ place = "apply"
        /\ \/ /\ place' = "resize" /\ UNCHANGED <<style, fallback>>
              /\ chain' = [chain EXCEPT !.full = Exclusive(current)]
           \/ /\ place' = "read" /\ style' \in {style, "framed"} /\ fallback' = TRUE
              /\ chain' = chain
    BY <1>6 DEF ApplyFullscreen
  <2>2. chain.made /\ ~chain.full
    BY <2>1 DEF ChainOK, HasChain
  <2>3. CASE chain' = chain /\ place' = "read"
    BY <2>1, <2>2, <2>3 DEF ChainOK, HasChain
  <2>4. CASE chain' = [chain EXCEPT !.full = Exclusive(current)] /\ place' = "resize"
    <3>1. Exclusive(current) \in BOOLEAN
      BY DEF Exclusive
    <3>2. IsChain(chain') /\ chain'.made /\ chain'.full = Exclusive(current)
      BY <2>2, <2>4, <3>1, FullScreenOf DEF ChainOK
    <3>3. ChainOK'
      BY <2>1, <2>4, <3>2 DEF ChainOK, HasChain, Exclusive
    <3> QED BY <2>1, <2>4, <3>3
  <2> QED BY <2>1, <2>3, <2>4
<1>7. CASE ResizeAndDraw
  <2>1. /\ UNCHANGED <<queue, current, gpu, started, stale, failed, chain, style,
                       fallback>>
        /\ ~failed /\ place \in {"resize", "frame"}
        /\ place' \in {"frame", "top", "uninit"}
    BY <1>7 DEF ResizeAndDraw
  <2> QED BY <2>1 DEF ChainOK, HasChain
<1>8. CASE LeaveForUninit
  <2>1. /\ UNCHANGED <<queue, current, gpu, started, stale, failed, style, fallback>>
        /\ ~failed /\ place = "uninit" /\ place' = "release"
        /\ chain' = IF LeavesFullScreen THEN [chain EXCEPT !.full = FALSE] ELSE chain
    BY <1>8 DEF LeaveForUninit
  <2>2. IsChain(chain') /\ ~chain'.full
    BY <2>1, FullIsMade, FullScreenOf DEF LeavesFullScreen, ChainOK
  <2> QED BY <2>1, <2>2 DEF ChainOK, HasChain
<1>9. CASE RTUninit
  <2>1. /\ UNCHANGED <<queue, current, started, stale, failed, style, fallback>>
        /\ ~failed /\ place = "release" /\ place' = "init"
        /\ gpu' = "none" /\ chain' = NoChain
    BY <1>9 DEF RTUninit
  <2>2. IsChain(chain') /\ ~chain'.full
    BY <2>1 DEF IsChain, NoChain
  <2> QED BY <2>1, <2>2 DEF ChainOK, HasChain
<1>10. CASE ModuleActs \/ LosesDevice
  <2>1. /\ UNCHANGED <<queue, current, place, started, stale, failed, style, fallback,
                       chain>>
        /\ gpu' \in {gpu, "lost"}
    BY <1>10 DEF ModuleActs, LosesDevice, placeVars
  <2> QED BY <2>1 DEF ChainOK, HasChain
<1>11. CASE DisplayChanges \/ UserResizes
  <2>1. /\ UNCHANGED <<current, place, started, failed, style, fallback, chain, gpu>>
        /\ stale' \in {stale, TRUE}
        /\ queue' = queue \/ \E m \in {"display", "resize"} : queue' = Append(queue, m)
    BY <1>11 DEF DisplayChanges, UserResizes, Pushed, placeVars
  <2>2. queue' \in Seq({"display", "resize"})
    BY <1>0, <2>1, Messages
  <2> QED BY ZenonT(40), <2>1, <2>2 DEF ChainOK, HasChain
<1>12. CASE LosesFullScreen
  <2>1. /\ UNCHANGED <<queue, current, place, started, stale, failed, style, fallback,
                       gpu>>
        /\ chain.full /\ chain' = [chain EXCEPT !.full = FALSE]
    BY <1>12 DEF LosesFullScreen, placeVars
  <2>2. IsChain(chain') /\ chain'.made /\ ~chain'.full
    BY <2>1, FullIsMade, FullScreenOf DEF ChainOK
  <2> QED BY ZenonT(40), <2>1, <2>2 DEF ChainOK
<1>13. CASE UNCHANGED displayVars
  <2>1. UNCHANGED <<queue, current, place, started, stale, failed, style, fallback,
                    gpu, chain>>
    BY <1>13 DEF displayVars, placeVars
  <2> QED BY <2>1 DEF ChainOK
<1> QED BY <1>1, <1>2, <1>3, <1>4, <1>5, <1>6, <1>7, <1>8, <1>9, <1>10, <1>11, <1>12,
           <1>13 DEF DisplayNext, RenderThread

LEMMA LoopBegins == DisplayInit => LoopOK /\ ChainOK
<1> SUFFICES ASSUME DisplayInit PROVE LoopOK /\ ChainOK
  OBVIOUS
<1>1. LoopOK
  <2>1. <<>> \in Seq({"display", "resize"})
    OBVIOUS
  <2>2. /\ stale = FALSE /\ started = FALSE /\ fallback = FALSE /\ failed = FALSE
        /\ queue = <<>> /\ place = "init" /\ style = "framed" /\ gpu = "none"
    BY DEF DisplayInit
  <2> QED BY <2>1, <2>2 DEF LoopOK
<1>2. IsChain(chain) /\ ~chain.full /\ place = "init"
  BY DEF DisplayInit, IsChain, NoChain
<1> QED BY <1>1, <1>2 DEF ChainOK, HasChain

\* "d3d has to be in windowed mode to cleanup correctly": no chain is released
\* in full screen, whatever the module, the user and other programs do between
\* the steps of the render thread.
THEOREM ReleasedInWindow == DisplaySpec => []ReleasedWindowed
<1>1. LoopOK /\ ChainOK => ReleasedWindowed
  BY DEF ChainOK, ReleasedWindowed
<1> QED BY <1>1, LoopBegins, LoopSteps, PTL DEF DisplaySpec

\* The lesser of two numbers.
LEMMA Lesser ==
  ASSUME NEW a \in Nat, NEW b \in Nat
  PROVE  /\ Min({a, b}) \in Nat /\ Min({a, b}) <= b
         /\ Min({a, b}) = IF a <= b THEN a ELSE b
<1> DEFINE m == IF a <= b THEN a ELSE b
<1>1. m \in {a, b} /\ m <= a /\ m <= b
  OBVIOUS
<1>2. \A x \in {a, b} : (\A y \in {a, b} : x <= y) => x = m
  BY <1>1
<1>3. Min({a, b}) = CHOOSE x \in {a, b} : \A y \in {a, b} : x <= y
  BY DEF Min
<1>4. Min({a, b}) = m
  BY <1>1, <1>2, <1>3
<1> QED BY <1>1, <1>4

\* The level of a device that LoadPreferences makes of another's.
LEMMA SupportedLevel ==
  ASSUME LevelsNest, levels \in AllLevelSets,
         NEW l \in UNION AllLevelSets
  PROVE  Supported(l) \in levels /\ Max(levels) \in levels
<1>1. PICK ls \in AllLevelSets : l \in ls
  OBVIOUS
<1>2. \A set \in AllLevelSets : set \subseteq Nat /\ \E top \in set : \A k \in set : k <= top
  BY OutputsAssumption DEF AllLevelSets, OutputsAssumption
<1>3. PICK set \in AllLevelSets : set = levels
  OBVIOUS
<1>4. PICK top \in set : \A k \in set : k <= top
  BY <1>2
<1>5. \A x \in set : (\A y \in set : x >= y) => x = top
  BY <1>2, <1>4
<1>6. \A y \in set : top >= y
  BY <1>2, <1>4
<1>7. Max(set) = top
  <2>1. Max(set) = CHOOSE x \in set : \A y \in set : x >= y
    BY DEF Max
  <2> QED BY <1>4, <1>5, <1>6, <2>1
<1>8. l \in Nat /\ top \in Nat
  BY <1>1, <1>2, <1>4
<1>9. Supported(l) = IF l <= top THEN l ELSE top
  BY <1>3, <1>7, <1>8, Lesser DEF Supported
<1>10. l \in set \/ l > top
  BY <1>1, <1>4 DEF LevelsNest
<1> QED BY <1>3, <1>4, <1>7, <1>8, <1>9, <1>10

\* What is given, or else what there was, is of the set that both are of.
LEMMA GivenIn ==
  ASSUME NEW S, NEW optional, optional \subseteq S, NEW old, old \in S
  PROVE  Given(optional, old) \in S
BY DEF Given

\* A change of one setting makes settings.
LEMMA ChangedSettings ==
  ASSUME NEW w, Sound(w), NEW v,
         \/ \E f \in FullScreenDescs : v = [w EXCEPT !.full = f]
         \/ \E h : v = [w EXCEPT !.hdr = h]
         \/ \E n \in 0 .. MostGenerated : v = [w EXCEPT !.generated = n]
         \/ \E l \in UNION AllLevelSets : v = [w EXCEPT !.level = l]
         \/ \E m : v = [w EXCEPT !.mode = m]
  PROVE  Sound(v)
BY DEF Sound, Keys

\* A setter makes a change.
LEMMA SoundSetter ==
  ASSUME NEW c, SoundChange(c), NEW d,
         \/ \E f \in FullScreenDescs : d = [c EXCEPT !.full = {f}]
         \/ \E h : d = [c EXCEPT !.hdr = h]
         \/ \E n \in 0 .. MostGenerated : d = [c EXCEPT !.generated = {n}]
         \/ \E l \in UNION AllLevelSets : d = [c EXCEPT !.level = {l}]
         \/ \E m : d = [c EXCEPT !.mode = m]
  PROVE  /\ SoundChange(d)
         /\ d.level = c.level \/ \E l : d = [c EXCEPT !.level = {l}] /\ d.level = {l}
BY DEF SoundChange, Keys

\* So is the change that gives nothing.
LEMMA NothingIsSound == SoundChange(NoChange) /\ NoChange.level = {}
BY DEF SoundChange, NoChange, Keys

\* The displays' modes and properties, as they are known.
LEMMA HDRSeen ==
  ASSUME WhiteTellsHDR, SeenOK, NEW o \in Outputs,
         Described(o).white = seen.white
  PROVE  Described(o).hdr = seen.hdr
<1>1. \A p \in Outputs : /\ Described(p).hdr = p.hdr
                         /\ Described(p).white = IF p.hdr THEN p.white ELSE 1000
                         /\ p.hdr \in BOOLEAN
  BY OutputsAssumption DEF Described, OutputsAssumption
<1>2. \A p \in Outputs : Described(p).hdr = (Described(p).white # 1000)
  BY <1>1 DEF WhiteTellsHDR
<1>3. seen.hdr = (seen.white # 1000)
  <2>1. CASE seen = NoOutput
    <3>1. NoOutput.hdr = FALSE /\ NoOutput.white = 1000
      BY DEF NoOutput
    <3> QED BY <2>1, <3>1
  <2>2. CASE \E p \in Outputs : seen = Described(p)
    BY <1>2, <2>2
  <2> QED BY <2>1, <2>2 DEF SeenOK
<1> QED BY <1>2, <1>3

\* SetFullscreen leaves all else of the settings.
LEMMA FullscreenSet ==
  ASSUME SettingsOK, NEW f \in FullScreenDescs, SetFullscreen(f)
  PROVE  /\ Sound(want') /\ want'.generated = want.generated
         /\ want'.level = want.level /\ changePending' = TRUE
         /\ UNCHANGED <<change, seen, levels, most, saved>>
<1>1. want' = [want EXCEPT !.full = f] /\ Sound(want)
  BY DEF SetFullscreen, SettingsOK
<1>2. PICK w : w = want'
  OBVIOUS
<1>3. Sound(w)
  BY <1>1, <1>2, ChangedSettings
<1> QED BY <1>1, <1>2, <1>3 DEF SetFullscreen, Sound, Keys

\* So does SetOutputProperties.
LEMMA OutputSet ==
  ASSUME SettingsOK, NEW o \in Outputs, SetOutputProperties(o)
  PROVE  /\ Sound(want') /\ want'.generated = want.generated
         /\ want'.level = want.level /\ want'.full = want.full
         /\ want'.hdr = want.hdr
         /\ changePending' \in BOOLEAN /\ (changePending => changePending')
         /\ seen' = Described(o)
         /\ UNCHANGED <<change, levels, most, saved>>
<1>1. PICK m : want' = [want EXCEPT !.mode = m]
  BY DEF SetOutputProperties
<1>2. Sound(want)
  BY DEF SettingsOK
<1>3. PICK w : w = want'
  OBVIOUS
<1>4. Sound(w)
  BY <1>1, <1>2, <1>3, ChangedSettings
<1>5. changePending' = (changePending \/ Notices(Described(o)))
  BY DEF SetOutputProperties
<1>6. Notices(Described(o)) \in BOOLEAN
  BY DEF Notices
<1> QED BY <1>1, <1>2, <1>3, <1>4, <1>5, <1>6 DEF SetOutputProperties, Sound, Keys,
             SettingsOK

\* What SetOutputProperties doesn't notice makes no other swap chain.
LEMMA Unnoticed ==
  ASSUME WhiteTellsHDR, SettingsOK, SeenOK, NEW o \in Outputs,
         SetOutputProperties(o), ~changePending'
  PROVE  SwapChainDesc' = SwapChainDesc
<1>1. /\ want'.level = want.level /\ want'.full = want.full /\ want'.hdr = want.hdr
      /\ seen' = Described(o)
  BY OutputSet
<1>2. ~Notices(Described(o))
  BY DEF SetOutputProperties
<1>3. seen'.hdr = seen.hdr
  BY <1>1, <1>2, HDRSeen DEF Notices
<1>4. ASSUME Exclusive(want.full) PROVE want'.mode.hdr = want.mode.hdr
  <2>1. PICK modes : modes = Described(o).modes
    OBVIOUS
  <2>2. \A i \in DOMAIN modes :
            SameMode(modes[i], want.mode) => modes[i].hdr = want.mode.hdr
    BY <1>2, <1>4, <2>1 DEF Notices
  <2>3. PICK same : same = {m \in ToSet(modes) : SameMode(m, want.mode)}
    OBVIOUS
  <2>4. \A m \in same : m.hdr = want.mode.hdr
    BY <2>2, <2>3 DEF ToSet
  <2>5. want' = [want EXCEPT !.mode = IF same = {} THEN @ ELSE CHOOSE m \in same : TRUE]
    BY <2>1, <2>3 DEF SetOutputProperties
  <2>6. DOMAIN want = Keys /\ "mode" \in Keys
    BY DEF SettingsOK, Sound, Keys
  <2>7. CASE same = {}
    BY <2>5, <2>6, <2>7
  <2>8. CASE same # {}
    <3>1. (CHOOSE m \in same : TRUE) \in same
      BY <2>8
    <3>2. want'.mode = CHOOSE m \in same : TRUE
      BY <2>5, <2>6, <2>8
    <3> QED BY <2>4, <3>1, <3>2
  <2> QED BY <2>7, <2>8
<1>5. (IF Exclusive(want.full) THEN want.mode.hdr ELSE seen.hdr)'
        = (IF Exclusive(want.full) THEN want.mode.hdr ELSE seen.hdr)
  BY <1>1, <1>3, <1>4 DEF Exclusive
<1> QED BY <1>1, <1>5 DEF SwapChainDesc, Exclusive

\* A change that a module releases: another chain is due if anything is other.
LEMMA ChangeApplied ==
  ASSUME SettingsOK, change.level \subseteq levels, ApplyChange
  PROVE  /\ Sound(want') /\ change' = NoChange
         /\ want'.level = want.level \/ want'.level \in levels
         /\ changePending' \in BOOLEAN /\ (~changePending' => want' = want /\ ~changePending)
         /\ UNCHANGED <<seen, levels, most, saved>>
<1> USE DEF SettingsOK
<1>1. /\ want' = WithChange /\ change' = NoChange
      /\ changePending' = (changePending \/ Schedules)
      /\ UNCHANGED <<seen, levels, most, saved>>
  BY DEF ApplyChange
<1>2. PICK f, h, n, l, m : /\ f = Given(change.full, want.full)
                           /\ h = Given(change.hdr, want.hdr)
                           /\ n = Given(change.generated, want.generated)
                           /\ l = Given(change.level, want.level)
                           /\ m = Given(change.mode, want.mode)
  OBVIOUS
<1>3. PICK w : w = [full |-> f, hdr |-> h, generated |-> n, level |-> l, mode |-> m]
  OBVIOUS
<1>4. want' = w /\ WithChange = w
  BY <1>1, <1>2, <1>3 DEF WithChange
<1>5. f \in FullScreenDescs
  BY <1>2, GivenIn DEF Sound, SoundChange
<1>6. n \in 0 .. MostGenerated
  BY <1>2, GivenIn DEF Sound, SoundChange
<1>7. l \in UNION AllLevelSets /\ (l = want.level \/ l \in levels)
  <2>1. CASE change.level = {}
    BY <1>2, <2>1 DEF Given, Sound
  <2>2. CASE change.level # {}
    <3>1. l \in change.level
      BY <1>2, <2>2 DEF Given
    <3> QED BY <3>1 DEF SoundChange
  <2> QED BY <2>1, <2>2
<1>8. Sound(w) /\ w.level = l
  BY <1>3, <1>5, <1>6, <1>7 DEF Sound, Keys
<1>9. Schedules \in BOOLEAN
  BY DEF Schedules
<1>10. ASSUME ~Schedules PROVE w = want
  <2>1. change.full = {} /\ change.hdr = {} /\ change.level = {} /\ change.mode = {}
    BY <1>10 DEF Schedules
  <2>2. f = want.full /\ h = want.hdr /\ l = want.level /\ m = want.mode
    BY <1>2, <2>1 DEF Given
  <2>3. w.generated = n /\ n = want.generated
    BY <1>3, <1>4, <1>10 DEF Schedules
  <2>4. want = [k \in Keys |-> want[k]]
    BY DEF Sound
  <2> QED BY <1>3, <2>2, <2>3, <2>4 DEF Keys
<1> QED BY <1>1, <1>4, <1>7, <1>8, <1>9, <1>10

\* What the setters, a cancelled change and the preferences leave alone.
LEMMA ChangeOpen ==
  ASSUME SettingsOK, change.level \subseteq levels,
         Setter \/ CancelChange \/ SavePreferences
  PROVE  /\ SoundChange(change') /\ SoundChange(saved') /\ change'.level \subseteq levels
         /\ UNCHANGED <<want, changePending, seen, levels, most>>
<1>1. CASE Setter
  <2>1. SoundChange(change) /\ levels \subseteq UNION AllLevelSets
    BY DEF SettingsOK
  <2>2. 0 .. most \subseteq 0 .. MostGenerated
    BY OutputsAssumption DEF OutputsAssumption, SettingsOK
  <2>3. PICK d : d = change'
    OBVIOUS
  <2>4. \/ \E f \in FullScreenDescs : d = [change EXCEPT !.full = {f}]
        \/ \E h : d = [change EXCEPT !.hdr = h]
        \/ \E n \in 0 .. MostGenerated : d = [change EXCEPT !.generated = {n}]
        \/ \E l \in levels : d = [change EXCEPT !.level = {l}]
        \/ \E m : d = [change EXCEPT !.mode = m]
    BY <1>1, <2>2, <2>3 DEF Setter
  <2>5. SoundChange(d)
    BY <2>1, <2>4, SoundSetter
  <2>6. d.level \subseteq levels
    BY <2>1, <2>4 DEF SoundChange, Keys
  <2> QED BY <1>1, <2>3, <2>5, <2>6 DEF Setter, SettingsOK
<1>2. CASE CancelChange
  BY <1>2, NothingIsSound DEF CancelChange, SettingsOK
<1>3. CASE SavePreferences
  <2>1. PICK f, h, n, l, m : /\ f = want.full /\ h = want.hdr /\ n = want.generated
                             /\ l = want.level /\ m = want.mode.size
    OBVIOUS
  <2>2. PICK p : p = [full |-> {f}, hdr |-> {h}, generated |-> {n}, level |-> {l},
                      mode |-> {m}]
    OBVIOUS
  <2>3. saved' = p
    BY <1>3, <2>1, <2>2 DEF SavePreferences
  <2>4. SoundChange(p)
    BY <2>1, <2>2 DEF SoundChange, SettingsOK, Sound, Keys
  <2> QED BY <1>3, <2>3, <2>4 DEF SavePreferences, SettingsOK
<1> QED BY <1>1, <1>2, <1>3

\* What is loaded before the level is settings.
LEMMA Loaded ==
  ASSUME SettingsOK, LoadFullScreen \/ LoadGeneration \/ LoadMode
  PROVE  /\ Sound(want') /\ SoundChange(saved')
         /\ UNCHANGED <<changePending, change, seen, levels, most>>
<1>1. Sound(want) /\ SoundChange(saved) /\ most \in 0 .. MostGenerated
  BY DEF SettingsOK
<1>2. PICK w : w = want'
  OBVIOUS
<1>3. CASE LoadFullScreen
  <2>1. PICK f, h : f = Given(saved.full, want.full) /\ h = Given(saved.hdr, want.hdr)
    OBVIOUS
  <2>2. f \in FullScreenDescs
    BY <1>1, <2>1, GivenIn DEF Sound, SoundChange
  <2>3. PICK v : v = [want EXCEPT !.full = f]
    OBVIOUS
  <2>4. w = [v EXCEPT !.hdr = h]
    BY <1>1, <1>2, <1>3, <2>1, <2>3 DEF LoadFullScreen, Sound, Keys
  <2>5. Sound(v)
    BY <1>1, <2>2, <2>3, ChangedSettings
  <2>6. Sound(w)
    BY <2>4, <2>5, ChangedSettings
  <2> QED BY <1>1, <1>2, <1>3, <2>6 DEF LoadFullScreen
<1>4. CASE LoadGeneration
  <2>1. PICK g : g = Given(saved.generated, want.generated)
    OBVIOUS
  <2>2. g \in 0 .. MostGenerated
    BY <1>1, <2>1, GivenIn DEF Sound, SoundChange
  <2>3. MostGenerated \in Nat
    BY OutputsAssumption DEF OutputsAssumption
  <2>4. PICK n : n = Min({g, most})
    OBVIOUS
  <2>5. n \in 0 .. MostGenerated
    BY <1>1, <2>2, <2>3, <2>4, Lesser
  <2>6. w = [want EXCEPT !.generated = n]
    BY <1>1, <1>2, <1>4, <2>1, <2>4 DEF LoadGeneration, Sound, Keys
  <2>7. Sound(w)
    BY <1>1, <2>5, <2>6, ChangedSettings
  <2> QED BY <1>1, <1>2, <1>4, <2>7 DEF LoadGeneration
<1>5. CASE LoadMode
  <2>1. PICK m, size : /\ want' = [want EXCEPT !.mode = m]
                       /\ saved' = [saved EXCEPT !.mode = size]
    BY <1>1, <1>5 DEF LoadMode, Sound, SoundChange, Keys
  <2>2. Sound(w)
    BY <1>1, <1>2, <2>1, ChangedSettings
  <2>3. PICK p : p = saved'
    OBVIOUS
  <2>4. SoundChange(p)
    BY <1>1, <2>1, <2>3, SoundSetter
  <2> QED BY <1>2, <1>5, <2>2, <2>3, <2>4 DEF LoadMode
<1> QED BY <1>3, <1>4, <1>5

\* Then it is at a level of the device.
LEMMA LoadedAtLevel ==
  ASSUME LevelsNest, SettingsOK, levels \in AllLevelSets, LoadLevel
  PROVE  /\ Sound(want') /\ want'.level \in levels /\ SoundChange(saved')
         /\ UNCHANGED <<changePending, change, seen, levels, most>>
<1>1. Sound(want) /\ SoundChange(saved)
  BY DEF SettingsOK
<1>2. PICK l : l = Given(saved.level, want.level)
  OBVIOUS
<1>3. l \in UNION AllLevelSets
  BY <1>1, <1>2, GivenIn DEF Sound, SoundChange
<1>4. PICK s, t : s = Supported(l) /\ t = Max(levels)
  OBVIOUS
<1>5. s \in levels /\ t \in levels
  BY <1>3, <1>4, SupportedLevel
<1>6. PICK w, p : w = want' /\ p = saved'
  OBVIOUS
<1>7. w = [want EXCEPT !.level = s]
  BY <1>2, <1>4, <1>6 DEF LoadLevel
<1>8. s \in UNION AllLevelSets /\ t \in UNION AllLevelSets
  BY <1>5
<1>9. Sound(w) /\ w.level = s
  <2>1. Sound(w)
    BY <1>1, <1>7, <1>8, ChangedSettings
  <2> QED BY <1>1, <1>7, <2>1 DEF Sound, Keys
<1>10. SoundChange(p)
  <2>1. p = saved \/ p = [saved EXCEPT !.level = {t}]
    BY <1>1, <1>4, <1>6 DEF LoadLevel, SoundChange, Keys
  <2> QED BY <1>1, <1>8, <2>1, SoundSetter
<1> QED BY <1>5, <1>6, <1>9, <1>10 DEF LoadLevel

\* The settings and the levels.
LEMMA SettingsSteps ==
  ASSUME LevelsNest, ~KeepsChanges, SettingsOK, LevelsOK, output \in Outputs,
         [DisplayNext]_(displayVars)
  PROVE  SettingsOK' /\ LevelsOK'
<1> USE DEF Goto, graphicsVars, countVars, placeVars, BeforeLevel, BeforeLevels
<1>1. CASE UNCHANGED <<want, changePending, change, levels, most, saved, new, current>>
           /\ \/ UNCHANGED <<place, desc>>
              \/ /\ place \in {"resize", "frame", "uninit", "release"}
                 /\ place' \in {"frame", "top", "uninit", "release", "init"}
  BY <1>1 DEF SettingsOK, LevelsOK
<1>2. CASE RTInit
  <2>1. /\ Sound(want') /\ want'.generated = want.generated
        /\ changePending' \in BOOLEAN /\ UNCHANGED <<change, levels, most, saved>>
    BY <1>2, OutputSet DEF RTInit
  <2>2. UNCHANGED <<new, current>> /\ place = "init" /\ place' = "settings"
    BY <1>2 DEF RTInit
  <2> QED BY <2>1, <2>2 DEF SettingsOK, LevelsOK
<1>3. CASE SetDevices
  <2>1. UNCHANGED <<new, current>>
    BY <1>3 DEF SetDevices
  <2>2. CASE \E ls \in AllLevelSets, b \in BOOLEAN :
                 /\ Goto("settings", "support") /\ InitFromDevice(ls, b)
                 /\ change' = NoChange
    <3>1. /\ place' = "support" /\ levels' \in AllLevelSets /\ changePending' = FALSE
          /\ UNCHANGED <<most, saved>> /\ change' = NoChange
          /\ want' = want \/ want' = [want EXCEPT !.level = 1]
      BY <2>2 DEF InitFromDevice
    <3>2. 1 \in UNION AllLevelSets
      BY DEF AllLevelSets
    <3>3. Sound(want')
      <4>1. PICK w : w = want'
        OBVIOUS
      <4>2. Sound(w)
        BY <3>1, <3>2, <4>1, ChangedSettings DEF SettingsOK
      <4> QED BY <4>1, <4>2
    <3>4. SoundChange(change') /\ change'.level = {}
      BY <3>1, NothingIsSound
    <3> QED BY <2>1, <3>1, <3>3, <3>4 DEF SettingsOK, LevelsOK
  <2>3. CASE \E n \in 0 .. MostGenerated :
                 Goto("support", "preferences") /\ SetGraphicsSupport(n)
    <3>1. PICK n \in 0 .. MostGenerated : /\ Goto("support", "preferences")
                                          /\ SetGraphicsSupport(n)
      BY <2>3
    <3>2. PICK g : g = Min({want.generated, n})
      OBVIOUS
    <3>3. want.generated \in 0 .. MostGenerated /\ MostGenerated \in Nat
      BY OutputsAssumption DEF OutputsAssumption, SettingsOK, Sound
    <3>4. g \in 0 .. MostGenerated
      BY <3>2, <3>3, Lesser
    <3>5. /\ most' = n /\ want' = [want EXCEPT !.generated = g]
          /\ UNCHANGED <<changePending, change, levels, saved>>
      BY <3>1, <3>2 DEF SetGraphicsSupport
    <3>6. PICK w : w = want'
      OBVIOUS
    <3>7. Sound(w)
      BY <3>4, <3>5, <3>6, ChangedSettings DEF SettingsOK
    <3> QED BY <2>1, <3>1, <3>5, <3>6, <3>7 DEF SettingsOK, LevelsOK
  <2>4. CASE Goto("level", "before") /\ LoadLevel
    <3>1. levels \in AllLevelSets
      BY <2>4 DEF LevelsOK
    <3>2. /\ Sound(want') /\ want'.level \in levels /\ SoundChange(saved')
          /\ UNCHANGED <<changePending, change, seen, levels, most>>
      BY <2>4, <3>1, LoadedAtLevel
    <3> QED BY <2>1, <2>4, <3>1, <3>2 DEF SettingsOK, LevelsOK
  <2>5. CASE /\ place \in {"preferences", "generation", "mode"}
             /\ place' \in {"generation", "mode", "level"}
             /\ LoadFullScreen \/ LoadGeneration \/ LoadMode
    <3>1. /\ Sound(want') /\ SoundChange(saved')
          /\ UNCHANGED <<changePending, change, seen, levels, most>>
      BY <2>5, Loaded
    <3> QED BY <2>1, <2>5, <3>1 DEF SettingsOK, LevelsOK
  <2>6. 0 .. (IF d3d12 THEN MostGenerated ELSE 0) \subseteq 0 .. MostGenerated
    BY OutputsAssumption DEF OutputsAssumption
  <2>7. {1} \in AllLevelSets /\ LevelSets \subseteq AllLevelSets
    BY DEF AllLevelSets
  <2>8. \/ /\ Goto("settings", "support")
           /\ InitFromDevice({1}, TRUE) \/ \E ls \in LevelSets : InitFromDevice(ls, FALSE)
           /\ change' = IF KeepsChanges THEN change ELSE NoChange
        \/ Goto("support", "preferences")
             /\ \E n \in 0 .. (IF d3d12 THEN MostGenerated ELSE 0) : SetGraphicsSupport(n)
        \/ Goto("preferences", "generation") /\ LoadFullScreen
        \/ Goto("generation", "mode") /\ LoadGeneration
        \/ Goto("mode", "level") /\ LoadMode
        \/ Goto("level", "before") /\ LoadLevel
    <3> HIDE DEF Goto
    <3> QED BY <1>3 DEF SetDevices
  <2>9. CASE /\ Goto("settings", "support")
             /\ InitFromDevice({1}, TRUE) \/ \E ls \in LevelSets : InitFromDevice(ls, FALSE)
             /\ change' = IF KeepsChanges THEN change ELSE NoChange
    BY <2>2, <2>7, <2>9
  <2>10. CASE Goto("support", "preferences")
               /\ \E n \in 0 .. (IF d3d12 THEN MostGenerated ELSE 0) : SetGraphicsSupport(n)
    BY <2>3, <2>6, <2>10
  <2> QED BY <2>4, <2>5, <2>8, <2>9, <2>10
<1>4. CASE InitWindowMode \/ ApplyFullscreen
  <2>1. /\ UNCHANGED <<new, current, desc>>
        /\ place \in {"before", "apply"} /\ place' \in {"read", "resize"}
        /\ UNCHANGED settingVars \/ SetFullscreen(Windowed)
    BY <1>4 DEF InitWindowMode, ApplyFullscreen
  <2>2. Windowed \in FullScreenDescs
    BY DEF Windowed, FullScreenDescs
  <2>3. CASE UNCHANGED settingVars
    BY <2>1, <2>3 DEF settingVars, SettingsOK, LevelsOK
  <2>4. CASE SetFullscreen(Windowed)
    <3>1. /\ Sound(want') /\ want'.generated = want.generated
          /\ want'.level = want.level /\ changePending' = TRUE
          /\ UNCHANGED <<change, seen, levels, most, saved>>
      BY <2>2, <2>4, FullscreenSet
    <3> QED BY <2>1, <3>1 DEF SettingsOK, LevelsOK
  <2> QED BY <2>1, <2>3, <2>4
<1>5. CASE LookAtDisplays
  <2>1. /\ UNCHANGED <<new, current, desc>>
        /\ place = "top" /\ place' \in {"top", "resize", "decide"}
        /\ UNCHANGED settingVars \/ SetOutputProperties(output)
    BY <1>5 DEF LookAtDisplays
  <2>2. CASE UNCHANGED settingVars
    BY <2>1, <2>2 DEF settingVars, SettingsOK, LevelsOK
  <2>3. CASE SetOutputProperties(output)
    <3>1. /\ Sound(want') /\ want'.generated = want.generated
          /\ want'.level = want.level /\ changePending' \in BOOLEAN
          /\ UNCHANGED <<change, levels, most, saved>>
      BY <2>3, OutputSet
    <3> QED BY <2>1, <3>1 DEF SettingsOK, LevelsOK
  <2> QED BY <2>1, <2>2, <2>3
<1>6. CASE BeginChange
  <2>1. /\ UNCHANGED <<want, changePending, change, levels, most, saved, current, desc>>
        /\ new' \in {new, want.full}
        /\ place = "decide" /\ place' \in {"style", "frame"}
    BY <1>6 DEF BeginChange, settingVars
  <2>2. want.full \in FullScreenDescs
    BY DEF SettingsOK, Sound
  <2> QED BY <2>1, <2>2 DEF SettingsOK, LevelsOK
<1>7. CASE ChangeStyle
  <2>1. /\ UNCHANGED <<current, desc>> /\ new' = Windowed
        /\ place = "style" /\ place' = "read"
        /\ UNCHANGED settingVars \/ SetFullscreen(current)
    BY <1>7 DEF ChangeStyle
  <2>2. PICK f \in FullScreenDescs : f = current
    BY DEF SettingsOK
  <2>5. Windowed \in FullScreenDescs
    BY DEF Windowed, FullScreenDescs
  <2>3. CASE UNCHANGED settingVars
    BY <2>1, <2>3, <2>5 DEF settingVars, SettingsOK, LevelsOK
  <2>4. CASE SetFullscreen(current)
    <3>1. /\ Sound(want') /\ want'.generated = want.generated
          /\ want'.level = want.level /\ changePending' = TRUE
          /\ UNCHANGED <<change, seen, levels, most, saved>>
      BY <2>2, <2>4, FullscreenSet
    <3> QED BY <2>1, <2>5, <3>1 DEF SettingsOK, LevelsOK
  <2> QED BY <2>1, <2>3, <2>4
<1>8. CASE ReadSettings
  <2>1. /\ UNCHANGED <<want, change, seen, levels, most, saved, new, current>>
        /\ desc' = SwapChainDesc /\ changePending' \in BOOLEAN
        /\ place = "read" /\ place' = "current"
    BY <1>8 DEF ReadSettings, PendingOnce
  <2>2. desc'.level = want.level
    BY <2>1 DEF SwapChainDesc
  <2> QED BY <2>1, <2>2 DEF SettingsOK, LevelsOK
<1>9. CASE ReadCurrent \/ CreateSwapChain
  <2>1. /\ UNCHANGED <<want, change, levels, most, saved, new, desc>>
        /\ current' \in {current, want.full} /\ changePending' \in BOOLEAN
        /\ place \in {"current", "create"} /\ place' \in {"create", "resize", "apply"}
        /\ place' = "create" => place = "current"
    BY <1>9 DEF ReadCurrent, CreateSwapChain, settingVars, PendingOnce,
                SettingsOK
  <2>2. want.full \in FullScreenDescs
    BY DEF SettingsOK, Sound
  <2> QED BY <2>1, <2>2 DEF SettingsOK, LevelsOK
<1>10. CASE ModuleActs
  <2>1. UNCHANGED <<new, current, place, desc>>
    BY <1>10 DEF ModuleActs
  <2>2. CASE ApplyChange
    <3>1. change.level \subseteq levels
      BY DEF LevelsOK
    <3>2. /\ Sound(want') /\ change' = NoChange
          /\ want'.level = want.level \/ want'.level \in levels
          /\ changePending' \in BOOLEAN /\ UNCHANGED <<levels, most, saved>>
      BY <2>2, <3>1, ChangeApplied
    <3>3. SoundChange(change') /\ change'.level = {}
      BY <3>2, NothingIsSound
    <3> QED BY <2>1, <3>2, <3>3 DEF SettingsOK, LevelsOK
  <2>3. CASE Setter \/ CancelChange \/ SavePreferences
    <3>1. change.level \subseteq levels
      BY DEF LevelsOK
    <3>2. /\ SoundChange(change') /\ SoundChange(saved') /\ change'.level \subseteq levels
          /\ UNCHANGED <<want, changePending, levels, most>>
      BY <2>3, <3>1, ChangeOpen
    <3> QED BY <2>1, <3>2 DEF SettingsOK, LevelsOK
  <2> QED BY <1>10, <2>2, <2>3 DEF ModuleActs
<1>11. CASE ResizeAndDraw \/ LeaveForUninit \/ RTUninit
  BY <1>1, <1>11 DEF ResizeAndDraw, LeaveForUninit, RTUninit, settingVars
<1>12. CASE DisplayChanges \/ UserResizes \/ LosesFullScreen \/ LosesDevice
             \/ UNCHANGED displayVars
  BY <1>1, <1>12 DEF DisplayChanges, UserResizes, LosesFullScreen,
                     LosesDevice,
     settingVars, displayVars
<1> QED BY <1>2, <1>3, <1>4, <1>5, <1>6, <1>7, <1>8, <1>9, <1>10, <1>11, <1>12
        DEF DisplayNext, RenderThread

\* What is known of the displays, and what the chain was made of.
LEMMA FollowsSteps ==
  ASSUME WhiteTellsHDR, ~CheckFails, DisplayInv, [DisplayNext]_(displayVars)
  PROVE  SeenOK' /\ FollowsOK'
<1> USE DEF DisplayInv, Goto, graphicsVars, countVars, placeVars
<1>0. output \in Outputs /\ queue \in Seq({"display", "resize"})
  BY DEF SeenOK, LoopOK
<1>1. ASSUME UNCHANGED <<seen, output, queue, stale>>, place' = "init" \/ place # "init"
      PROVE  SeenOK'
  BY <1>1 DEF SeenOK
<1>2. CASE RTInit
  <2>1. /\ seen' = Described(output) /\ output' = output
        /\ place' = "settings" /\ place = "init"
    BY <1>0, <1>2, OutputSet DEF RTInit
  <2> QED BY <1>0, <2>1 DEF SeenOK, FollowsOK, HasChain
<1>3. CASE SetDevices
  <2>1. UNCHANGED <<output, queue, stale>> /\ place # "init"
        /\ place' \in BeforeLevel \union {"before"} /\ place' # "init"
    BY <1>3 DEF SetDevices, BeforeLevel, BeforeLevels
  <2>2. UNCHANGED seen
    BY <1>3 DEF SetDevices, InitFromDevice, SetGraphicsSupport, LoadFullScreen,
                LoadGeneration, LoadMode, LoadLevel
  <2> QED BY <1>1, <2>1, <2>2 DEF FollowsOK, HasChain, BeforeLevel, BeforeLevels
<1>4. CASE InitWindowMode
  <2>1. UNCHANGED <<output, queue, stale>> /\ place = "before" /\ place' = "read"
    BY <1>4 DEF InitWindowMode
  <2>2. UNCHANGED seen
    BY <1>4 DEF InitWindowMode, SetFullscreen, settingVars
  <2> QED BY <1>1, <2>1, <2>2 DEF FollowsOK, HasChain
<1>5. CASE LookAtDisplays
  <2>1. /\ UNCHANGED <<output, chain, desc, failed>> /\ stale' = FALSE /\ ~failed
        /\ place = "top" /\ place' \in {"top", "resize", "decide"}
        /\ queue' = IF queue = <<>> THEN queue ELSE Tail(queue)
        /\ IF ~Checks THEN UNCHANGED settingVars ELSE SetOutputProperties(output)
    BY <1>5 DEF LookAtDisplays
  <2>2. CASE ~Checks
    <3>1. UNCHANGED <<want, changePending, seen>> /\ queue = <<>> /\ ~stale
      BY <2>1, <2>2 DEF Checks, settingVars
    <3>2. SeenOK'
      BY <2>1, <3>1 DEF SeenOK
    <3>3. SwapChainDesc' = SwapChainDesc
      BY <3>1 DEF SwapChainDesc
    <3>4. FollowsOK'
      BY <2>1, <3>1, <3>3 DEF FollowsOK, HasChain
    <3> QED BY <3>2, <3>4
  <2>3. CASE Checks
    <3>1. SetOutputProperties(output)
      BY <2>1, <2>3
    <3>2. /\ seen' = Described(output) /\ want'.generated = want.generated
          /\ changePending => changePending'
      BY <1>0, <3>1, OutputSet
    <3>3. SeenOK'
      BY <1>0, <2>1, <3>2 DEF SeenOK
    <3>4. ~changePending' => SwapChainDesc' = SwapChainDesc
      BY <1>0, <3>1, Unnoticed
    <3>5. FollowsOK'
      BY <2>1, <3>2, <3>4 DEF FollowsOK, HasChain
    <3> QED BY <3>3, <3>5
  <2> QED BY <2>2, <2>3
<1>6. CASE BeginChange
  <2>1. /\ UNCHANGED <<want, changePending, seen, output, queue, stale, failed>>
        /\ place = "decide" /\ place' \in {"style", "frame"}
        /\ place' = "frame" => chain' = chain
    BY <1>6 DEF BeginChange, settingVars
  <2>2. SwapChainDesc' = SwapChainDesc
    BY <2>1 DEF SwapChainDesc
  <2>3. FollowsOK'
    BY <2>1, <2>2 DEF FollowsOK, HasChain
  <2> QED BY <1>1, <2>1, <2>3
<1>7. CASE ChangeStyle
  <2>1. UNCHANGED <<output, queue, stale>> /\ place = "style" /\ place' = "read"
    BY <1>7 DEF ChangeStyle
  <2>2. UNCHANGED seen
    BY <1>7 DEF ChangeStyle, SetFullscreen, settingVars
  <2> QED BY <1>1, <2>1, <2>2 DEF FollowsOK, HasChain
<1>8. CASE ReadSettings \/ ReadCurrent
  <2>1. /\ UNCHANGED <<want, seen, output, queue, stale, failed>> /\ place # "init"
        /\ \/ place' = "current" /\ desc' = SwapChainDesc
           \/ /\ place = "current" /\ place' = "create"
              /\ UNCHANGED <<desc, changePending>>
    BY <1>8 DEF ReadSettings, ReadCurrent, settingVars
  <2>2. SwapChainDesc' = SwapChainDesc
    BY <2>1 DEF SwapChainDesc
  <2>3. FollowsOK'
    BY <2>1, <2>2 DEF FollowsOK, HasChain
  <2> QED BY <1>1, <2>1, <2>3
<1>9. CASE CreateSwapChain
  <2>1. /\ UNCHANGED <<want, seen, output, queue, stale>>
        /\ place = "create" /\ place' \in {"resize", "apply"} /\ ~failed
        /\ changePending' = (changePending /\ "create" # "read")
        /\ ~failed' => chain' = [made |-> TRUE, full |-> FALSE, desc |-> desc,
                                 generated |-> want.generated]
    BY <1>9 DEF CreateSwapChain, PendingOnce
  <2>2. SwapChainDesc' = SwapChainDesc
    BY <2>1 DEF SwapChainDesc
  <2>3. ~failed' => chain'.desc = desc /\ chain'.generated = want.generated
    <3>1. PICK d, g : d = desc /\ g = want.generated
      OBVIOUS
    <3>2. PICK c : c = [made |-> TRUE, full |-> FALSE, desc |-> d, generated |-> g]
      OBVIOUS
    <3>3. c.desc = d /\ c.generated = g
      BY <3>2
    <3> QED BY <2>1, <3>1, <3>2, <3>3
  <2>4. ~changePending' => ~changePending
    BY <2>1
  <2>5. FollowsOK'
    BY <2>1, <2>2, <2>3, <2>4 DEF FollowsOK, HasChain
  <2> QED BY <1>1, <2>1, <2>5
<1>10. CASE ApplyFullscreen
  <2>1. UNCHANGED <<output, queue, stale, failed>> /\ place = "apply" /\ ~failed
    BY <1>10 DEF ApplyFullscreen
  <2>2. UNCHANGED seen
    BY <1>10 DEF ApplyFullscreen, SetFullscreen, settingVars
  <2>3. CASE place' = "read"
    BY <1>1, <2>1, <2>2, <2>3 DEF FollowsOK, HasChain
  <2>4. CASE place' # "read"
    <3>1. /\ place' = "resize" /\ UNCHANGED <<want, changePending>>
          /\ chain' = [chain EXCEPT !.full = Exclusive(current)]
      BY <1>10, <2>4 DEF ApplyFullscreen, settingVars
    <3>2. Exclusive(current) \in BOOLEAN
      BY DEF Exclusive
    <3>3. chain'.desc = chain.desc /\ chain'.generated = chain.generated
      BY <2>1, <3>1, <3>2, FullScreenOf DEF ChainOK, HasChain
    <3>4. SwapChainDesc' = SwapChainDesc
      BY <2>2, <3>1 DEF SwapChainDesc
    <3>5. FollowsOK'
      BY <2>1, <3>1, <3>3, <3>4 DEF FollowsOK, HasChain
    <3> QED BY <1>1, <2>1, <2>2, <3>5
  <2> QED BY <2>3, <2>4
<1>11. CASE ResizeAndDraw \/ LeaveForUninit \/ RTUninit
  <2>1. /\ UNCHANGED <<want, changePending, seen, output, queue, stale, failed>>
        /\ \/ /\ place \in {"resize", "frame"} /\ place' \in {"frame", "top", "uninit"}
              /\ chain' = chain
           \/ place \in {"uninit", "release"} /\ place' \in {"release", "init"}
    BY <1>11 DEF ResizeAndDraw, LeaveForUninit, RTUninit, settingVars
  <2>2. SwapChainDesc' = SwapChainDesc
    BY <2>1 DEF SwapChainDesc
  <2>3. FollowsOK'
    BY <2>1, <2>2 DEF FollowsOK, HasChain
  <2> QED BY <1>1, <2>1, <2>3
<1>12. CASE ModuleActs
  <2>1. UNCHANGED <<output, queue, stale, place, failed, chain, desc>>
    BY <1>12 DEF ModuleActs
  <2>2. UNCHANGED seen /\ (~changePending' => want' = want /\ ~changePending)
    <3>0. change.level \subseteq levels
      BY DEF LevelsOK
    <3>1. CASE ApplyChange
      BY <3>0, <3>1, ChangeApplied
    <3>2. CASE Setter \/ CancelChange \/ SavePreferences
      BY <3>0, <3>2, ChangeOpen
    <3> QED BY <1>12, <3>1, <3>2 DEF ModuleActs
  <2>3. ~changePending' => SwapChainDesc' = SwapChainDesc
    BY <2>2 DEF SwapChainDesc
  <2>4. FollowsOK'
    BY <2>1, <2>2, <2>3 DEF FollowsOK
  <2>5. SeenOK'
    BY <2>1, <2>2 DEF SeenOK
  <2> QED BY <2>4, <2>5
<1>13. CASE DisplayChanges \/ UserResizes
  <2>1. /\ UNCHANGED <<want, changePending, seen, place, failed, chain, desc>>
        /\ output' \in Outputs
        /\ \E m \in {"display", "resize"} : queue' = Pushed(m)
    BY <1>0, <1>13 DEF DisplayChanges, UserResizes, settingVars
  <2>2. queue' # <<>>
    BY <1>0, <2>1, Messages DEF Pushed
  <2>3. SwapChainDesc' = SwapChainDesc
    BY <2>1 DEF SwapChainDesc
  <2>4. FollowsOK'
    BY <2>1, <2>3 DEF FollowsOK
  <2>5. SeenOK'
    BY <2>1, <2>2 DEF SeenOK
  <2> QED BY <2>4, <2>5
<1>14. CASE LosesFullScreen
  <2>1. /\ UNCHANGED <<want, changePending, seen, output, queue, stale, place, failed,
                       desc>>
        /\ chain.full /\ chain' = [chain EXCEPT !.full = FALSE]
    BY <1>14 DEF LosesFullScreen, settingVars
  <2>2. chain'.desc = chain.desc /\ chain'.generated = chain.generated
    BY <2>1, FullIsMade, FullScreenOf DEF ChainOK
  <2>3. SwapChainDesc' = SwapChainDesc
    BY <2>1 DEF SwapChainDesc
  <2>4. FollowsOK'
    BY <2>1, <2>2, <2>3 DEF FollowsOK
  <2>5. SeenOK'
    BY <2>1 DEF SeenOK
  <2> QED BY <2>4, <2>5
<1>15. CASE LosesDevice \/ UNCHANGED displayVars
  <2>1. UNCHANGED <<want, changePending, seen, output, queue, stale, place, failed,
                    desc,
                    chain>>
    BY <1>15 DEF LosesDevice, settingVars, displayVars
  <2>2. SwapChainDesc' = SwapChainDesc
    BY <2>1 DEF SwapChainDesc
  <2> QED BY <2>1, <2>2 DEF FollowsOK, SeenOK
<1> QED BY <1>2, <1>3, <1>4, <1>5, <1>6, <1>7, <1>8, <1>9, <1>10, <1>11, <1>12, <1>13,
           <1>14, <1>15 DEF DisplayNext, RenderThread

LEMMA DisplayBegins == DisplayInit => DisplayInv
<1> SUFFICES ASSUME DisplayInit PROVE DisplayInv
  OBVIOUS
<1>1. LoopOK /\ ChainOK
  BY LoopBegins
<1>2. /\ place = "init" /\ output \in Outputs /\ seen = NoOutput /\ most = 0
      /\ saved = NoChange /\ change = NoChange /\ levels = {} /\ changePending = FALSE
      /\ new = Windowed /\ current = Windowed
      /\ want = [full |-> Windowed, hdr |-> FALSE, generated |-> 0, level |-> 1,
                 mode |-> NoMode]
  BY DEF DisplayInit, SettingsInit, NoPreferences
<1>3. Windowed \in FullScreenDescs
  BY DEF Windowed, FullScreenDescs
<1>4. 1 \in UNION AllLevelSets
  BY DEF AllLevelSets
<1>5. Sound(want)
  <2>1. PICK f, m : f = Windowed /\ m = NoMode
    OBVIOUS
  <2>2. PICK w : w = [full |-> f, hdr |-> FALSE, generated |-> 0, level |-> 1, mode |-> m]
    OBVIOUS
  <2>3. Sound(w)
    BY <1>3, <1>4, <2>1, <2>2, OutputsAssumption DEF Sound, Keys, OutputsAssumption
  <2> QED BY <1>2, <2>1, <2>2, <2>3
<1>6. SettingsOK
  <2>1. most \in 0 .. MostGenerated /\ Sound(want)
    BY <1>2, <1>5, OutputsAssumption DEF OutputsAssumption
  <2>2. /\ {new, current} \subseteq FullScreenDescs /\ levels \in AllLevelSets \union {{}}
        /\ changePending \in BOOLEAN /\ SoundChange(change) /\ SoundChange(saved)
    BY <1>2, <1>3, NothingIsSound
  <2> QED BY <2>1, <2>2 DEF SettingsOK
<1>7. SeenOK /\ LevelsOK /\ FollowsOK
  BY <1>2, NothingIsSound DEF SeenOK, LevelsOK, FollowsOK, HasChain, BeforeLevel, BeforeLevels
<1> QED BY <1>1, <1>6, <1>7 DEF DisplayInv

\* The settings, the displays and the chain agree at every step.
THEOREM DisplayInvariant ==
  ASSUME WhiteTellsHDR, LevelsNest, ~CheckFails, ~KeepsChanges
  PROVE  DisplaySpec => []DisplayInv
<1>1. DisplayInit => DisplayInv
  BY DisplayBegins
<1>2. ASSUME DisplayInv, [DisplayNext]_(displayVars) PROVE DisplayInv'
  <2>1. LoopOK' /\ ChainOK'
    BY <1>2, LoopSteps DEF DisplayInv
  <2>2. SettingsOK' /\ LevelsOK'
    BY <1>2, SettingsSteps DEF DisplayInv, SeenOK
  <2>3. SeenOK' /\ FollowsOK'
    BY <1>2, FollowsSteps
  <2> QED BY <2>1, <2>2, <2>3 DEF DisplayInv
<1> QED BY <1>1, <1>2, PTL DEF DisplaySpec

\* With no change pending, the swap chain is one of the settings, for the
\* displays as they are and at a level of the device, if displays in HDR have
\* another white level than others, devices have the levels in between, and the
\* module keeps no change open while the device is replaced.
THEOREM ChainFits ==
  ASSUME WhiteTellsHDR, LevelsNest, ~CheckFails, ~KeepsChanges
  PROVE  DisplaySpec => []ChainFitsDisplay
<1>1. DisplayInv => ChainFitsDisplay
  <2> SUFFICES ASSUME DisplayInv PROVE ChainFitsDisplay
    OBVIOUS
  <2> USE DEF DisplayInv
  <2>1. DisplayTypeOK
    <3>1. want.full \in FullScreenDescs /\ want.generated \in 0 .. MostGenerated
      BY DEF SettingsOK, Sound
    <3>2. {changePending, started, failed, stale, fallback} \subseteq BOOLEAN
      BY DEF SettingsOK, LoopOK
    <3>3. ToSet(queue) \subseteq {"display", "resize"}
      <4>1. PICK q \in Seq({"display", "resize"}) : q = queue
        BY DEF LoopOK
      <4>2. ToSet(q) \subseteq {"display", "resize"}
        BY DEF ToSet
      <4> QED BY <4>1, <4>2
    <3>4. chain.full => chain.made /\ Exclusive(current)
      BY FullIsMade DEF ChainOK
    <3> QED BY <3>1, <3>2, <3>3, <3>4 DEF DisplayTypeOK, SettingsOK, LoopOK
  <2>2. place = "top" => ~failed
    BY DEF LoopOK
  <2>3. ChainFollowsSettings
    BY <2>2 DEF ChainFollowsSettings, FollowsOK, HasChain
  <2>4. ChainHasSupportedLevel /\ DisplaysAreKnown
    BY DEF ChainHasSupportedLevel, DisplaysAreKnown, LevelsOK, SeenOK, BeforeLevel,
           BeforeLevels
  <2> QED BY <2>1, <2>3, <2>4 DEF ChainFitsDisplay
<1> QED BY <1>1, DisplayInvariant, PTL
==============================================================================
