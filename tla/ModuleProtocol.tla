--------------------------- MODULE ModuleProtocol ---------------------------
(***************************************************************************)
(* What the host promises a module (interface IMGDFModule of MGDF.idl):    *)
(* in which order its methods are called from the sim and the render       *)
(* thread.  Module Host is shown to implement it.                          *)
(***************************************************************************)

VARIABLES
    sim,     \* "none", "new" in STNew, "running" between its STUpdates,
             \* "stopped" after the last, "gone" when it has been released
    render,  \* "none", "on" from RTBeforeFirstDraw, "shut" by RTShutDown
    buffers, \* there are back buffers: no RTBeforeBackBufferChange is open
    device,  \* it has its device: no RTBeforeDeviceReset is open
    drawing  \* from RTDraw to RTAfterPresent

vars == <<sim, render, buffers, device, drawing>>

Init ==
    /\ sim = "none" /\ render = "none"
    /\ ~buffers /\ ~device /\ ~drawing

\* The sim thread: STNew, then STUpdate until the thread is stopped.
STNew == sim = "none" /\ sim' = "new" /\ UNCHANGED <<render, buffers, device, drawing>>

STUpdate ==
    /\ \/ sim = "new" /\ sim' = "running"
       \/ sim = "running" /\ sim' = "stopped"
    /\ UNCHANGED <<render, buffers, device, drawing>>

\* "called by the host immediately before the first call to" RTDraw: the module
\* has been updated once and creates what it needs of the device.
RTBeforeFirstDraw ==
    /\ sim \in {"running", "stopped"} /\ render = "none"
    /\ render' = "on" /\ device' = TRUE
    /\ UNCHANGED <<sim, buffers, drawing>>

RTBeforeBackBufferChange ==
    /\ ~drawing
    /\ buffers' = FALSE
    /\ UNCHANGED <<sim, render, device, drawing>>

RTBackBufferChange ==
    /\ ~drawing
    /\ buffers' = TRUE
    /\ UNCHANGED <<sim, render, device, drawing>>

RTBeforeDeviceReset ==
    /\ ~drawing
    /\ buffers' = FALSE /\ device' = FALSE
    /\ UNCHANGED <<sim, render, drawing>>

RTDeviceReset ==
    /\ render = "on" /\ ~drawing
    /\ device' = TRUE
    /\ UNCHANGED <<sim, render, buffers, drawing>>

RTDraw ==
    /\ render = "on" /\ buffers /\ device /\ ~drawing
    /\ drawing' = TRUE
    /\ UNCHANGED <<sim, render, buffers, device>>

RTAfterPresent == drawing /\ drawing' = FALSE /\ UNCHANGED <<sim, render, buffers, device>>

\* The last call but the release, when both threads have ended.
RTShutDown ==
    /\ sim = "stopped" /\ render = "on" /\ ~drawing
    /\ render' = "shut" /\ buffers' = FALSE /\ device' = FALSE
    /\ UNCHANGED <<sim, drawing>>

Released ==
    /\ sim = "stopped" /\ render = "shut"
    /\ sim' = "gone"
    /\ UNCHANGED <<render, buffers, device, drawing>>

Next ==
    \/ STNew \/ STUpdate \/ RTBeforeFirstDraw
    \/ RTBeforeBackBufferChange \/ RTBackBufferChange
    \/ RTBeforeDeviceReset \/ RTDeviceReset
    \/ RTDraw \/ RTAfterPresent \/ RTShutDown \/ Released

Spec == Init /\ [][Next]_vars
=============================================================================
