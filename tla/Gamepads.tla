------------------------------ MODULE Gamepads ------------------------------
(***************************************************************************)
(* The gamepads of XInputManagerComponentImpl.cpp and XInputGamepad.cpp.   *)
(* The sim thread reads the pads it believes to be connected, each frame;  *)
(* a thread of its own looks, twice a second, for the others.  Each walks  *)
(* a copy of its set, made under _gamepadMutex, and moves one pad at a     *)
(* time to the other set, under _gamepadMutex again.                       *)
(*                                                                         *)
(* One button stands for all of a pad's state.  XInput is external: it     *)
(* answers for the pads that are plugged in when it is asked.              *)
(***************************************************************************)
EXTENDS Naturals, FiniteSets

CONSTANTS Pads, NoPad

VARIABLES
    plugged,    \* the pads that are plugged in
    held,       \* whose button is held down
    connected,  \* _connectedGamepads
    disconnected, \* _disconnectedGamepads
    pad,        \* each pad: [isConnected: _connected, down: the button in
                \* _state, press: _buttonpressState]
    simWalk,    \* the pads ProcessSim has still to read, in its copy
    simLost,    \* the pad it is about to move, or NoPad
    checkPc,    \* the check thread: "head" of its loop, "walk", "exited"
    checkWalk,  \* the pads it has still to try, in its copy
    checkFound, \* the pad it is about to move, or NoPad
    running,    \* _checkThreadRunning
    life        \* of the component: "alive", "joining", "gone"

worldVars == <<plugged, held>>
simVars == <<simWalk, simLost>>
checkVars == <<checkPc, checkWalk, checkFound>>
lifeVars == <<running, life>>
padVars == <<worldVars, connected, disconnected, pad, simVars, checkVars, lifeVars>>

PadsInit ==
    /\ plugged = {}
    /\ held = {}
    /\ connected = Pads /\ disconnected = {}
    /\ pad = [p \in Pads |-> [isConnected |-> TRUE, down |-> FALSE, press |-> 0]]
    /\ simWalk = {} /\ simLost = NoPad
    /\ checkPc = "head" /\ checkWalk = {} /\ checkFound = NoPad
    /\ running = TRUE /\ life = "alive"

-----------------------------------------------------------------------------
(* The world.                                                              *)

Plug(p) ==
    /\ plugged' = plugged \cup {p}
    /\ p \notin plugged
    /\ UNCHANGED <<held, connected, disconnected, pad, simVars, checkVars, lifeVars>>

Unplug(p) ==
    /\ p \in plugged
    /\ plugged' = plugged \ {p}
    /\ held' = held \ {p}
    /\ UNCHANGED <<connected, disconnected, pad, simVars, checkVars, lifeVars>>

Hold(p) ==
    /\ p \in plugged
    /\ held' = IF p \in held THEN held \ {p} ELSE held \cup {p}
    /\ UNCHANGED <<plugged, connected, disconnected, pad, simVars, checkVars, lifeVars>>

-----------------------------------------------------------------------------
(* The sim thread.                                                         *)

Reading == simWalk # {} \/ simLost # NoPad

ProcessSim ==
    /\ life = "alive"
    /\ ~Reading
    /\ connected # {}
    /\ simWalk' = connected
    /\ UNCHANGED <<worldVars, connected, disconnected, pad, simLost, checkVars, lifeVars>>

ReadPad(p) ==
    /\ p \in simWalk
    /\ simLost = NoPad
    /\ simWalk' = simWalk \ {p}
    /\ IF p \in plugged
       THEN /\ pad' = [pad EXCEPT ![p].down = p \in held]
            /\ UNCHANGED simLost
       ELSE simLost' = p /\ UNCHANGED pad
    /\ UNCHANGED <<worldVars, connected, disconnected, checkVars, lifeVars>>

LosePad ==
    /\ simLost # NoPad
    /\ pad' = [pad EXCEPT ![simLost].isConnected = FALSE]
    /\ disconnected' = disconnected \cup {simLost}
    /\ connected' = connected \ {simLost}
    /\ simLost' = NoPad
    /\ UNCHANGED <<worldVars, simWalk, checkVars, lifeVars>>

\* The press of a button is put together from what successive calls see.
Pressed(b) ==
    LET seen == IF b.down THEN 1 ELSE b.press
    IN IF seen = 1 /\ ~b.down THEN 2 ELSE seen

IsButtonPress(p) ==
    /\ life = "alive"
    /\ ~Reading
    /\ pad' = [pad EXCEPT ![p].press = IF Pressed(pad[p]) = 2 THEN 0
                                       ELSE Pressed(pad[p])]
    /\ UNCHANGED <<worldVars, connected, disconnected, simVars, checkVars, lifeVars>>

-----------------------------------------------------------------------------
(* The thread that looks for pads.                                         *)

CheckLoops ==
    /\ checkPc = "head"
    /\ IF running THEN checkPc' = "walk" /\ checkWalk' = disconnected
                  ELSE checkPc' = "exited" /\ UNCHANGED checkWalk
    /\ UNCHANGED <<worldVars, connected, disconnected, pad, simVars, checkFound, lifeVars>>

\* Mutant of Answers: the result of XInputGetState is taken the wrong way.
AnswersNot(p) == p \notin plugged

\* XInputGetState succeeds.
Answers(p) == p \in plugged

TryPad(p) ==
    /\ p \in checkWalk
    /\ checkFound = NoPad
    /\ checkWalk' = checkWalk \ {p}
    /\ checkFound' = IF Answers(p) THEN p ELSE NoPad
    /\ UNCHANGED <<worldVars, connected, disconnected, pad, simVars, checkPc, lifeVars>>

StillOut(p) == disconnected \ {p}

FindPad ==
    /\ checkFound # NoPad
    /\ pad' = [pad EXCEPT ![checkFound].isConnected = TRUE]
    /\ disconnected' = StillOut(checkFound)
    /\ connected' = connected \cup {checkFound}
    /\ checkFound' = NoPad
    /\ UNCHANGED <<worldVars, simVars, checkPc, checkWalk, lifeVars>>

\* Sleep(500).
CheckSleeps ==
    /\ checkPc = "walk" /\ checkWalk = {} /\ checkFound = NoPad
    /\ checkPc' = "head"
    /\ UNCHANGED <<worldVars, connected, disconnected, pad, simVars, checkWalk, checkFound, lifeVars>>

-----------------------------------------------------------------------------
(* The destructor, once the sim thread has ended.                          *)

DestructorStarts ==
    /\ life = "alive" /\ ~Reading
    /\ life' = "joining"
    /\ running' = FALSE
    /\ UNCHANGED <<worldVars, connected, disconnected, pad, simVars, checkVars>>

DestructorJoins ==
    /\ life = "joining"
    /\ checkPc = "exited"
    /\ life' = "gone"
    /\ UNCHANGED <<worldVars, connected, disconnected, pad, simVars, checkVars, running>>

Sim == ProcessSim \/ LosePad \/ \E p \in Pads : ReadPad(p)

Check ==
    \/ CheckLoops \/ FindPad \/ CheckSleeps
    \/ \E p \in Pads : TryPad(p)

PadsNext ==
    \/ \E p \in Pads : Plug(p) \/ Unplug(p) \/ Hold(p) \/ IsButtonPress(p)
    \/ Sim \/ Check
    \/ DestructorStarts \/ DestructorJoins

-----------------------------------------------------------------------------
\* Every pad is in one of the two sets exactly, and says so itself, though two
\* threads move pads from copies of the sets that may be out of date.
PadsAreInOneSet ==
    /\ connected \cup disconnected = Pads
    /\ connected \cap disconnected = {}
    /\ \A p \in Pads : pad[p].isConnected <=> p \in connected

\* A pad that is plugged in for good is connected for good in the end, and one
\* that is taken away for good is disconnected, while the component lives.
PadIsNoticed(p) ==
    /\ <>[](p \in plugged) => <>[](p \in connected \/ life # "alive")
    /\ <>[](p \notin plugged) => <>[](p \in disconnected \/ life # "alive")

\* The destructor's join returns, after the sleep of the check thread at most.
CheckThreadEnds == life = "joining" ~> life = "gone"

-----------------------------------------------------------------------------
(* What a reader of the interface expects and the code does not do.        *)

\* A pad that is gone has no button down.
GonePadsReadUp == \A p \in disconnected : ~pad[p].down
=============================================================================
