------------------------------ MODULE RawInput ------------------------------
(***************************************************************************)
(* The keyboard and the mouse of XInputManagerComponentImpl.cpp.  The main *)
(* thread hands over raw input under _simMutex and clears everything,      *)
(* without it, when the window is activated; the sim thread takes what is  *)
(* pending at the start of each frame and the module reads the result.     *)
(*                                                                         *)
(* The three mouse buttons work alike: one is modelled, and one axis.      *)
(* ProcessSim writes what it read in a step of its own, as ClearInput may  *)
(* run in between.  The C++ lists of key events are arrays of 256 with a   *)
(* UINT8 length: one that is full is empty again.                          *)
(***************************************************************************)
EXTENDS Integers, Sequences, SequencesExt

CONSTANTS
    Keys,       \* the keys of the keyboard, numbers above 0
    ListSize    \* how many events the lists hold: 256 in the code

VARIABLES
    pending,    \* [down: _pendingKeyDown, downs: _pendingKeyDownEvents,
                \*  presses: _pendingKeyPressEvents]
    mouse,      \* [down: _pendingMouseButtonDown, click: the pending click,
                \*  dx: _pendingMouseDX]
    shown,      \* what the module reads: [key, press, button, click, dx]
    reading,    \* what ProcessSim has read and not written yet, or None
    clearing,   \* ClearInput: "no", "pending" or "current" is zeroed next
    last,       \* history: the last event handled of each key and the button
    wrapped     \* history: a list has been full

inputVars == <<pending, mouse, shown, reading, clearing, last, wrapped>>

\* The button, where it stands beside the keys.
Button == 256

None == [none |-> TRUE]

\* A zeroed list names key 0, which no keyboard has.
AllKeys == Keys \cup {0}

NoKeys == [k \in AllKeys |-> 0]

NothingPending == [down |-> NoKeys, downs |-> <<>>, presses |-> <<>>]

NoMouse == [down |-> 0, click |-> FALSE, dx |-> 0]

Released ==
    [key |-> [k \in AllKeys |-> FALSE], press |-> [k \in AllKeys |-> FALSE],
     button |-> FALSE, click |-> FALSE, dx |-> 0]

InputInit ==
    /\ pending = NothingPending /\ mouse = NoMouse /\ shown = Released
    /\ reading = None /\ clearing = "no"
    /\ last = [c \in Keys \cup {Button} |-> "none"]
    /\ wrapped = FALSE

-----------------------------------------------------------------------------
(* The main thread.                                                        *)

Listed(list, k) == IF Len(list) + 1 = ListSize THEN <<>> ELSE Append(list, k)

\* RI_KEY_MAKE is 0, so every keyboard event passes the first test, one that
\* ends a press as well.
Make(p, k) ==
    IF p.down[k] = 1 THEN p
    ELSE [p EXCEPT !.down[k] = 1, !.downs = Listed(p.downs, k)]

Break(p, k) ==
    IF p.down[k] = 2 THEN p
    ELSE [down |-> [p.down EXCEPT ![k] = 2],
          downs |-> Listed(p.downs, k),
          presses |-> Listed(p.presses, k)]

Typed(p, k, what) ==
    IF what = "down" THEN Make(p, k) ELSE Break(Make(p, k), k)

Idle == reading = None

HandleKey(k, what) ==
    /\ clearing = "no"
    /\ Idle
    /\ pending' = Typed(pending, k, what)
    /\ wrapped' = (wrapped \/ Len(pending'.downs) < Len(pending.downs))
    /\ last' = [last EXCEPT ![k] = what]
    /\ UNCHANGED <<mouse, shown, reading, clearing>>

HandleButton(what) ==
    /\ clearing = "no"
    /\ Idle
    /\ mouse' = IF what = "down" THEN [mouse EXCEPT !.down = 1]
                ELSE [mouse EXCEPT !.down = 2, !.click = TRUE]
    /\ last' = [last EXCEPT ![Button] = what]
    /\ UNCHANGED <<pending, shown, reading, clearing, wrapped>>

\* Bound: the motion that is pending is 1 at most, either way.
HandleMotion(d) ==
    /\ clearing = "no"
    /\ Idle
    /\ mouse.dx + d \in -1..1
    /\ mouse' = [mouse EXCEPT !.dx = mouse.dx + d]
    /\ UNCHANGED <<pending, shown, reading, clearing, last, wrapped>>

\* WM_ACTIVATE: ClearInput, which takes no lock.
Activate ==
    /\ clearing = "no"
    /\ clearing' = "pending"
    /\ last' = [c \in DOMAIN last |-> "none"]
    /\ UNCHANGED <<pending, mouse, shown, reading, wrapped>>

\* The lists are zeroed and keep their lengths; the motion stays.
ClearPending ==
    /\ clearing = "pending"
    /\ clearing' = "current"
    /\ pending' = [down |-> NoKeys,
                   downs |-> [i \in DOMAIN pending.downs |-> 0],
                   presses |-> [i \in DOMAIN pending.presses |-> 0]]
    /\ mouse' = [NoMouse EXCEPT !.dx = mouse.dx]
    /\ UNCHANGED <<shown, reading, last, wrapped>>

ClearCurrent ==
    /\ clearing = "current"
    /\ clearing' = "no"
    /\ shown' = [Released EXCEPT !.dx = shown.dx]
    /\ UNCHANGED <<pending, mouse, reading, last, wrapped>>

-----------------------------------------------------------------------------
(* ProcessSim, with _simMutex held from the first step to the second.      *)

\* Mutant of KeysRead: any event that is pending makes the key read down.
KeysReadTruthy ==
    [k \in AllKeys |-> IF k \in ToSet(pending.downs) THEN pending.down[k] # 0
                       ELSE shown.key[k]]

KeysRead ==
    [k \in AllKeys |-> IF k \in ToSet(pending.downs) THEN pending.down[k] = 1
                       ELSE shown.key[k]]

ReadPending ==
    /\ Idle
    /\ reading' = [key |-> KeysRead,
                   press |-> [k \in AllKeys |-> k \in ToSet(pending.presses)],
                   button |-> IF mouse.down # 0 THEN mouse.down = 1
                              ELSE shown.button,
                   click |-> mouse.click,
                   dx |-> mouse.dx,
                   keys |-> ToSet(pending.downs), buttons |-> mouse.down # 0]
    /\ UNCHANGED <<pending, mouse, shown, clearing, last, wrapped>>

\* Only the keys and the button that have events are written.
WriteShown ==
    /\ ~Idle
    /\ shown' = [key |-> [k \in AllKeys |-> IF k \in reading.keys
                                            THEN reading.key[k]
                                            ELSE shown.key[k]],
                 press |-> reading.press,
                 button |-> IF reading.buttons THEN reading.button
                            ELSE shown.button,
                 click |-> reading.click,
                 dx |-> reading.dx]
    /\ pending' = NothingPending
    /\ mouse' = NoMouse
    /\ reading' = None
    /\ UNCHANGED <<clearing, last, wrapped>>

InputNext ==
    \/ \E k \in Keys, what \in {"down", "up"} : HandleKey(k, what)
    \/ \E what \in {"down", "up"} : HandleButton(what)
    \/ \E d \in {-1, 1} : HandleMotion(d)
    \/ Activate \/ ClearPending \/ ClearCurrent
    \/ ReadPending \/ WriteShown

-----------------------------------------------------------------------------
\* A key or a button whose release has been taken by an update reads as up,
\* however activations and updates have interleaved; unless so many events
\* came between two updates that a list was full and its UINT8 length wrapped.
ReleasedReadsUp ==
    Idle /\ clearing = "no" =>
        /\ \A k \in Keys : last[k] = "up" /\ pending.down[k] = 0 /\ ~wrapped
                               => ~shown.key[k]
        /\ last[Button] = "up" /\ mouse.down = 0 => ~shown.button

-----------------------------------------------------------------------------
(* What the interface's documentation says and the code does not do.       *)

\* After an activation nothing is down until it is pressed again.
ClearedReadsUp ==
    Idle /\ clearing = "no" =>
        \A k \in Keys : last[k] = "none" => ~shown.key[k]

\* "true if the key has been pressed (i.e pressed down then released)".
PressesWereMade == \A k \in AllKeys \ Keys : ~shown.press[k]

\* A released key reads up, whatever came between two updates.
EveryReleaseIsTaken ==
    Idle /\ clearing = "no" =>
        \A k \in Keys : last[k] = "up" /\ pending.down[k] = 0 => ~shown.key[k]
=============================================================================
