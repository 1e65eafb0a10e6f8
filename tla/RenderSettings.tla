--------------------------- MODULE RenderSettings ---------------------------
(***************************************************************************)
(* MGDFRenderSettingsManagerImpl.cpp and what MGDFApp.cpp and              *)
(* MGDFD3DAppFramework.cpp tell it of the displays: the settings that the  *)
(* module changes from its thread and the render thread makes swap chains  *)
(* of, the flag that joins the two, and the preferences they come from.    *)
(* Each operator is one section under the manager's mutex, or one between  *)
(* two of them.  Sizes are numbers of one dimension; window sizes are left *)
(* out.  An optional value is a set of at most one.                        *)
(***************************************************************************)
EXTENDS Naturals, Sequences, SequencesExt, FiniteSetsExt

CONSTANTS
    Outputs,   \* the displays there can be, see OutputsAssumption
    LevelSets, \* the multisample levels that a device can have
    MinSize,   \* Resources::MIN_SCREEN_X and MIN_SCREEN_Y
    MostGenerated \* the most MaxGeneratedFrames of a device

ASSUME OutputsAssumption ==
    /\ \A o \in Outputs : /\ o.hdr \in BOOLEAN /\ o.white \in Nat /\ o.native \in Nat
                          /\ \A r \in o.sdrModes \union o.hdrModes :
                                {r.size, r.num, r.den} \subseteq Nat
    /\ \A ls \in LevelSets : /\ 1 \in ls /\ ls \subseteq Nat
                            /\ \E top \in ls : \A l \in ls : l <= top
    /\ {MinSize, MostGenerated} \subseteq Nat

VARIABLES
    want,    \* the settings: full (_fullScreen), hdr (_hdrEnabled), generated
             \* (_frameGeneration), level (_backBufferMultiSampleLevel) and
             \* mode (_primaryDisplayMode)
    changePending, \* _changePending
    change,  \* the PendingRenderSettingsChange that the module has open
    seen,    \* the output of the last SetOutputProperties: _primaryDisplayModes
             \* and _currentOutputDisplayInfo
    levels,  \* _multiSampleLevels
    most,    \* _support.MaxGeneratedFrames
    saved    \* the preferences; of a mode it is the size

settingVars == <<want, changePending, change, seen, levels, most, saved>>

FullScreenDescs == [FullScreen : BOOLEAN, ExclusiveMode : BOOLEAN]
Windowed == [FullScreen |-> FALSE, ExclusiveMode |-> FALSE]

Exclusive(d) == d.FullScreen /\ d.ExclusiveMode
Borderless(d) == d.FullScreen /\ ~d.ExclusiveMode

NoMode == [size |-> 0, num |-> 0, den |-> 0, hdr |-> FALSE]
NoOutput == [hdr |-> FALSE, white |-> 1000, native |-> 0, modes |-> <<>>]
NoChange == [full |-> {}, hdr |-> {}, generated |-> {}, level |-> {}, mode |-> {}]
NoPreferences == NoChange

\* The value, or what there is without it.
Given(optional, old) == IF optional = {} THEN old ELSE CHOOSE v \in optional : TRUE

SettingsInit ==
    /\ want = [full |-> Windowed, hdr |-> FALSE, generated |-> 0, level |-> 1,
               mode |-> NoMode]
    /\ changePending = FALSE /\ change = NoChange /\ seen = NoOutput
    /\ levels = {} /\ most = 0
    /\ saved = NoPreferences

-----------------------------------------------------------------------------
(* Displays.                                                               *)

Before(m, n) ==
    \/ m.size < n.size
    \/ m.size = n.size /\ m.num < n.num
    \/ m.size = n.size /\ m.num = n.num /\ m.den < n.den

\* RTCheckForDisplayChanges and RTOnDisplayChange: the modes of the primary
\* output that are large enough, those of the HDR format only if the output is
\* in HDR, each once and in HDR if it is in either list.
DisplayModes(o) ==
    LET hdr == IF o.hdr THEN o.hdrModes ELSE {}
        large == {r \in o.sdrModes \union hdr : r.size >= MinSize}
    IN SetToSortSeq({[size |-> r.size, num |-> r.num, den |-> r.den,
                      hdr |-> r \in hdr] : r \in large}, Before)

Described(o) == [hdr |-> o.hdr, white |-> IF o.hdr THEN o.white ELSE 1000,
                 native |-> o.native, modes |-> DisplayModes(o)]

SameMode(m, n) == m.size = n.size /\ m.num = n.num /\ m.den = n.den

\* What makes SetOutputProperties ask for another swap chain.
Notices(info) ==
    \/ seen.white # info.white
    \/ Exclusive(want.full) /\ \E i \in DOMAIN info.modes :
            SameMode(info.modes[i], want.mode) /\ info.modes[i].hdr # want.mode.hdr

\* SetOutputProperties; there is one mode of a size and rate at most.
SetOutputProperties(o) ==
    LET info == Described(o)
        now == {m \in ToSet(info.modes) : SameMode(m, want.mode)}
    IN /\ seen' = info
       /\ want' = [want EXCEPT !.mode = IF now = {} THEN @ ELSE CHOOSE m \in now : TRUE]
       /\ changePending' = (changePending \/ Notices(info))
       /\ UNCHANGED <<change, levels, most, saved>>

\* Whether GetPrimaryDisplayModeFromDimensions takes m after best: its
\* fractions are multiplied by the wrong denominators.
Preferred(m, best) ==
    m.num * m.den >= best.num * best.den /\ (best.hdr => m.hdr)

\* GetPrimaryDisplayModeFromDimensions, NoMode if there is none.
ModeOfSize(size) ==
    FoldLeft(LAMBDA best, m : IF best = NoMode \/ Preferred(m, best) THEN m ELSE best,
             NoMode, SelectSeq(seen.modes, LAMBDA m : m.size = size))

\* GetBestAlternativeDisplayMode.
BestAlternative ==
    LET found == SelectSeq(<<ModeOfSize(seen.native), ModeOfSize(MinSize)>>,
                           LAMBDA m : m # NoMode)
    IN Head(found \o seen.modes)

-----------------------------------------------------------------------------
(* A device.                                                               *)

\* InitFromDevice (levels ls) or InitD3D12 (ls is {1}); Cleanup forgets that a
\* change is pending.
InitFromDevice(ls, d3d12) ==
    /\ levels' = ls
    /\ changePending' = FALSE
    /\ want' = IF d3d12 THEN [want EXCEPT !.level = 1] ELSE want
    /\ UNCHANGED <<seen, most, saved>>

\* SetGraphicsSupport with ClampToSupportLocked.
SetGraphicsSupport(n) ==
    /\ most' = n
    /\ want' = [want EXCEPT !.generated = Min({@, n})]
    /\ UNCHANGED <<changePending, change, seen, levels, saved>>

Supported(level) == Min({level, Max(levels)})

\* LoadPreferences: what it reads without the mutex.
LoadFullScreen ==
    /\ want' = [want EXCEPT !.full = Given(saved.full, @), !.hdr = Given(saved.hdr, @)]
    /\ UNCHANGED <<changePending, change, seen, levels, most, saved>>

\* LoadPreferences: its section under the mutex.
LoadGeneration ==
    /\ want' = [want EXCEPT !.generated = Min({Given(saved.generated, @), most})]
    /\ UNCHANGED <<changePending, change, seen, levels, most, saved>>

\* LoadPreferences: the size of the mode it chooses is saved if none was found.
LoadMode ==
    LET found == IF saved.mode = {} THEN NoMode ELSE ModeOfSize(Given(saved.mode, 0))
    IN /\ want' = [want EXCEPT !.mode = IF found = NoMode THEN BestAlternative ELSE found]
       /\ saved' = [saved EXCEPT !.mode = IF found = NoMode THEN {want'.mode.size} ELSE @]
       /\ UNCHANGED <<changePending, change, seen, levels, most>>

\* LoadPreferences: so is the level if it was too high.
LoadLevel ==
    LET level == Given(saved.level, want.level)
    IN /\ want' = [want EXCEPT !.level = Supported(level)]
       /\ saved' = [saved EXCEPT !.level = IF level > Max(levels) THEN {Max(levels)} ELSE @]
       /\ UNCHANGED <<changePending, change, seen, levels, most>>

-----------------------------------------------------------------------------
(* Changes.                                                                *)

\* The setters of PendingRenderSettingsChange: a level and a mode that there
\* are now, frames that can be generated now.
Setter ==
    /\ \/ \E d \in FullScreenDescs : change' = [change EXCEPT !.full = {d}]
       \/ \E enabled \in BOOLEAN : change' = [change EXCEPT !.hdr = {enabled}]
       \/ \E n \in 0 .. most : change' = [change EXCEPT !.generated = {n}]
       \/ \E l \in levels : change' = [change EXCEPT !.level = {l}]
       \/ \E m \in ToSet(seen.modes) : change' = [change EXCEPT !.mode = {m}]
    /\ UNCHANGED <<want, changePending, seen, levels, most, saved>>

\* The settings with those of the change: nothing is checked again.
WithChange ==
    [full |-> Given(change.full, want.full), hdr |-> Given(change.hdr, want.hdr),
     generated |-> Given(change.generated, want.generated),
     level |-> Given(change.level, want.level), mode |-> Given(change.mode, want.mode)]

\* Whether ~PendingRenderSettingsChange asks for a new swap chain: any setting
\* it was given counts, but frame generation only if it differs.
Schedules ==
    \/ \E setting \in {"full", "hdr", "level", "mode"} : change[setting] # {}
    \/ WithChange.generated # want.generated

\* ~PendingRenderSettingsChange.
ApplyChange ==
    /\ change # NoChange /\ change' = NoChange
    /\ want' = WithChange
    /\ changePending' = (changePending \/ Schedules)
    /\ UNCHANGED <<seen, levels, most, saved>>

\* Cancel, then the release.
CancelChange ==
    /\ change # NoChange /\ change' = NoChange
    /\ UNCHANGED <<want, changePending, seen, levels, most, saved>>

\* RTSetFullscreen: a change of the host's own.
SetFullscreen(d) ==
    /\ want' = [want EXCEPT !.full = d]
    /\ changePending' = TRUE
    /\ UNCHANGED <<change, seen, levels, most, saved>>

\* The module saves what GetPreferences returns.
SavePreferences ==
    /\ saved' = [full |-> {want.full}, hdr |-> {want.hdr},
                 generated |-> {want.generated}, level |-> {want.level},
                 mode |-> {want.mode.size}]
    /\ UNCHANGED <<want, changePending, change, seen, levels, most>>

\* What OnResetSwapChain fills in, as far as it isn't of sizes: in exclusive
\* mode it is the mode of the primary output that decides on HDR.
SwapChainDesc ==
    LET able == IF Exclusive(want.full) THEN want.mode.hdr ELSE seen.hdr
    IN [windowed |-> ~Exclusive(want.full), waitable |-> ~want.full.ExclusiveMode,
        hdr |-> able /\ want.hdr, level |-> want.level]
=============================================================================
