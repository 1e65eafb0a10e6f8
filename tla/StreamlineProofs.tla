-------------------------- MODULE StreamlineProofs --------------------------
(***************************************************************************)
(* For any calls of Streamline that may fail but those that set the        *)
(* options of frame generation and of the latency, and for any sizes of    *)
(* the upscaler, the plugin does what the bridge believes: it has stopped  *)
(* generating when the back end touches its swap chain, and generates only *)
(* from what the module gave for the frame.                                *)
(*                                                                         *)
(* What the bridge believes is not what the plugin was told (a frame has   *)
(* no token, a call fails), and the invariant is about the difference:     *)
(* Believes says in which direction the two may differ.                    *)
(***************************************************************************)
EXTENDS Streamline, TLAPS

Changing == {"resize", "exclusive", "windowed", "release"}
Drawing == {"drawing", "evaluating"}

States ==
    [active : BOOLEAN, can : Features, generation : BOOLEAN, failed : BOOLEAN,
     suspended : BOOLEAN, inputs : BOOLEAN, tagged : BOOLEAN,
     mode : {Unset, "off", "on"}, token : BOOLEAN, constants : BOOLEAN,
     latency : {Unset} \union Latencies, upscaled : {Unset} \union Sizes]

Plugins ==
    [mode : {"off", "on"}, latency : Latencies,
     upscaled : {Unset} \union Sizes, held : BOOLEAN]

Chains ==
    [made : BOOLEAN, generation : BOOLEAN, exclusive : BOOLEAN, failed : BOOLEAN]

\* The types of the records, which TypeOK gives only as far as a reader cares.
Types ==
    /\ s \in States /\ plugin \in Plugins /\ chain \in Chains
    /\ pc \in {"down", "chainless", "idle", "drawing", "presenting", "evaluating"}
                \union Changing
    /\ given \subseteq {"constants", "inputs"}

\* The chain exists where it is used and was made as the bridge believes;
\* generation needs Reflex.
ChainOK ==
    /\ chain.made <=> pc \notin {"down", "chainless"}
    /\ chain.made => chain.generation = s.generation
    /\ s.generation => s.active /\ s.can.reflex
    /\ s.can.generates => s.can.reflex
    /\ chain.failed => chain.made /\ s.failed

\* What the plugin does, the bridge believes; the converse need not hold.
Believes ==
    /\ plugin.mode = "on" => s.mode = "on" /\ s.generation
    /\ s.latency # Unset => plugin.latency = s.latency
    /\ plugin.upscaled = s.upscaled
    /\ pc \in Changing \union {"down", "chainless"} => plugin.mode = "off"

\* What the bridge has of a frame was given for it.
FrameOK ==
    /\ pc \in Drawing /\ s.active =>
          /\ s.constants => "constants" \in given
          /\ s.inputs => "inputs" \in given
    /\ pc = "presenting" /\ s.token /\ plugin.mode = "on" =>
          given = {"constants", "inputs"} /\ ~s.failed
    /\ pc = "evaluating" => plugin.upscaled = asked

\* Generation has Reflex on, from the frame that turns it on.
LatencyOK ==
    /\ plugin.mode = "on" => plugin.latency # "off"
    /\ pc \in Drawing /\ s.token /\ s.generation => plugin.latency # "off"

IInv == Types /\ ChainOK /\ Believes /\ FrameOK /\ LatencyOK

-----------------------------------------------------------------------------
\* The options of generation and of the latency are taken whenever they are set.
Obeyed == Failing \cap {"generation", "latency"} = {}

LEMMA ObeyedResults == ASSUME Obeyed PROVE
    /\ Results("generation") = {TRUE} /\ Results("latency") = {TRUE}
    /\ \A call : Results(call) \subseteq BOOLEAN
BY DEF Obeyed, Results

\* The bridge starts with nothing loaded.
LEMMA InitIInv == Init => IInv
BY DEF Init, IInv, Types, ChainOK, Believes, FrameOK, LatencyOK, States, Plugins,
       Chains, NewState, NoFeatures, FreshPlugin, NoChain, Features, Changing,
       Drawing, Latencies, Unset

\* A device is found or given up: nothing is known of the plugins, which do nothing.
LEMMA DeviceStep == ASSUME Obeyed, IInv, RTInit \/ RTShutdown PROVE IInv'
<1> USE DEF IInv
<1>1. CASE RTInit
  <2>1. PICK can \in Supported, nvidia, up \in BOOLEAN, ok \in Results("latency"),
             loaded \in LoadInterposer :
          LET active == /\ nvidia /\ loaded /\ up
                        /\ can.upscale \/ can.lowLatency \/ can.generates
              new == NewState(active, IF active THEN can ELSE NoFeatures)
          IN /\ interposer' = (interposer \/ (nvidia /\ loaded))
             /\ s' = IF active /\ can.reflex /\ ok
                       THEN [new EXCEPT !.latency = "off"] ELSE new
    BY <1>1, Zenon DEF RTInit
  <2> DEFINE active == /\ nvidia /\ loaded /\ up
                       /\ can.upscale \/ can.lowLatency \/ can.generates
             can2 == IF active THEN can ELSE NoFeatures
             new == NewState(active, can2)
  <2>2. can2 \in Features /\ active \in BOOLEAN /\ (can2.generates => can2.reflex)
    BY DEF Supported, Features, NoFeatures, LoadInterposer
  <2> HIDE DEF active, can2
  <2>3. /\ new \in States /\ ~new.generation /\ ~new.failed /\ ~new.token
        /\ new.can.generates => new.can.reflex
        /\ new.upscaled = Unset /\ new.latency = Unset
        /\ [new EXCEPT !.latency = "off"] \in States
    BY <2>2 DEF NewState, States, Unset, Latencies
  <2>4. /\ s' \in States /\ ~s'.generation /\ ~s'.failed /\ ~s'.token
        /\ s'.can.generates => s'.can.reflex
        /\ s'.upscaled = Unset /\ s'.latency \in {Unset, "off"}
    <3> HIDE DEF new
    <3>1. s' = new \/ s' = [new EXCEPT !.latency = "off"]
      BY <2>1 DEF active, can2, new
    <3> QED BY <2>3, <3>1 DEF States
  <2>5. /\ plugin' = FreshPlugin /\ pc = "down" /\ pc' = "chainless"
        /\ UNCHANGED <<chain, given, asked>>
    BY <1>1 DEF RTInit
  <2>6. ~chain.failed' /\ chain' \in Chains /\ ~chain.made'
    BY <2>5 DEF Types, ChainOK, Chains, FreshPlugin
  <2> QED
    BY <2>4, <2>5, <2>6 DEF Types, ChainOK, Believes, FrameOK, LatencyOK,
       Plugins, FreshPlugin, Changing, Drawing, Latencies, Unset
<1>2. CASE RTShutdown
  BY <1>2 DEF RTShutdown, Types, ChainOK, Believes, FrameOK, LatencyOK, States,
     Plugins, Chains, NewState, NoFeatures, FreshPlugin, Features, Changing,
     Drawing, Latencies, Unset
<1> QED BY <1>1, <1>2

\* The back end suspends generation and replaces, switches or releases its
\* chain, or makes a new one.
LEMMA ChainStep == ASSUME Obeyed, IInv, ChangeChain PROVE IInv'
<1> USE DEF IInv
<1>1. ASSUME NEW call \in Changing, SuspendFor(call) PROVE IInv'
  <2>1. Suspension(TRUE) /\ pc = "idle" /\ pc' = call
        /\ UNCHANGED <<chain, given, asked>> /\ chain.made
    BY <1>1, ObeyedResults DEF SuspendFor
  <2>2. CASE ~s.generation
    <3>1. UNCHANGED <<s, plugin>> /\ plugin.mode = "off"
      BY <2>1, <2>2 DEF Suspension, Believes, Types, Plugins
    <3> QED
      BY <2>1, <2>2, <3>1 DEF Types, ChainOK, Believes, FrameOK, LatencyOK,
         Changing, Drawing
  <2>3. CASE s.generation
    <3>1. /\ s' = [s EXCEPT !.suspended = TRUE, !.tagged = @ /\ ~Clears,
                            !.mode = "off"]
          /\ plugin' = [plugin EXCEPT !.held = @ /\ ~Clears,
                          !.mode = IF s.mode # "off" THEN "off" ELSE @]
      BY <2>1, <2>3 DEF Suspension
    <3>2. Clears \in BOOLEAN
      BY DEF Clears, Types, States
    <3>3. s' \in States /\ plugin' \in Plugins /\ plugin'.mode = "off"
      BY ZenonT(40), <3>1, <3>2 DEF Types, States, Plugins, Believes
    <3> QED
      BY ZenonT(40), <1>1, <2>1, <2>3, <3>1, <3>3 DEF Types, ChainOK, Believes, FrameOK,
         LatencyOK, States, Plugins, Changing, Drawing
  <2> QED BY <2>2, <2>3
<1>2. CASE CallChain
  <2>1. /\ s' = [s EXCEPT !.suspended = FALSE] /\ plugin' = plugin
        /\ chain' \in {chain, [chain EXCEPT !.exclusive = TRUE],
                       [chain EXCEPT !.exclusive = FALSE]}
        /\ pc \in Changing /\ pc' = "idle" /\ UNCHANGED <<given, asked>>
    BY <1>2 DEF CallChain, Changing
  <2> QED
    BY ZenonT(40), <2>1 DEF Types, ChainOK, Believes, FrameOK, LatencyOK, States, Plugins,
       Chains, Changing, Drawing
<1>3. CASE ReleaseChain
  BY <1>3 DEF ReleaseChain, NoChain, Types, ChainOK, Believes, FrameOK, LatencyOK,
     Chains, Changing, Drawing
<1>4. ASSUME NEW wanted \in BOOLEAN, NEW scRGB \in BOOLEAN,
             RTCreateSwapChain(wanted, scRGB)
      PROVE IInv'
  <2>1. PICK enable \in BOOLEAN :
          /\ enable => s.active /\ s.can.generates
          /\ s' = [s EXCEPT !.generation = enable, !.failed = FALSE,
                            !.suspended = FALSE, !.inputs = FALSE,
                            !.tagged = FALSE,
                            !.mode = IF @ = "off" THEN @ ELSE Unset]
          /\ chain' = [made |-> TRUE, generation |-> enable, exclusive |-> FALSE,
                       failed |-> FALSE]
    BY <1>4, ObeyedResults DEF RTCreateSwapChain, Types, States, Features
  <2>2. /\ pc = "chainless" /\ pc' = "idle" /\ UNCHANGED <<plugin, given, asked>>
    BY <1>4 DEF RTCreateSwapChain
  <2>3. plugin.mode = "off"
    BY <2>2 DEF Believes
  <2> DEFINE mode == IF s.mode = "off" THEN s.mode ELSE Unset
  <2>4. mode \in {Unset, "off", "on"}
    BY DEF Unset
  <2>5. s' = [s EXCEPT !.generation = enable, !.failed = FALSE, !.suspended = FALSE,
                       !.inputs = FALSE, !.tagged = FALSE, !.mode = mode]
    BY <2>1
  <2> HIDE DEF mode
  <2>6. s' \in States /\ s'.can = s.can /\ s'.latency = s.latency
        /\ s'.upscaled = s.upscaled
    BY <2>4, <2>5 DEF Types, States
  <2>7. s'.active = s.active /\ s'.generation = enable
    BY <2>5 DEF Types, States
  <2>8. /\ chain' \in Chains /\ chain'.made /\ chain'.generation = enable
        /\ ~chain'.failed
    BY <2>1 DEF Chains
  <2> QED
    BY <2>1, <2>2, <2>3, <2>6, <2>7, <2>8 DEF Types, ChainOK, Believes, FrameOK,
       LatencyOK, Plugins, Changing, Drawing
<1> QED BY <1>1, <1>2, <1>3, <1>4 DEF ChangeChain, Changing

-----------------------------------------------------------------------------
\* A frame begins: with a token Reflex is set to what generation needs.
LEMMA BeginStep ==
    ASSUME Obeyed, IInv, NEW low \in Latencies, RTBeginFrame(low) PROVE IInv'
<1> USE DEF IInv
<1>1. /\ pc = "idle" /\ chain.made /\ pc' = "drawing" /\ given' = {}
      /\ UNCHANGED <<chain, asked>>
  BY DEF RTBeginFrame
<1>2. CASE ~s.active
  BY <1>1, <1>2 DEF RTBeginFrame, Types, ChainOK, Believes, FrameOK, LatencyOK,
     Changing, Drawing
<1>3. CASE s.active /\ s' = ForFrame(FALSE) /\ UNCHANGED plugin
  <2>1. s' = [s EXCEPT !.token = FALSE, !.constants = FALSE, !.inputs = FALSE]
    BY <1>3 DEF ForFrame
  <2>2. /\ s' \in States /\ ~s'.token /\ ~s'.constants /\ ~s'.inputs
        /\ s'.can = s.can /\ s'.mode = s.mode /\ s'.latency = s.latency
        /\ s'.upscaled = s.upscaled
    BY <2>1 DEF Types, States
  <2>3. s'.active = s.active /\ s'.generation = s.generation /\ s'.failed = s.failed
    BY <2>1 DEF Types, States
  <2> QED
    BY <1>1, <1>3, <2>2, <2>3 DEF Types, ChainOK, Believes, FrameOK, LatencyOK,
       Changing, Drawing
<1>4. ASSUME s.active,
             LET set == s.can.reflex /\ s.latency # LatencyFor(low)
             IN /\ s' = [ForFrame(TRUE) EXCEPT
                           !.latency = IF set THEN LatencyFor(low) ELSE @]
                /\ plugin' = [plugin EXCEPT
                           !.latency = IF set THEN LatencyFor(low) ELSE @]
      PROVE IInv'
  <2> DEFINE wanted == LatencyFor(low)
             set == s.can.reflex /\ s.latency # wanted
             mine == IF set THEN wanted ELSE s.latency
             its == IF set THEN wanted ELSE plugin.latency
  <2>1. wanted \in Latencies /\ (s.generation => wanted # "off")
    BY DEF LatencyFor, Latencies
  <2>2. /\ s' = [s EXCEPT !.token = TRUE, !.constants = FALSE, !.inputs = FALSE,
                          !.latency = mine]
        /\ plugin' = [plugin EXCEPT !.latency = its]
    BY <1>4 DEF ForFrame, Types, States
  <2>3. /\ mine \in {Unset} \union Latencies /\ its \in Latencies
        /\ mine # Unset => its = mine
        /\ s.can.reflex => its = wanted
    BY <2>1 DEF Types, States, Plugins, Believes, Unset, Latencies
  <2> HIDE DEF wanted, mine, its
  <2>4. /\ s' \in States /\ ~s'.constants /\ ~s'.inputs
        /\ s'.can = s.can /\ s'.mode = s.mode /\ s'.latency = mine
        /\ s'.upscaled = s.upscaled
    BY <2>2, <2>3 DEF Types, States
  <2>5. s'.active = s.active /\ s'.generation = s.generation /\ s'.failed = s.failed
    BY <2>2 DEF Types, States
  <2>6. /\ plugin' \in Plugins /\ plugin'.latency = its /\ plugin'.mode = plugin.mode
        /\ plugin'.upscaled = plugin.upscaled
    BY <2>2, <2>3 DEF Types, Plugins
  <2> QED
    BY <1>1, <2>1, <2>3, <2>4, <2>5, <2>6 DEF Types, ChainOK, Believes, FrameOK,
       LatencyOK, Changing, Drawing
<1> QED BY <1>2, <1>3, <1>4, ObeyedResults DEF RTBeginFrame

\* The module gives what a frame needs, or upscales.
LEMMA DrawStep ==
    ASSUME Obeyed, IInv,
           \/ RTSetFrameConstants \/ EvaluateFeature
           \/ \E desc \in BOOLEAN : RTSetFrameGenerationInputs(desc)
           \/ \E size \in Sizes : RTUpscale(size)
    PROVE  IInv'
<1> USE DEF IInv
<1>1. CASE RTSetFrameConstants
  <2>1. PICK ok \in BOOLEAN :
          /\ s' = [s EXCEPT !.constants = ok]
          /\ given' = IF ok THEN given \union {"constants"} ELSE given
    BY <1>1, ObeyedResults DEF RTSetFrameConstants
  <2>2. pc = "drawing" /\ UNCHANGED <<plugin, chain, pc, asked>>
    BY <1>1 DEF RTSetFrameConstants
  <2>3. /\ s' \in States /\ s'.can = s.can /\ s'.mode = s.mode
        /\ s'.latency = s.latency /\ s'.upscaled = s.upscaled
    BY <2>1 DEF Types, States
  <2>4. /\ s'.active = s.active /\ s'.generation = s.generation
        /\ s'.failed = s.failed /\ s'.token = s.token /\ s'.inputs = s.inputs
        /\ s'.constants = ok
    BY <2>1 DEF Types, States
  <2> QED
    BY <2>1, <2>2, <2>3, <2>4 DEF Types, ChainOK, Believes, FrameOK, LatencyOK,
       Changing, Drawing
<1>2. CASE EvaluateFeature
  BY <1>2 DEF EvaluateFeature, Types, ChainOK, Believes, FrameOK, LatencyOK,
     Changing, Drawing
<1>3. ASSUME NEW desc \in BOOLEAN, RTSetFrameGenerationInputs(desc) PROVE IInv'
  <2>1. pc = "drawing" /\ UNCHANGED <<chain, pc, asked>>
    BY <1>3 DEF RTSetFrameGenerationInputs
  <2>2. CASE s' = [s EXCEPT !.inputs = FALSE] /\ given' = given \ {"inputs"}
             /\ UNCHANGED plugin
    <3>1. /\ s' \in States /\ s'.can = s.can /\ s'.mode = s.mode
          /\ s'.latency = s.latency /\ s'.upscaled = s.upscaled
      BY <2>2 DEF Types, States
    <3>2. /\ s'.active = s.active /\ s'.generation = s.generation
          /\ s'.failed = s.failed /\ s'.token = s.token /\ ~s'.inputs
          /\ s'.constants = s.constants
      BY <2>2 DEF Types, States
    <3> QED
      BY <2>1, <2>2, <3>1, <3>2 DEF Types, ChainOK, Believes, FrameOK, LatencyOK,
         Changing, Drawing
  <2>3. CASE /\ s' = [s EXCEPT !.inputs = TRUE, !.tagged = TRUE]
             /\ plugin' = [plugin EXCEPT !.held = TRUE]
             /\ given' = given \union {"inputs"}
    <3>1. /\ s' \in States /\ s'.can = s.can /\ s'.mode = s.mode
          /\ s'.latency = s.latency /\ s'.upscaled = s.upscaled
      BY <2>3 DEF Types, States
    <3>2. /\ s'.active = s.active /\ s'.generation = s.generation
          /\ s'.failed = s.failed /\ s'.token = s.token
          /\ s'.constants = s.constants
      BY <2>3 DEF Types, States
    <3>3. /\ plugin' \in Plugins /\ plugin'.mode = plugin.mode
          /\ plugin'.latency = plugin.latency /\ plugin'.upscaled = plugin.upscaled
      BY <2>3 DEF Types, Plugins
    <3> QED
      BY <2>1, <2>3, <3>1, <3>2, <3>3 DEF Types, ChainOK, Believes, FrameOK,
         LatencyOK, Changing, Drawing
  <2>4. CASE UNCHANGED <<s, plugin, given>>
    BY <2>1, <2>4 DEF Types, ChainOK, Believes, FrameOK, LatencyOK, Changing, Drawing
  <2> QED BY <1>3, <2>2, <2>3, <2>4 DEF RTSetFrameGenerationInputs
<1>4. ASSUME NEW size \in Sizes, RTUpscale(size) PROVE IInv'
  <2>1. PICK ok \in BOOLEAN :
          LET set == s.upscaled # size
          IN /\ s' = [s EXCEPT !.upscaled = IF set THEN Noted(size, ok) ELSE @]
             /\ plugin' = [plugin EXCEPT !.upscaled = IF set /\ ok THEN size ELSE @]
             /\ IF ~set \/ ok THEN pc' = "evaluating" /\ asked' = size
                ELSE UNCHANGED <<pc, asked>>
    BY <1>4, ObeyedResults DEF RTUpscale
  <2>2. pc = "drawing" /\ UNCHANGED <<chain, given>>
    BY <1>4 DEF RTUpscale
  <2> DEFINE new == IF s.upscaled # size /\ ok THEN size ELSE s.upscaled
  <2>3. new \in {Unset} \union Sizes
    BY DEF Types, States
  <2>4. /\ s' = [s EXCEPT !.upscaled = new]
        /\ plugin' = [plugin EXCEPT !.upscaled = new]
        /\ pc' \in Drawing /\ (pc' = "evaluating" => asked' = new)
    BY <2>1, <2>2 DEF Noted, Types, States, Plugins, Believes, Drawing
  <2> HIDE DEF new
  <2>5. /\ s' \in States /\ s'.can = s.can /\ s'.mode = s.mode
        /\ s'.latency = s.latency /\ s'.upscaled = new
    BY <2>3, <2>4 DEF Types, States
  <2>6. /\ s'.active = s.active /\ s'.generation = s.generation
        /\ s'.failed = s.failed /\ s'.token = s.token /\ s'.inputs = s.inputs
        /\ s'.constants = s.constants
    BY <2>4 DEF Types, States
  <2>7. /\ plugin' \in Plugins /\ plugin'.mode = plugin.mode
        /\ plugin'.latency = plugin.latency /\ plugin'.upscaled = new
    BY <2>3, <2>4 DEF Types, Plugins
  <2> QED
    BY <2>2, <2>4, <2>5, <2>6, <2>7 DEF Types, ChainOK, Believes, FrameOK,
       LatencyOK, Changing, Drawing
<1> QED BY <1>1, <1>2, <1>3, <1>4

\* The frame is presented, generated if it has all it needs.
LEMMA PresentStep ==
    ASSUME Obeyed, IInv, RTBeforePresent \/ Present PROVE IInv'
<1> USE DEF IInv
<1>1. CASE RTBeforePresent
  <2>1. pc = "drawing" /\ pc' = "presenting" /\ UNCHANGED <<chain, given, asked>>
    BY <1>1 DEF RTBeforePresent
  <2>2. CASE ~(s.active /\ s.token /\ s.generation)
    <3>1. UNCHANGED <<s, plugin>>
      BY <1>1, <2>2 DEF RTBeforePresent
    <3> QED
      BY <2>1, <2>2, <3>1 DEF Types, ChainOK, Believes, FrameOK, LatencyOK,
         Changing, Drawing
  <2>3. CASE s.active /\ s.token /\ s.generation
    <3> DEFINE mode == IF Runs THEN "on" ELSE "off"
               keeps == ~(~Runs /\ Clears)
    <3>1. /\ s' = [s EXCEPT !.tagged = @ /\ keeps,
                            !.mode = IF s.mode # mode THEN mode ELSE @]
          /\ plugin' = [plugin EXCEPT !.held = @ /\ keeps,
                            !.mode = IF s.mode # mode THEN mode ELSE @]
      BY <1>1, <2>3, ObeyedResults DEF RTBeforePresent
    <3>2. keeps \in BOOLEAN /\ mode \in {"off", "on"}
      OBVIOUS
    <3>3. mode = "on" => given = {"constants", "inputs"} /\ ~s.failed
      BY <2>1, <2>3 DEF Runs, Types, FrameOK, Drawing
    <3> HIDE DEF mode, keeps
    <3>4. /\ s' \in States /\ s'.can = s.can /\ s'.mode = mode
          /\ s'.latency = s.latency /\ s'.upscaled = s.upscaled
      BY ZenonT(40), <3>1, <3>2 DEF Types, States
    <3>5. s'.active = s.active /\ s'.generation = s.generation /\ s'.failed = s.failed
      BY <3>1 DEF Types, States
    <3>6. /\ plugin' \in Plugins /\ (plugin'.mode = "on" => mode = "on")
          /\ plugin'.latency = plugin.latency /\ plugin'.upscaled = plugin.upscaled
      BY <3>1, <3>2 DEF Types, Plugins, Believes
    <3> QED
      BY <2>1, <2>3, <3>3, <3>4, <3>5, <3>6 DEF Types, ChainOK, Believes, FrameOK,
         LatencyOK, Changing, Drawing
  <2> QED BY <2>2, <2>3
<1>2. CASE Present
  <2>1. PICK ok \in BOOLEAN :
          /\ s' = [s EXCEPT !.failed = @ \/ GivesUp(ok)]
          /\ chain' = [chain EXCEPT !.failed =
                         @ \/ (s.token /\ plugin.mode = "on" /\ ~ok)]
    BY <1>2, ObeyedResults DEF Present
  <2>2. pc = "presenting" /\ pc' = "idle" /\ UNCHANGED <<plugin, given, asked>>
    BY <1>2 DEF Present
  <2> DEFINE its == chain.failed \/ (s.token /\ plugin.mode = "on" /\ ~ok)
             mine == s.failed \/ GivesUp(ok)
  <2>3. its \in BOOLEAN /\ mine \in BOOLEAN
    BY DEF Types, States, Chains, GivesUp
  <2>4. its => chain.made /\ mine
    BY <2>2 DEF GivesUp, Types, ChainOK, Believes, Changing
  <2>5. s' = [s EXCEPT !.failed = mine] /\ chain' = [chain EXCEPT !.failed = its]
    BY <2>1
  <2> HIDE DEF its, mine
  <2>6. /\ s' \in States /\ s'.can = s.can /\ s'.mode = s.mode
        /\ s'.latency = s.latency /\ s'.upscaled = s.upscaled
    BY <2>3, <2>5 DEF Types, States
  <2>7. s'.active = s.active /\ s'.generation = s.generation /\ s'.failed = mine
    BY <2>3, <2>5 DEF Types, States
  <2>8. /\ chain' \in Chains /\ chain'.made = chain.made
        /\ chain'.generation = chain.generation /\ chain'.failed = its
    BY <2>3, <2>5 DEF Types, Chains
  <2> QED
    BY <2>2, <2>4, <2>6, <2>7, <2>8 DEF Types, ChainOK, Believes, FrameOK, LatencyOK,
       Changing, Drawing
<1> QED BY <1>1, <1>2

-----------------------------------------------------------------------------
\* The inductive invariant holds however the settings, the chain and the frames
\* follow each other.
THEOREM StreamlineInvariant == ASSUME Obeyed PROVE Spec => []IInv
<1>1. ASSUME IInv, [Next]_vars PROVE IInv'
  <2>1. CASE RTInit \/ RTShutdown
    BY <1>1, <2>1, DeviceStep
  <2>2. CASE ChangeChain
    BY <1>1, <2>2, ChainStep
  <2>3. CASE Frame
    BY <1>1, <2>3, BeginStep, DrawStep, PresentStep DEF Frame
  <2>4. CASE QueueLatencyPing \/ UNCHANGED vars
    BY ZenonT(40), <1>1, <2>4 DEF QueueLatencyPing, vars, IInv, Types, ChainOK, Believes,
       FrameOK, LatencyOK
  <2> QED BY <1>1, <2>1, <2>2, <2>3, <2>4 DEF Next
<1> QED BY <1>1, InitIInv, PTL DEF Spec

\* While the back end changes its swap chain, the plugin generates nothing
\* (RTSuspendFrameGeneration), whatever else fails.
THEOREM ChainIsQuiet == ASSUME Obeyed PROVE Spec => []ChainChangesWithoutGeneration
<1>1. IInv => ChainChangesWithoutGeneration
  BY DEF IInv, Believes, Changing, ChainChangesWithoutGeneration
<1> QED BY <1>1, StreamlineInvariant, PTL

\* A frame is presented with generated ones only from the constants and inputs
\* the module gave for it (RTBeforePresent).
THEOREM FramesAreOwn == ASSUME Obeyed PROVE Spec => []GeneratesOnlyFromThisFrame
<1>1. IInv => GeneratesOnlyFromThisFrame
  BY DEF IInv, Types, ChainOK, Believes, FrameOK, Changing,
     GeneratesOnlyFromThisFrame
<1> QED BY <1>1, StreamlineInvariant, PTL

\* The plugin has what each call relies on: Reflex under generation, the
\* options of this upscale, a chain made as the bridge believes (TypeOK).
THEOREM PluginIsSet == ASSUME Obeyed PROVE Spec => []PluginIsSetAsNeeded
<1>1. IInv => TypeOK
  BY DEF IInv, Types, ChainOK, TypeOK, States, Plugins, Changing
<1>2. IInv => GenerationNeedsLowLatency /\ EvaluatesAsAsked
  BY DEF IInv, FrameOK, LatencyOK, GenerationNeedsLowLatency, EvaluatesAsAsked
<1> QED BY <1>1, <1>2, StreamlineInvariant, PTL DEF PluginIsSetAsNeeded
=============================================================================
