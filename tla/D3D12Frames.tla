---------------------------- MODULE D3D12Frames -----------------------------
(***************************************************************************)
(* The Direct3D 12 back end (MGDFD3D12RenderBackend.cpp) with its frames   *)
(* in flight, the GPU counters that hang on them (MGDFD3D12Timer.cpp) and  *)
(* the render thread that calls both (MGDFD3DAppFramework.cpp, Host).      *)
(*                                                                         *)
(* Everything a frame records into - the clear list, the query heap and    *)
(* the read back buffer of the counters, what the module keeps per slot -  *)
(* exists once per slot, FrameOrdinal % FramesInFlight.  The CPU may write *)
(* it again once the frame fence says that the GPU has finished the frame  *)
(* that used it last.  The back buffers are released when an idle fence,   *)
(* passed from queue to queue, says that nothing is running.  The GPU, the *)
(* module and the removal of the device are the environment.               *)
(***************************************************************************)
EXTENDS Naturals, Sequences

CONSTANTS
    FramesInFlight, \* D3D12FrameState::FramesInFlight
    MaxPairs,       \* D3D12CounterManager::MaxPairs, samples of a frame
    Scopes,         \* the counter scopes the module holds at a time
    MaxFrames,      \* bound: frames of one device
    MaxDevices,     \* bound: devices that are created
    MaxRecordings,  \* bound: how often the module resets its command list
    MaxChanges      \* bound: back buffer changes

ASSUME FrameAssumption ==
    /\ {FramesInFlight, MaxDevices} \subseteq Nat \ {0}
    /\ {MaxPairs, MaxFrames, MaxRecordings, MaxChanges} \subseteq Nat

Slots == 0 .. FramesInFlight - 1
Pairs == 1 .. MaxPairs

\* The queues in the order in which RTWaitForGpuIdle visits them.
Queues == <<"direct", "compute", "copy">>
QueueNames == {"direct", "compute", "copy"}

NoFrame == [ordinal |-> 0, slot |-> 0]
NoScope == [device |-> 0]
Unwritten == [begin |-> <<>>, end |-> <<>>]

VARIABLES
    device,    \* which device this is, counted from one
    removed,   \* GetDeviceRemovedReason fails
    pc,        \* where the render thread is
    ordinal,   \* _frames._ordinal
    slotFence, \* _frames._slots
    frame,     \* _frame, the current frame
    queue,     \* the commands each queue has not executed yet
    completed, \* the values of _frameFence and _idleFence
    idleValue, \* _idleValue
    visit,     \* the queue RTWaitForGpuIdle is at
    changes,   \* back buffer changes so far
    recording, \* D3D12CounterManager::_recording
    pending,   \* Slot::Pending
    heap,      \* Slot::Heap: what the queries of each pair were written by
    results,   \* Slot::Results: the same, resolved into the read back buffer
    list,      \* the module's command list
    scopes     \* the samples the module's scopes refer to

backVars == <<ordinal, slotFence, frame, idleValue, visit, changes>>
timerVars == <<recording, pending, scopes>>
gpuVars == <<completed, heap, results>>
vars == <<device, removed, pc, backVars, queue, timerVars, gpuVars, list>>

Slot(n) == n % FramesInFlight

\* The slot of the current frame has one sample for each pair in use.
InUse == DOMAIN pending[frame.slot]

Work(marks) == [op |-> "work", slot |-> frame.slot, frame |-> frame.ordinal,
                marks |-> marks]
Submit(q, command) == queue' = [queue EXCEPT ![q] = Append(@, command)]

\* RTInit, and D3D12CounterManager::Init for the new device.
FreshDevice ==
    /\ removed' = FALSE
    /\ ordinal' = 1 /\ slotFence' = [s \in Slots |-> 0] /\ frame' = NoFrame
    /\ queue' = [q \in QueueNames |-> <<>>]
    /\ completed' = [frame |-> 0, idle |-> 0]
    /\ idleValue' = 0 /\ visit' = 1
    /\ recording' = FALSE
    /\ pending' = [s \in Slots |-> <<>>]
    /\ heap' = [s \in Slots |-> [p \in Pairs |-> Unwritten]]
    /\ results' = [s \in Slots |-> [p \in Pairs |-> Unwritten]]

Init ==
    /\ device = 1 /\ removed = FALSE /\ pc = "loop"
    /\ ordinal = 1 /\ slotFence = [s \in Slots |-> 0] /\ frame = NoFrame
    /\ queue = [q \in QueueNames |-> <<>>]
    /\ completed = [frame |-> 0, idle |-> 0]
    /\ idleValue = 0 /\ visit = 1 /\ changes = 0
    /\ recording = FALSE
    /\ pending = [s \in Slots |-> <<>>]
    /\ heap = [s \in Slots |-> [p \in Pairs |-> Unwritten]]
    /\ results = [s \in Slots |-> [p \in Pairs |-> Unwritten]]
    /\ list = [open |-> FALSE, gen |-> 0, marks |-> {}]
    /\ scopes = [h \in Scopes |-> NoScope]

-----------------------------------------------------------------------------
(* A frame.                                                                *)

\* Nothing is drawn while the window is minimized.
Minimized == pc = "loop" /\ UNCHANGED vars

\* RTWaitForFrame: the latency waitable has been signalled, or there is none
\* (frame generation); it also gives up when the device is removed.
StartFrame ==
    /\ pc = "loop" /\ ordinal <= MaxFrames
    /\ pc' \in IF removed THEN {"lost", "fence"} ELSE {"fence"}
    /\ UNCHANGED <<device, removed, backVars, queue, timerVars, gpuVars, list>>

\* Mutant of Reached: a removed device does not end the wait.
OnlyByValue(fence, value) == completed[fence] >= value

\* RTWaitForFence returns: a removed device completes every fence.
Reached(fence, value) == removed \/ completed[fence] >= value

\* Mutant of PreviousFence: one frame more is left in flight.
FenceBefore == IF ordinal > FramesInFlight THEN slotFence[Slot(ordinal)] - 1 ELSE 0

\* D3D12FrameState::PreviousFence.
PreviousFence == slotFence[Slot(ordinal)]

\* The rest of RTWaitForFrame: the frame that used the slot has finished.
WaitForSlot ==
    /\ pc = "fence" /\ Reached("frame", PreviousFence)
    /\ frame' = [ordinal |-> ordinal, slot |-> Slot(ordinal)]
    /\ pc' = "check"
    /\ UNCHANGED <<device, removed, ordinal, slotFence, idleValue, visit,
                   changes, queue, timerVars, gpuVars, list>>

CheckRemoved ==
    /\ pc = "check"
    /\ pc' = IF removed THEN "lost" ELSE "begin"
    /\ UNCHANGED <<device, removed, backVars, queue, timerVars, gpuVars, list>>

\* The samples BeginFrame records, those of the slot's last frame that ended.
Recorded == {p \in InUse : pending[frame.slot][p].ended}

\* D3D12CounterManager::BeginFrame.
BeginFrame ==
    /\ pc = "begin"
    /\ pending' = [pending EXCEPT ![frame.slot] = <<>>]
    /\ recording' = TRUE
    /\ pc' = "draw"
    /\ UNCHANGED <<device, removed, backVars, queue, scopes, gpuVars, list>>

\* The module's RTDraw returns; if it drew nothing the back end clears.
Draw ==
    /\ pc = "draw"
    /\ UNCHANGED queue \/ Submit("direct", Work({}))
    /\ pc' = "present"
    /\ UNCHANGED <<device, removed, backVars, timerVars, gpuVars, list>>

\* RTPresent; what it returns is looked at after RTEndFrame.
Present ==
    /\ pc = "present"
    /\ Submit("direct", Work({}))
    /\ pc' = "after"
    /\ UNCHANGED <<device, removed, backVars, timerVars, gpuVars, list>>

\* D3D12CounterManager::EndFrame, when the module's RTAfterPresent has
\* returned.  By then its list has been executed (MGDF.idl:2622).
EndCounters ==
    /\ pc = "after" /\ ~list.open
    /\ recording' = FALSE
    /\ IF InUse = {} THEN UNCHANGED queue
       ELSE Submit("direct", [op |-> "resolve", slot |-> frame.slot,
                              frame |-> frame.ordinal, pairs |-> Recorded])
    /\ pc' = "signal"
    /\ UNCHANGED <<device, removed, backVars, pending, scopes, gpuVars, list>>

\* RTEndFrame: Signal, and Submitted() when that succeeded.
EndFrame ==
    /\ pc = "signal"
    /\ \/ /\ Submit("direct", [op |-> "signal", fence |-> "frame",
                               value |-> ordinal])
          /\ slotFence' = [slotFence EXCEPT ![Slot(ordinal)] = ordinal]
          /\ ordinal' = ordinal + 1
          /\ pc' = IF removed THEN "lost" ELSE "loop"
       \/ removed /\ pc' = "lost" /\ UNCHANGED <<queue, slotFence, ordinal>>
    /\ UNCHANGED <<device, removed, frame, idleValue, visit, changes, timerVars,
                   gpuVars, list>>

-----------------------------------------------------------------------------
(* Back buffer changes and the loss of the device.                         *)

\* The framework resizes the back buffers or makes another swap chain.
ChangeBackBuffers ==
    /\ pc = "loop" /\ changes < MaxChanges
    /\ changes' = changes + 1
    /\ visit' = 1
    /\ pc' = "idle"
    /\ UNCHANGED <<device, removed, ordinal, slotFence, frame, idleValue, queue,
                   timerVars, gpuVars, list>>

\* RTWaitForGpuIdle: the next queue signals the idle fence.
SignalIdle ==
    /\ pc = "idle"
    /\ IF removed THEN pc' = "release" /\ UNCHANGED <<queue, idleValue>>
       ELSE /\ idleValue' = idleValue + 1
            /\ Submit(Queues[visit], [op |-> "signal", fence |-> "idle",
                                      value |-> idleValue + 1])
            /\ pc' = "wait"
    /\ UNCHANGED <<device, removed, ordinal, slotFence, frame, visit, changes,
                   timerVars, gpuVars, list>>

\* "Wait each signal before reusing this fence on another queue."
QueueIsIdle == Reached("idle", idleValue)

WaitIdle ==
    /\ pc = "wait" /\ QueueIsIdle
    /\ IF removed \/ visit = Len(Queues) THEN pc' = "release" /\ UNCHANGED visit
       ELSE pc' = "idle" /\ visit' = visit + 1
    /\ UNCHANGED <<device, removed, ordinal, slotFence, frame, idleValue,
                   changes, queue, timerVars, gpuVars, list>>

\* RTReleaseBackBuffers, then the new ones or the removal of the device.
ReplaceBackBuffers ==
    /\ pc = "release"
    /\ frame' = NoFrame
    /\ pc' \in IF removed THEN {"lost", "loop"} ELSE {"loop"}
    /\ UNCHANGED <<device, removed, ordinal, slotFence, idleValue, visit,
                   changes, queue, timerVars, gpuVars, list>>

\* RTPrepareToReinitD3D: the module and the counters let go of the device
\* (Clear, D3D12CounterManager::Reset), RTUninit releases it.
Uninit ==
    /\ pc = "lost"
    /\ recording' = FALSE /\ frame' = NoFrame
    /\ pending' = [s \in Slots |-> <<>>]
    /\ list' = [list EXCEPT !.open = FALSE, !.marks = {}]
    /\ pc' = "none"
    /\ UNCHANGED <<device, removed, ordinal, slotFence, idleValue, visit,
                   changes, queue, scopes, gpuVars>>

Reinit ==
    /\ pc = "none"
    /\ device' = device + 1
    /\ FreshDevice
    /\ pc' = "loop"
    /\ UNCHANGED <<changes, list, scopes>>

-----------------------------------------------------------------------------
(* The module, on the render thread, and the GPU.                          *)

Drawing == pc \in {"draw", "after"}

\* D3D12CommandList::Reset.
ResetList ==
    /\ Drawing /\ ~list.open /\ list.gen < MaxRecordings
    /\ list' = [open |-> TRUE, gen |-> list.gen + 1, marks |-> {}]
    /\ UNCHANGED <<device, removed, pc, backVars, queue, timerVars, gpuVars>>

\* D3D12CommandList::Close, and the list is executed.
ExecuteList ==
    /\ Drawing /\ list.open
    /\ list' = [list EXCEPT !.open = FALSE, !.marks = {}]
    /\ Submit("direct", Work(list.marks))
    /\ UNCHANGED <<device, removed, pc, backVars, timerVars, gpuVars>>

\* EndQuery of one of the two queries of pair p.
Query(p, part) ==
    list' = [list EXCEPT !.marks = @ \union
                {[slot |-> frame.slot, pair |-> p, part |-> part,
                  by |-> <<frame.ordinal, list.gen>>]}]

\* D3D12CounterManager::Begin.
BeginScope(h) ==
    /\ Drawing /\ scopes[h] = NoScope
    /\ recording /\ list.open /\ Len(pending[frame.slot]) < MaxPairs
    /\ LET p == Len(pending[frame.slot]) + 1 IN
       /\ scopes' = [scopes EXCEPT ![h] = [device |-> device, gen |-> list.gen,
                                           frame |-> frame.ordinal, pair |-> p]]
       /\ pending' = [pending EXCEPT ![frame.slot] =
                        Append(@, [frame |-> frame.ordinal, ended |-> FALSE])]
       /\ Query(p, "begin")
    /\ UNCHANGED <<device, removed, pc, backVars, queue, recording, gpuVars>>

\* Mutant of StillRecording: the recording is not compared.
SameFrame(s) ==
    recording /\ s.frame = frame.ordinal /\ s.device = device /\ list.open

\* The test of D3D12CounterManager::End.  A counter of an earlier device has
\* no list any more.
StillRecording(s) ==
    /\ recording /\ s.frame = frame.ordinal
    /\ s.device = device /\ list.open /\ s.gen = list.gen

\* D3D12CounterManager::End, whenever the module releases the scope; a sample
\* that ends too late is discarded.
EndScope(h) ==
    /\ scopes[h] # NoScope
    /\ LET s == scopes[h] IN
       IF StillRecording(s)
       THEN /\ pending' = [pending EXCEPT ![frame.slot][s.pair].ended = TRUE]
            /\ Query(s.pair, "end")
       ELSE UNCHANGED <<pending, list>>
    /\ scopes' = [scopes EXCEPT ![h] = NoScope]
    /\ UNCHANGED <<device, removed, pc, backVars, queue, recording, gpuVars>>

\* The values of pair p of a query heap after the queries of a list.
Marked(slot, p, marks) ==
    LET by(part) == {m \in marks : m.slot = slot /\ m.pair = p /\ m.part = part}
    IN [part \in {"begin", "end"} |->
            IF by(part) = {} THEN heap[slot][p][part]
            ELSE (CHOOSE m \in by(part) : TRUE).by]

\* Queue q executes its next command.
Execute(q) ==
    /\ ~removed /\ queue[q] # <<>>
    /\ queue' = [queue EXCEPT ![q] = Tail(@)]
    /\ LET c == Head(queue[q]) IN
       \/ /\ c.op = "work"
          /\ heap' = [s \in Slots |->
                        [p \in Pairs |-> Marked(s, p, c.marks)]]
          /\ UNCHANGED <<results, completed>>
       \/ /\ c.op = "resolve"
          /\ results' = [results EXCEPT ![c.slot] =
                [p \in Pairs |-> IF p \in c.pairs THEN heap[c.slot][p] ELSE @[p]]]
          /\ UNCHANGED <<heap, completed>>
       \/ /\ c.op = "signal"
          /\ completed' = [completed EXCEPT ![c.fence] = c.value]
          /\ UNCHANGED <<heap, results>>
    /\ UNCHANGED <<device, removed, pc, backVars, timerVars, list>>

\* The device is removed: what its queues hold is never executed.
Remove ==
    /\ ~removed /\ pc # "none" /\ device < MaxDevices
    /\ removed' = TRUE
    /\ queue' = [q \in QueueNames |-> <<>>]
    /\ UNCHANGED <<device, pc, backVars, timerVars, gpuVars, list>>

RenderStep ==
    \/ WaitForSlot \/ CheckRemoved \/ BeginFrame \/ Draw \/ Present
    \/ EndCounters \/ EndFrame \/ SignalIdle \/ WaitIdle
    \/ ReplaceBackBuffers \/ Uninit \/ Reinit

Next ==
    \/ Minimized \/ StartFrame \/ ChangeBackBuffers \/ RenderStep
    \/ ResetList \/ ExecuteList \/ Remove
    \/ \E h \in Scopes : BeginScope(h) \/ EndScope(h)
    \/ \E q \in QueueNames : Execute(q)

\* The render thread and the GPU go on, and the module executes its list.
Fairness ==
    /\ WF_vars(RenderStep) /\ WF_vars(ExecuteList)
    /\ \A q \in QueueNames : WF_vars(Execute(q))

Spec == Init /\ [][Next]_vars /\ Fairness

-----------------------------------------------------------------------------
Commands(q) == {queue[q][i] : i \in DOMAIN queue[q]}

Frames == 0 .. MaxFrames + 1

TypeOK ==
    /\ device \in 1 .. MaxDevices /\ removed \in BOOLEAN
    /\ pc \in {"loop", "fence", "check", "begin", "draw", "present", "after",
               "signal", "idle", "wait", "release", "lost", "none"}
    /\ ordinal \in Frames /\ slotFence \in [Slots -> Frames]
    /\ frame \in [ordinal : Frames, slot : Slots]
    /\ visit \in 1 .. Len(Queues) /\ idleValue \in 0 .. 3 * MaxChanges
    /\ changes \in 0 .. MaxChanges /\ recording \in BOOLEAN
    /\ completed.frame \in Frames /\ completed.idle \in 0 .. idleValue
    /\ \A s \in Slots : Len(pending[s]) <= MaxPairs
    /\ list.gen \in 0 .. MaxRecordings

InFrame == pc \in {"begin", "draw", "present", "after", "signal"}

\* From the entry to RTDraw on, the GPU runs nothing of an earlier frame that
\* had the same slot: the clear list and its allocator, the query heap, the
\* read back buffer and the module's own resources may be written ("safe to
\* reuse on entry to RTDraw", MGDF.idl:2473).
SlotsAreFreeWhenReused ==
    InFrame => \A c \in Commands("direct") :
                  c.op # "signal" /\ c.slot = frame.slot
                      => c.frame = frame.ordinal

\* Every sample BeginFrame records was measured: both timestamps it reads were
\* written in one recording of the list, in the frame the sample belongs to -
\* however late its scope was released, and whatever used the slot before.
RecordedSamplesAreWhole ==
    pc = "begin" =>
        \A p \in Recorded :
            LET r == results[frame.slot][p] IN
            /\ r.begin = r.end /\ r.begin # <<>>
            /\ r.begin[1] = pending[frame.slot][p].frame

\* When the back buffers are released no queue has work left, although one
\* fence serves all queues and its value says nothing of the other two.
BuffersReleasedWhenIdle ==
    pc = "release" => removed \/ \A q \in QueueNames : queue[q] = <<>>

\* No wait of the render thread for the GPU lasts for ever, also when the
\* device is removed while it waits.
WaitsEnd == (pc \in {"fence", "wait"}) ~> (pc \notin {"fence", "wait"})
=============================================================================
