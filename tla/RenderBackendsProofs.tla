------------------------ MODULE RenderBackendsProofs ------------------------
(***************************************************************************)
(* For any number of slots, pairs of queries, scopes, frames, devices,     *)
(* recordings and changes of the back buffers: what the CPU writes,        *)
(* releases or hands out again under Direct3D 12 the GPU has done with,    *)
(* and a sample that is recorded was measured in one recording of one      *)
(* frame.  And for any number of counters, disjoint queries and scopes     *)
(* under Direct3D 11: no query is lost or given out twice, and a sample    *)
(* that is recorded was measured by the scope that asked for it.           *)
(*                                                                         *)
(* Under Direct3D 12 both rest on the order of the direct queue.  A        *)
(* frame's work, the resolve of its queries and the signal of its fence    *)
(* follow one another, so a fence that has reached a frame leaves no       *)
(* command of that frame or an earlier one behind it, and a query that is  *)
(* resolved has been written by all that writes it.                        *)
(*                                                                         *)
(* Under Direct3D 11 they rest on the places of the queries: a pair comes  *)
(* back to its counter's stack only with the disjoint query it is noted    *)
(* under, so while a sample is noted no other scope ends its queries.      *)
(***************************************************************************)
EXTENDS RenderBackends, TLAPS

-----------------------------------------------------------------------------
(* What the state is made of.                                              *)

Parts == {"begin", "end"}

\* Who wrote a query: a recording of the list in a frame.
By == Frames \X (0 .. MaxRecordings)

Mark == [slot : Slots, pair : Pairs, part : Parts, by : By]

Works == [op : {"work"}, slot : Slots, frame : Frames, marks : SUBSET Mark]
Resolves == [op : {"resolve"}, slot : Slots, frame : Frames, pairs : SUBSET Pairs]
Signals == [op : {"signal"}, fence : {"frame", "idle"}, value : Nat]
Command == Works \union Resolves \union Signals

Sample == [frame : Frames, ended : BOOLEAN]
Held == [device : 1 .. MaxDevices, gen : 0 .. MaxRecordings, frame : Frames, pair : Pairs]

IsIdle(c) == c.op = "signal" /\ c.fence = "idle"

\* d may come after c in a queue.
Follows(c, d) ==
    /\ ~IsIdle(c)
    /\ c.op = "signal" /\ d.op # "signal" => d.frame > c.value
    /\ c.op = "signal" /\ d.op = "signal" /\ d.fence = "frame" => d.value > c.value
    /\ c.op = "resolve" /\ d.op = "work" => d.slot # c.slot

Ordered(q) == \A i, j \in 1 .. Len(q) : i < j => Follows(q[i], q[j])

Recording == {"draw", "present", "after"}

-----------------------------------------------------------------------------
(* The inductive invariant.                                                *)

FrameTypes ==
    /\ device \in 1 .. MaxDevices
    /\ pc \in {"loop", "fence", "check", "begin", "draw", "present", "after",
               "signal", "idle", "wait", "release", "lost", "none"}
    /\ ordinal \in Frames \ {0} /\ slotFence \in [Slots -> Frames]
    /\ frame \in [ordinal : Frames, slot : Slots]
    /\ queue \in [QueueNames -> Seq(Command)]
    /\ completed \in [frame : Nat, idle : Nat]
    /\ visit \in 1 .. 3 /\ idleValue \in Nat /\ changes \in 0 .. MaxChanges
    /\ list.gen \in 0 .. MaxRecordings /\ list.marks \in SUBSET Mark
    /\ scopes \in [Scopes -> Held \union {NoScope}]

BuffersTyped ==
    /\ pending \in [Slots -> Seq(Sample)]
    /\ \A s \in Slots : Len(pending[s]) <= MaxPairs
    /\ heap \in [Slots -> [Pairs -> [Parts -> By \union {<<>>}]]]
    /\ results \in [Slots -> [Pairs -> [Parts -> By \union {<<>>}]]]

FlagsTyped ==
    /\ removed \in BOOLEAN /\ recording \in BOOLEAN
    /\ list \in [open : BOOLEAN, gen : 0 .. MaxRecordings, marks : SUBSET Mark]

\* The frame the render thread is in is the next to be signalled; a list is
\* open in it only, and only a removed device is let go of.
FlowOK ==
    /\ recording <=> pc \in Recording
    /\ list.open => pc \in Recording
    /\ ~list.open => list.marks = {}
    /\ pc \in {"lost", "none"} => removed
    /\ removed => device < MaxDevices
    /\ pc \in {"fence", "check"} \/ InFrame => ordinal <= MaxFrames
    /\ pc = "check" \/ InFrame => frame.ordinal = ordinal /\ frame.slot = Slot(ordinal)
    /\ completed.frame < ordinal
    /\ \A s \in Slots : slotFence[s] < ordinal
    /\ pc = "check" => removed \/ completed.frame >= slotFence[frame.slot]

\* An idle signal is the last of its queue, the one that is visited, and is
\* awaited; the queues visited before are empty.
IdleOK ==
    /\ completed.idle <= idleValue
    /\ \A q \in QueueNames : \A c \in Commands(q) :
          IsIdle(c) => /\ pc = "wait" /\ q = Queues[visit]
                       /\ c.value = idleValue /\ completed.idle < idleValue
    /\ \A q \in QueueNames \ {"direct"} : \A c \in Commands(q) : IsIdle(c)
    /\ pc \in {"idle", "wait"} /\ visit > 1 => removed \/ queue["direct"] = <<>>
    /\ pc = "wait" /\ completed.idle >= idleValue => removed \/ queue[Queues[visit]] = <<>>
    /\ pc = "wait" /\ removed => \A q \in QueueNames : queue[q] = <<>>
    /\ BuffersReleasedWhenIdle

\* Each change of the back buffers signals the idle fence three times at most.
CountOK ==
    /\ idleValue <= 3 * changes
    /\ pc = "idle" => changes > 0 /\ idleValue <= 3 * (changes - 1) + visit - 1
    /\ pc = "wait" => changes > 0 /\ idleValue <= 3 * (changes - 1) + visit

\* What is in the direct queue is of frames whose fence is ahead, and a slot that
\* is recorded into has no resolve there.
OrderOK ==
    /\ \A q \in QueueNames : Ordered(queue[q])
    /\ \A c \in Commands("direct") :
          IF c.op = "signal"
          THEN c.fence = "frame" => c.value > completed.frame /\ c.value < ordinal
          ELSE /\ c.frame > completed.frame /\ c.frame <= ordinal
               /\ c.frame < ordinal => c.frame <= slotFence[c.slot]
               /\ c.frame = ordinal => /\ c.slot = Slot(ordinal)
                                       /\ pc \in Recording \union {"signal", "lost", "none"}
    /\ SlotsAreFreeWhenReused
    /\ pc = "begin" => \A c \in Commands("direct") : c.op # "signal" => c.slot # frame.slot
    /\ recording => \A c \in Commands("direct") : c.op = "resolve" => c.slot # frame.slot

\* A query of pair p of slot s
Of(m, s, p) == m.slot = s /\ m.pair = p

\* Whoever still writes the queries of pair p is b.
MarkedBy(s, p, b) ==
    /\ \A m \in list.marks : Of(m, s, p) => m.by = b
    /\ \A c \in Commands("direct") : c.op = "work" =>
          \A m \in c.marks : Of(m, s, p) => m.by = b

\* The query is to be written, or was.
Issued(s, p, part, b) ==
    \/ \E m \in list.marks : Of(m, s, p) /\ m.part = part
    \/ \E c \in Commands("direct") : c.op = "work" /\
          \E m \in c.marks : Of(m, s, p) /\ m.part = part
    \/ heap[s][p][part] = b

\* The samples of the slot are still to be resolved.
Unresolved(s) ==
    \/ recording /\ frame.slot = s
    \/ \E c \in Commands("direct") : c.op = "resolve" /\ c.slot = s

SampleOK(s, p, b) ==
    /\ b[1] = pending[s][p].frame
    /\ MarkedBy(s, p, b)
    /\ pending[s][p].ended =>
          \A part \in Parts : /\ Issued(s, p, part, b)
                              /\ ~Unresolved(s) => results[s][p][part] = b

\* Marks are of samples that were begun, and a resolve reads those that ended.
MarksOK ==
    /\ \A m \in list.marks : m.slot = frame.slot /\ m.pair \in DOMAIN pending[m.slot]
    /\ \A c \in Commands("direct") : c.op = "work" =>
          \A m \in c.marks : m.slot = c.slot /\ m.pair \in DOMAIN pending[m.slot]
    /\ \A c \in Commands("direct") : c.op = "resolve" =>
          c.pairs = {p \in DOMAIN pending[c.slot] : pending[c.slot][p].ended}

SamplesOK ==
    removed \/
      /\ MarksOK
      /\ \A s \in Slots : \A p \in DOMAIN pending[s] : \E b \in By : SampleOK(s, p, b)

\* The scope is of the frame that is being recorded.
IsCurrent(s) == recording /\ s.device = device /\ s.frame = ordinal

\* A scope refers to a sample of its own frame, and to a recording.
ScopesOK ==
    \A h \in Scopes : LET s == scopes[h] IN s # NoScope =>
        /\ s.device <= device /\ s.gen <= list.gen
        /\ s.device = device => s.frame <= ordinal
        /\ s.device = device /\ s.frame = ordinal =>
              pc \in Recording \union {"signal", "lost", "none"}
        /\ IsCurrent(s) => s.pair \in DOMAIN pending[frame.slot]
        /\ IsCurrent(s) /\ ~removed =>
              /\ pending[frame.slot][s.pair].frame = ordinal
              /\ MarkedBy(frame.slot, s.pair, <<ordinal, s.gen>>)
              /\ list.open /\ s.gen = list.gen =>
                    \E m \in list.marks : Of(m, frame.slot, s.pair) /\ m.part = "begin"

FramesOK ==
    /\ FrameTypes /\ BuffersTyped /\ FlagsTyped /\ FlowOK /\ IdleOK /\ CountOK
    /\ OrderOK /\ SamplesOK /\ ScopesOK /\ RecordedSamplesAreWhole

-----------------------------------------------------------------------------
(* Queues.                                                                 *)

\* A command more.
LEMMA AppendElements ==
  ASSUME NEW S, NEW q \in Seq(S), NEW x \in S
  PROVE  /\ Append(q, x) \in Seq(S) /\ Append(q, x) # <<>>
         /\ {Append(q, x)[i] : i \in DOMAIN Append(q, x)} = {q[i] : i \in DOMAIN q} \union {x}
<1>1. Append(q, x) \in Seq(S) /\ Len(Append(q, x)) = Len(q) + 1
  OBVIOUS
<1>2. \A i \in 1 .. Len(q) : Append(q, x)[i] = q[i]
  OBVIOUS
<1>3. Append(q, x)[Len(q) + 1] = x
  OBVIOUS
<1>4. DOMAIN Append(q, x) = 1 .. Len(q) + 1 /\ DOMAIN q = 1 .. Len(q) /\ Len(q) \in Nat
  BY <1>1
<1> QED BY <1>1, <1>2, <1>3, <1>4

\* The element that is appended comes after the others.
LEMMA AppendedTo ==
  ASSUME NEW S, NEW q \in Seq(S), NEW x \in S, NEW n, n = Len(q) + 1
  PROVE  /\ DOMAIN Append(q, x) = DOMAIN q \union {n} /\ n \notin DOMAIN q
         /\ Append(q, x)[n] = x
         /\ \A i \in DOMAIN q : Append(q, x)[i] = q[i]
<1>1. Append(q, x) \in Seq(S) /\ Len(Append(q, x)) = Len(q) + 1
  OBVIOUS
<1>2. \A i \in 1 .. Len(q) : Append(q, x)[i] = q[i]
  OBVIOUS
<1>3. Append(q, x)[Len(q) + 1] = x
  OBVIOUS
<1>4. DOMAIN Append(q, x) = 1 .. Len(q) + 1 /\ DOMAIN q = 1 .. Len(q) /\ Len(q) \in Nat
  BY <1>1
<1> QED BY <1>2, <1>3, <1>4

\* The first command is gone.
LEMMA TailElements ==
  ASSUME NEW S, NEW q \in Seq(S), q # <<>>
  PROVE  /\ Tail(q) \in Seq(S) /\ Head(q) \in S
         /\ {q[i] : i \in DOMAIN q} = {Tail(q)[i] : i \in DOMAIN Tail(q)} \union {Head(q)}
<1>1. /\ Tail(q) \in Seq(S) /\ Len(Tail(q)) = Len(q) - 1
      /\ Len(q) \in Nat /\ Len(q) > 0 /\ Head(q) = q[1] /\ q[1] \in S
  OBVIOUS
<1>2. \A i \in 1 .. Len(q) - 1 : Tail(q)[i] = q[i + 1]
  OBVIOUS
<1>3. DOMAIN Tail(q) = 1 .. Len(q) - 1 /\ DOMAIN q = 1 .. Len(q)
  BY <1>1
<1>4. \A i \in 1 .. Len(q) : i = 1 \/ (i - 1 \in 1 .. Len(q) - 1 /\ Tail(q)[i - 1] = q[i])
  BY <1>1, <1>2
<1>5. ASSUME NEW x \in {q[i] : i \in DOMAIN q}
      PROVE  x \in {Tail(q)[i] : i \in DOMAIN Tail(q)} \union {Head(q)}
  BY ZenonT(40), <1>1, <1>3, <1>4
<1>6. ASSUME NEW i \in DOMAIN Tail(q)
      PROVE  Tail(q)[i] \in {q[j] : j \in DOMAIN q}
  <2>1. i + 1 \in DOMAIN q
    BY <1>1, <1>3
  <2> QED BY <1>2, <1>3, <2>1
<1>7. Head(q) \in {q[j] : j \in DOMAIN q}
  BY <1>1, <1>3
<1> QED BY <1>1, <1>5, <1>6, <1>7

\* An order that a new command keeps.
LEMMA OrderedAppend ==
  ASSUME NEW S, NEW q \in Seq(S), NEW x \in S, Ordered(q),
         \A d \in {q[i] : i \in DOMAIN q} : Follows(d, x)
  PROVE  Ordered(Append(q, x))
<1>1. Append(q, x) \in Seq(S) /\ Len(Append(q, x)) = Len(q) + 1 /\ Len(q) \in Nat
  OBVIOUS
<1>2. \A i \in 1 .. Len(q) : Append(q, x)[i] = q[i]
  OBVIOUS
<1>3. Append(q, x)[Len(q) + 1] = x
  OBVIOUS
<1>4. \A i \in 1 .. Len(q) : Follows(q[i], x)
  OBVIOUS
<1> QED BY <1>1, <1>2, <1>3, <1>4 DEF Ordered

\* The first command comes before all others.
LEMMA OrderedTail ==
  ASSUME NEW S, NEW q \in Seq(S), q # <<>>, Ordered(q)
  PROVE  /\ Ordered(Tail(q))
         /\ \A d \in {Tail(q)[i] : i \in DOMAIN Tail(q)} : Follows(Head(q), d)
<1>1. /\ Tail(q) \in Seq(S) /\ Len(Tail(q)) = Len(q) - 1
      /\ Len(q) \in Nat /\ Len(q) > 0 /\ Head(q) = q[1]
  OBVIOUS
<1>2. \A i \in 1 .. Len(q) - 1 : Tail(q)[i] = q[i + 1] /\ i + 1 \in 1 .. Len(q)
  OBVIOUS
<1>3. DOMAIN Tail(q) = 1 .. Len(q) - 1
  BY <1>1
<1>4. \A i, j \in 1 .. Len(q) - 1 : i < j => i + 1 < j + 1
  OBVIOUS
<1>5. \A i \in 1 .. Len(q) - 1 : 1 < i + 1 /\ 1 \in 1 .. Len(q)
  BY <1>1
<1> QED BY <1>1, <1>2, <1>3, <1>4, <1>5 DEF Ordered

\* What Submit does.
LEMMA Submitted ==
  ASSUME FrameTypes, NEW q \in QueueNames, NEW c \in Command, Submit(q, c)
  PROVE  /\ queue' \in [QueueNames -> Seq(Command)]
         /\ queue'[q] # <<>> /\ Commands(q)' = Commands(q) \union {c}
         /\ \A r \in QueueNames : r # q => queue'[r] = queue[r] /\ Commands(r)' = Commands(r)
         /\ /\ \A r \in QueueNames : Ordered(queue[r])
            /\ \A d \in Commands(q) : Follows(d, c)
            => \A r \in QueueNames : Ordered(queue'[r])
<1>1. /\ queue \in [QueueNames -> Seq(Command)]
      /\ queue' = [queue EXCEPT ![q] = Append(queue[q], c)]
  BY DEF FrameTypes, Submit
<1>2. queue[q] \in Seq(Command)
  BY <1>1
<1>3. Append(queue[q], c) \in Seq(Command) /\ Append(queue[q], c) # <<>>
  BY <1>2, AppendElements
<1>4. queue'[q] = Append(queue[q], c) /\ \A r \in QueueNames : r # q => queue'[r] = queue[r]
  BY <1>1
<1>5. queue' \in [QueueNames -> Seq(Command)]
  BY <1>1, <1>3
<1>6. Commands(q)' = Commands(q) \union {c}
  BY <1>2, <1>4, AppendElements DEF Commands
<1>7. \A r \in QueueNames : r # q => Commands(r)' = Commands(r)
  BY <1>4 DEF Commands
<1>8. ASSUME \A r \in QueueNames : Ordered(queue[r]), \A d \in Commands(q) : Follows(d, c)
      PROVE  \A r \in QueueNames : Ordered(queue'[r])
  <2>1. Ordered(Append(queue[q], c))
    BY <1>2, <1>8, OrderedAppend DEF Commands
  <2> QED BY <1>4, <1>8, <2>1
<1> QED BY <1>3, <1>4, <1>5, <1>6, <1>7, <1>8

\* What the execution of a command does to the queues.
LEMMA Executed ==
  ASSUME FrameTypes, NEW q \in QueueNames, queue[q] # <<>>,
         queue' = [queue EXCEPT ![q] = Tail(@)], NEW c, c = Head(queue[q])
  PROVE  /\ queue' \in [QueueNames -> Seq(Command)]
         /\ c \in Command /\ Commands(q) = Commands(q)' \union {c}
         /\ queue'[q] # <<>> => \E d \in Commands(q)' : TRUE
         /\ \A r \in QueueNames : r # q => queue'[r] = queue[r] /\ Commands(r)' = Commands(r)
         /\ (\A r \in QueueNames : Ordered(queue[r]))
            => /\ \A r \in QueueNames : Ordered(queue'[r])
               /\ \A d \in Commands(q)' : Follows(c, d)
<1>1. /\ queue \in [QueueNames -> Seq(Command)]
      /\ queue' = [queue EXCEPT ![q] = Tail(queue[q])]
  BY DEF FrameTypes
<1>2. queue[q] \in Seq(Command)
  BY <1>1
<1>3. Tail(queue[q]) \in Seq(Command) /\ c \in Command
  BY <1>2, TailElements
<1>4. queue'[q] = Tail(queue[q]) /\ \A r \in QueueNames : r # q => queue'[r] = queue[r]
  BY <1>1
<1>5. queue' \in [QueueNames -> Seq(Command)]
  BY <1>1, <1>3
<1>6. Commands(q) = Commands(q)' \union {c}
  <2> DEFINE t == Tail(queue[q])
  <2>1. {queue[q][i] : i \in DOMAIN queue[q]} = {t[i] : i \in DOMAIN t} \union {c}
    BY <1>2, TailElements, Zenon
  <2>2. Commands(q)' = {t[i] : i \in DOMAIN t}
    BY <1>4 DEF Commands
  <2> QED BY <2>1, <2>2, Zenon DEF Commands
<1>7. \A r \in QueueNames : r # q => Commands(r)' = Commands(r)
  BY <1>4 DEF Commands
<1>8. ASSUME \A r \in QueueNames : Ordered(queue[r])
      PROVE  /\ \A r \in QueueNames : Ordered(queue'[r])
             /\ \A d \in Commands(q)' : Follows(c, d)
  <2>1. /\ Ordered(Tail(queue[q]))
        /\ \A d \in {Tail(queue[q])[i] : i \in DOMAIN Tail(queue[q])} : Follows(c, d)
    BY <1>2, <1>8, OrderedTail
  <2> QED BY <1>4, <1>8, <2>1 DEF Commands
<1>9. queue'[q] # <<>> => \E d \in Commands(q)' : TRUE
  BY <1>5 DEF Commands
<1> QED BY <1>3, <1>4, <1>5, <1>6, <1>7, <1>8, <1>9

\* A queue that has a command isn't empty, and the other way round.
LEMMA EmptyQueue ==
  ASSUME FrameTypes, NEW q \in QueueNames
  PROVE  (queue[q] = <<>>) <=> (Commands(q) = {})
<1>1. queue[q] \in Seq(Command)
  BY DEF FrameTypes
<1>2. ASSUME queue[q] # <<>> PROVE queue[q][1] \in Commands(q)
  <2>1. 1 \in DOMAIN queue[q]
    BY <1>1, <1>2
  <2> QED BY <2>1 DEF Commands
<1>3. ASSUME queue[q] = <<>> PROVE Commands(q) = {}
  BY <1>3 DEF Commands
<1> QED BY <1>2, <1>3

-----------------------------------------------------------------------------
(* Types.                                                                  *)

\* The numbers the model counts with.
LEMMA Numbers ==
  /\ MaxDevices \in Nat \ {0} /\ MaxFrames \in Nat /\ MaxPairs \in Nat
  /\ MaxRecordings \in Nat /\ MaxChanges \in Nat
  /\ 0 \in Slots /\ \A n \in Nat : Slot(n) \in Slots
  /\ Frames \subseteq Nat /\ Slots \subseteq Nat
  /\ Queues[1] = "direct" /\ Queues[2] = "compute" /\ Queues[3] = "copy"
  /\ Len(Queues) = 3 /\ \A v \in 1 .. 3 : Queues[v] \in QueueNames
<1>1. /\ MaxDevices \in Nat \ {0} /\ MaxFrames \in Nat /\ MaxPairs \in Nat
      /\ MaxRecordings \in Nat /\ MaxChanges \in Nat /\ FramesInFlight \in Nat \ {0}
  BY FrameAssumption
<1>2. 0 \in Slots /\ \A n \in Nat : Slot(n) \in Slots
  BY <1>1 DEF Slots, Slot
<1>3. /\ Queues[1] = "direct" /\ Queues[2] = "compute" /\ Queues[3] = "copy"
      /\ Len(Queues) = 3 /\ \A v \in 1 .. 3 : Queues[v] \in QueueNames
  BY DEF Queues, QueueNames
<1> QED BY <1>1, <1>2, <1>3 DEF Frames, Slots

\* What is submitted is a command.
LEMMA AreCommands ==
  ASSUME FrameTypes
  PROVE  /\ \A marks \in SUBSET Mark : Work(marks) \in Command
         /\ \A pairs \in SUBSET Pairs :
               [op |-> "resolve", slot |-> frame.slot, frame |-> frame.ordinal,
                pairs |-> pairs] \in Command
         /\ \A fence \in {"frame", "idle"}, value \in Nat :
               [op |-> "signal", fence |-> fence, value |-> value] \in Command
<1>1. frame.slot \in Slots /\ frame.ordinal \in Frames
  BY DEF FrameTypes
<1>2. \A marks \in SUBSET Mark : Work(marks) \in Works
  BY <1>1 DEF Work, Works
<1>3. \A pairs \in SUBSET Pairs :
          [op |-> "resolve", slot |-> frame.slot, frame |-> frame.ordinal,
           pairs |-> pairs] \in Resolves
  BY <1>1 DEF Resolves
<1>4. \A fence \in {"frame", "idle"}, value \in Nat :
          [op |-> "signal", fence |-> fence, value |-> value] \in Signals
  BY DEF Signals
<1> QED BY <1>2, <1>3, <1>4 DEF Command

\* The pairs in use are pairs.
LEMMA PairsInUse ==
  ASSUME BuffersTyped, NEW s \in Slots PROVE DOMAIN pending[s] \in SUBSET Pairs
<1>1. pending[s] \in Seq(Sample) /\ Len(pending[s]) <= MaxPairs
  BY DEF BuffersTyped
<1>2. DOMAIN pending[s] = 1 .. Len(pending[s]) /\ Len(pending[s]) \in Nat
  BY <1>1
<1>3. \A n \in 1 .. Len(pending[s]) : n \in 1 .. MaxPairs
  BY <1>1, <1>2, Numbers
<1> QED BY <1>2, <1>3 DEF Pairs

\* A pair more.
LEMMA NextPair == ASSUME NEW n \in Nat, n < MaxPairs PROVE n + 1 \in Pairs
BY Numbers DEF Pairs

\* A list with other marks.
LEMMA ListMarks ==
  ASSUME FlagsTyped, NEW m
  PROVE  [list EXCEPT !.marks = @ \union {m}] =
            [open |-> list.open, gen |-> list.gen, marks |-> list.marks \union {m}]
BY DEF FlagsTyped

\* How the queues change in a step.
LEMMA QueueTypes == ASSUME FramesOK, Next PROVE queue' \in [QueueNames -> Seq(Command)]
<1> USE DEF FramesOK
<1>1. CASE UNCHANGED queue
  BY <1>1 DEF FrameTypes
<1>2. CASE \E c \in Command, q \in QueueNames : Submit(q, c)
  BY <1>2, Submitted
<1>3. CASE \E q \in QueueNames : Execute(q)
  <2> PICK q \in QueueNames : Execute(q)
    BY <1>3
  <2>1. queue[q] # <<>> /\ queue' = [queue EXCEPT ![q] = Tail(@)]
    BY DEF Execute
  <2> QED BY <2>1, Executed
<1>4. CASE queue' = [q \in QueueNames |-> <<>>]
  BY <1>4
<1>5. {} \in SUBSET Mark /\ list.marks \in SUBSET Mark
  BY DEF FrameTypes
<1>6. Recorded \in SUBSET Pairs
  <2>1. frame.slot \in Slots
    BY DEF FrameTypes
  <2> QED BY <2>1, PairsInUse DEF Recorded, InUse
<1>7. CASE Draw \/ Present \/ ExecuteList \/ EndCounters
  <2>1. "direct" \in QueueNames
    BY DEF QueueNames
  <2> QED BY <1>1, <1>2, <1>5, <1>6, <1>7, <2>1, AreCommands
          DEF Draw, Present, ExecuteList, EndCounters
<1>8. CASE EndFrame \/ SignalIdle
  <2>1. "direct" \in QueueNames /\ Queues[visit] \in QueueNames
    BY Numbers DEF FrameTypes, QueueNames
  <2>2. ordinal \in Nat /\ idleValue + 1 \in Nat
    BY Numbers DEF FrameTypes
  <2> QED BY <1>1, <1>2, <1>8, <2>1, <2>2, AreCommands DEF EndFrame, SignalIdle
<1>9. CASE Remove \/ Reinit
  BY <1>4, <1>9 DEF Remove, Reinit, FreshDevice
<1>10. CASE \/ Minimized \/ StartFrame \/ ChangeBackBuffers
            \/ WaitForSlot \/ CheckRemoved \/ BeginFrame
            \/ WaitIdle \/ ReplaceBackBuffers \/ Uninit
            \/ ResetList \/ \E h \in Scopes : BeginScope(h) \/ EndScope(h)
  BY <1>1, <1>10 DEF Minimized, StartFrame, ChangeBackBuffers, WaitForSlot, CheckRemoved,
     BeginFrame, WaitIdle, ReplaceBackBuffers, Uninit, ResetList, BeginScope, EndScope, vars
<1> QED BY <1>3, <1>7, <1>8, <1>9, <1>10 DEF Next, RenderStep

\* A step keeps the types, apart from the buffers'.
LEMMA TypesStep == ASSUME FramesOK, Next PROVE FrameTypes' /\ FlagsTyped' /\ CountOK'
<1> USE Numbers DEF FramesOK
<1>1. queue' \in [QueueNames -> Seq(Command)]
  BY QueueTypes
<1>2. CASE Minimized \/ StartFrame \/ CheckRemoved \/ Draw \/ Present
  BY <1>1, <1>2
  DEF Minimized, StartFrame, CheckRemoved, Draw, Present, FrameTypes, FlagsTyped, CountOK,
      backVars, timerVars, gpuVars, vars
<1>3. CASE WaitForSlot \/ BeginFrame \/ EndCounters
  <2>1. CASE WaitForSlot
    <3>1. [ordinal |-> ordinal, slot |-> Slot(ordinal)] \in [ordinal : Frames, slot : Slots]
      BY DEF FrameTypes
    <3> QED
      BY <1>1, <2>1, <3>1
      DEF WaitForSlot, FrameTypes, FlagsTyped, CountOK, timerVars, gpuVars
  <2>2. CASE BeginFrame
    BY <1>1, <2>2 DEF BeginFrame, FrameTypes, FlagsTyped, CountOK, backVars, gpuVars
  <2>3. CASE EndCounters
    BY <1>1, <2>3 DEF EndCounters, FrameTypes, FlagsTyped, CountOK, backVars, gpuVars
  <2> QED BY <1>3, <2>1, <2>2, <2>3
<1>4. CASE EndFrame
  <2>1. ordinal <= MaxFrames
    BY <1>4 DEF EndFrame, FlowOK, InFrame
  <2>2. /\ ordinal' \in Frames \ {0} /\ slotFence' \in [Slots -> Frames]
        /\ pc' \in {"loop", "lost"}
    BY SMTT(30), <1>4, <2>1 DEF EndFrame, FrameTypes, Frames
  <2> QED
    BY <1>1, <1>4, <2>2 DEF EndFrame, FrameTypes, FlagsTyped, CountOK, timerVars, gpuVars
<1>5. CASE ChangeBackBuffers \/ SignalIdle \/ WaitIdle \/ ReplaceBackBuffers
  <2>1. /\ UNCHANGED <<device, removed, ordinal, slotFence, recording, completed, list,
                       scopes>>
        /\ pc' \in {"idle", "wait", "release", "loop", "lost"}
        /\ frame' = frame \/ frame' = NoFrame
        /\ changes' \in 0 .. MaxChanges /\ visit' \in 1 .. 3 /\ idleValue' \in Nat
    <3>1. CASE ChangeBackBuffers
      BY <3>1 DEF ChangeBackBuffers, FrameTypes, timerVars, gpuVars
    <3>2. CASE SignalIdle
      BY <3>2 DEF SignalIdle, FrameTypes, timerVars, gpuVars
    <3>3. CASE WaitIdle
      BY <3>3 DEF WaitIdle, FrameTypes, timerVars, gpuVars
    <3>4. CASE ReplaceBackBuffers
      BY <3>4 DEF ReplaceBackBuffers, FrameTypes, timerVars, gpuVars
    <3> QED BY <1>5, <3>1, <3>2, <3>3, <3>4
  <2>2. CountOK'
    <3>1. CASE ChangeBackBuffers
      BY SMTT(30), <3>1 DEF ChangeBackBuffers, FrameTypes, CountOK
    <3>2. CASE SignalIdle
      BY <3>2 DEF SignalIdle, FrameTypes, CountOK
    <3>3. CASE WaitIdle
      BY <3>3 DEF WaitIdle, FrameTypes, CountOK
    <3>4. CASE ReplaceBackBuffers
      BY <3>4 DEF ReplaceBackBuffers, FrameTypes, CountOK
    <3> QED BY <1>5, <3>1, <3>2, <3>3, <3>4
  <2>3. NoFrame \in [ordinal : Frames, slot : Slots]
    BY DEF NoFrame, Frames
  <2> QED BY <1>1, <2>1, <2>2, <2>3 DEF FrameTypes, FlagsTyped
<1>6. CASE Uninit
  <2>1. /\ UNCHANGED <<device, removed, ordinal, slotFence, completed, scopes, idleValue,
                       visit, changes>>
        /\ frame' = NoFrame /\ pc' = "none" /\ recording' = FALSE
        /\ list' = [open |-> FALSE, gen |-> list.gen, marks |-> {}]
    BY <1>6 DEF Uninit, gpuVars, FlagsTyped
  <2>2. NoFrame \in [ordinal : Frames, slot : Slots]
    BY DEF NoFrame, Frames
  <2> QED BY <1>1, <2>1, <2>2 DEF FrameTypes, FlagsTyped, CountOK
<1>7. CASE Reinit
  <2>1. device' \in 1 .. MaxDevices
    BY <1>7 DEF Reinit, FlowOK, FrameTypes
  <2>2. NoFrame \in [ordinal : Frames, slot : Slots]
    BY DEF NoFrame, Frames
  <2>3. /\ UNCHANGED <<changes, list, scopes>> /\ removed' = FALSE /\ recording' = FALSE
        /\ ordinal' = 1 /\ slotFence' = [s \in Slots |-> 0] /\ frame' = NoFrame
        /\ completed' = [frame |-> 0, idle |-> 0] /\ idleValue' = 0 /\ visit' = 1
        /\ pc' = "loop"
    BY <1>7 DEF Reinit, FreshDevice
  <2>6. FlagsTyped'
    BY <2>3 DEF FlagsTyped
  <2>4. FlagsTyped' /\ CountOK'
    BY <2>3, <2>6 DEF FrameTypes, CountOK
  <2>5. /\ slotFence' \in [Slots -> Frames] /\ ordinal' \in Frames \ {0}
        /\ completed' \in [frame : Nat, idle : Nat]
    BY <2>3 DEF Frames
  <2> QED BY <1>1, <2>1, <2>2, <2>3, <2>4, <2>5 DEF FrameTypes
<1>8. CASE ResetList
  <2>1. /\ UNCHANGED <<device, removed, pc, backVars, queue, timerVars, gpuVars>>
        /\ list' = [open |-> TRUE, gen |-> list.gen + 1, marks |-> {}]
        /\ list.gen + 1 \in 0 .. MaxRecordings
    BY <1>8 DEF ResetList, FrameTypes
  <2> QED BY <1>1, <2>1 DEF FrameTypes, FlagsTyped, CountOK, backVars, timerVars, gpuVars
<1>9. CASE ExecuteList
  <2>1. /\ UNCHANGED <<device, removed, pc, backVars, timerVars, gpuVars>>
        /\ list' = [open |-> FALSE, gen |-> list.gen, marks |-> {}]
    BY <1>9 DEF ExecuteList, FlagsTyped
  <2> QED BY <1>1, <2>1 DEF FrameTypes, FlagsTyped, CountOK, backVars, timerVars, gpuVars
<1>10. CASE \E h \in Scopes : BeginScope(h)
  <2> PICK h \in Scopes : BeginScope(h)
    BY <1>10
  <2> DEFINE p == Len(pending[frame.slot]) + 1
             b == <<frame.ordinal, list.gen>>
             m == [slot |-> frame.slot, pair |-> p, part |-> "begin", by |-> b]
             held == [device |-> device, gen |-> list.gen,
                      frame |-> frame.ordinal, pair |-> p]
  <2>1. /\ UNCHANGED <<device, removed, pc, backVars, queue, recording, gpuVars>>
        /\ list' = [list EXCEPT !.marks = @ \union {m}]
        /\ scopes' = [scopes EXCEPT ![h] = held]
        /\ Len(pending[frame.slot]) < MaxPairs
    BY DEF BeginScope, Query
  <2>2. /\ pending[frame.slot] \in Seq(Sample)
        /\ frame.slot \in Slots /\ frame.ordinal \in Frames
    BY DEF FrameTypes, BuffersTyped
  <2>3. Len(pending[frame.slot]) \in Nat
    BY <2>2
  <2>4. p \in Pairs /\ b \in By
    <3>1. p \in Pairs
      BY <2>1, <2>3, NextPair
    <3>2. b \in By
      BY <2>2 DEF By, FrameTypes
    <3> QED BY <3>1, <3>2
  <2>5. m \in Mark /\ held \in Held
    BY <2>2, <2>4 DEF Mark, Held, FrameTypes, Parts
  <2> HIDE DEF m, held
  <2>6. list' = [open |-> list.open, gen |-> list.gen, marks |-> list.marks \union {m}]
    BY <2>1, ListMarks
  <2>7. scopes' \in [Scopes -> Held \union {NoScope}]
    BY <2>1, <2>5 DEF FrameTypes
  <2>8. list'.gen \in 0 .. MaxRecordings /\ list'.marks \in SUBSET Mark /\ FlagsTyped'
    <3>1. list \in [open : BOOLEAN, gen : 0 .. MaxRecordings, marks : SUBSET Mark]
      BY DEF FlagsTyped
    <3>2. list.marks \union {m} \in SUBSET Mark
      BY <2>5, <3>1
    <3>3. list' \in [open : BOOLEAN, gen : 0 .. MaxRecordings, marks : SUBSET Mark]
      BY <2>6, <3>1, <3>2
    <3> QED BY <2>1, <3>3 DEF FlagsTyped
  <2> QED BY <1>1, <2>1, <2>7, <2>8 DEF FrameTypes, CountOK, backVars, gpuVars
<1>11. CASE \E h \in Scopes : EndScope(h)
  <2> PICK h \in Scopes : EndScope(h)
    BY <1>11
  <2> DEFINE p == scopes[h].pair
             b == <<frame.ordinal, list.gen>>
             m == [slot |-> frame.slot, pair |-> p, part |-> "end", by |-> b]
  <2>1. /\ UNCHANGED <<device, removed, pc, backVars, queue, recording, gpuVars>>
        /\ list' = list \/ list' = [list EXCEPT !.marks = @ \union {m}]
        /\ scopes' = [scopes EXCEPT ![h] = NoScope] /\ scopes[h] # NoScope
    BY DEF EndScope, Query
  <2>2. scopes[h] \in Held /\ frame.slot \in Slots /\ frame.ordinal \in Frames
    BY <2>1 DEF FrameTypes
  <2>3. p \in Pairs /\ b \in By
    BY <2>2 DEF By, FrameTypes, Held
  <2>4. m \in Mark
    BY <2>2, <2>3 DEF Mark, Parts
  <2> HIDE DEF m
  <2>5. \/ list' = list
        \/ list' = [open |-> list.open, gen |-> list.gen, marks |-> list.marks \union {m}]
    BY <2>1, ListMarks DEF FlagsTyped
  <2>6. scopes' \in [Scopes -> Held \union {NoScope}]
    BY <2>1 DEF FrameTypes
  <2>7. list'.gen \in 0 .. MaxRecordings /\ list'.marks \in SUBSET Mark /\ FlagsTyped'
    BY <2>1, <2>4, <2>5 DEF FlagsTyped
  <2> QED BY <1>1, <2>1, <2>6, <2>7 DEF FrameTypes, CountOK, backVars, gpuVars
<1>12. CASE \E q \in QueueNames : Execute(q)
  <2> PICK q \in QueueNames : Execute(q)
    BY <1>12
  <2> DEFINE c == Head(queue[q])
  <2>1. c \in Command
    BY Executed DEF Execute
  <2> HIDE DEF c
  <2>2. /\ UNCHANGED <<device, removed, pc, backVars, timerVars, list>>
        /\ completed' = completed \/
             (c.op = "signal" /\ completed' = [completed EXCEPT ![c.fence] = c.value])
    BY DEF Execute, c
  <2>3. completed' \in [frame : Nat, idle : Nat]
    <3>1. CASE completed' = completed
      BY <3>1 DEF FrameTypes
    <3>2. CASE c.op = "signal" /\ completed' = [completed EXCEPT ![c.fence] = c.value]
      <4>1. c \in Signals
        BY <2>1, <3>2 DEF Command, Works, Resolves
      <4>2. c.fence \in {"frame", "idle"} /\ c.value \in Nat
        BY <4>1 DEF Signals
      <4> QED BY <3>2, <4>2 DEF FrameTypes
    <3> QED BY <2>2, <3>1, <3>2
  <2> QED BY <1>1, <2>2, <2>3 DEF FrameTypes, FlagsTyped, CountOK, backVars, timerVars
<1>13. CASE Remove
  BY <1>1, <1>13 DEF Remove, FrameTypes, FlagsTyped, CountOK, backVars, timerVars, gpuVars
<1> QED
  BY <1>2, <1>3, <1>4, <1>5, <1>6, <1>7, <1>8, <1>9, <1>10, <1>11, <1>12, <1>13
  DEF Next, RenderStep

\* The actions that leave the buffers and the counters' samples alone
Leaves ==
    \/ Minimized \/ StartFrame \/ ChangeBackBuffers \/ WaitForSlot \/ CheckRemoved
    \/ Draw \/ Present \/ EndCounters \/ EndFrame \/ SignalIdle \/ WaitIdle
    \/ ReplaceBackBuffers \/ ResetList \/ ExecuteList \/ Remove

LEMMA LeavesBuffers == ASSUME Leaves PROVE UNCHANGED <<pending, heap, results, scopes>>
BY DEF Leaves, Minimized, StartFrame, ChangeBackBuffers, WaitForSlot, CheckRemoved,
   Draw, Present, EndCounters, EndFrame, SignalIdle, WaitIdle,
   ReplaceBackBuffers, ResetList, ExecuteList, Remove, timerVars, gpuVars, vars

\* The query a mark is of holds a recording or nothing.
LEMMA MarkedTyped ==
  ASSUME BuffersTyped, NEW s \in Slots, NEW p \in Pairs, NEW marks \in SUBSET Mark
  PROVE  /\ Marked(s, p, marks) \in [Parts -> By \union {<<>>}]
         /\ \A part \in Parts :
               \/ Marked(s, p, marks)[part] = heap[s][p][part]
                  /\ ~\E m \in marks : Of(m, s, p) /\ m.part = part
               \/ \E m \in marks : /\ Of(m, s, p) /\ m.part = part
                                   /\ Marked(s, p, marks)[part] = m.by
<1> DEFINE by(part) == {m \in marks : m.slot = s /\ m.pair = p /\ m.part = part}
           value(part) == IF by(part) = {} THEN heap[s][p][part]
                          ELSE (CHOOSE m \in by(part) : TRUE).by
<1>1. Marked(s, p, marks) = [part \in Parts |-> value(part)]
  BY DEF Marked, Parts
<1>2. ASSUME NEW part \in Parts, by(part) = {}
      PROVE  /\ value(part) = heap[s][p][part] /\ value(part) \in By \union {<<>>}
             /\ ~\E m \in marks : Of(m, s, p) /\ m.part = part
  BY <1>2 DEF BuffersTyped, Of
<1>3. ASSUME NEW part \in Parts, by(part) # {}
      PROVE  \E m \in marks : /\ Of(m, s, p) /\ m.part = part
                              /\ value(part) = m.by /\ value(part) \in By
  <2> DEFINE m == CHOOSE m \in by(part) : TRUE
  <2>1. m \in by(part)
    BY <1>3
  <2>2. value(part) = m.by
    BY <1>3
  <2>3. m \in marks /\ Of(m, s, p) /\ m.part = part
    BY <2>1 DEF Of
  <2>4. m.by \in By
    BY <2>3 DEF Mark
  <2> QED BY <2>2, <2>3, <2>4
<1> HIDE DEF value
<1> QED BY <1>1, <1>2, <1>3

\* A resolve and a work of a queue
LEMMA CommandTypes ==
  ASSUME NEW c \in Command
  PROVE  /\ c.op \in {"work", "resolve", "signal"}
         /\ c.op = "work" => c \in Works /\ c.marks \in SUBSET Mark
                             /\ c.slot \in Slots /\ c.frame \in Frames
         /\ c.op = "resolve" => c \in Resolves /\ c.pairs \in SUBSET Pairs
                                /\ c.slot \in Slots /\ c.frame \in Frames
         /\ c.op = "signal" => c \in Signals /\ c.fence \in {"frame", "idle"}
                               /\ c.value \in Nat
<1>1. c \in Works \/ c \in Resolves \/ c \in Signals
  BY DEF Command
<1>2. CASE c \in Works
  BY <1>2 DEF Works
<1>3. CASE c \in Resolves
  BY <1>3 DEF Resolves
<1>4. CASE c \in Signals
  BY <1>4 DEF Signals
<1> QED BY <1>1, <1>2, <1>3, <1>4

\* A sample more, or one that ends
LEMMA SamplesTyped ==
  ASSUME NEW q \in Seq(Sample), NEW x \in Sample, NEW p \in DOMAIN q
  PROVE  /\ Append(q, x) \in Seq(Sample) /\ Len(Append(q, x)) = Len(q) + 1
         /\ [q EXCEPT ![p].ended = TRUE] \in Seq(Sample)
         /\ Len([q EXCEPT ![p].ended = TRUE]) = Len(q)
         /\ DOMAIN [q EXCEPT ![p].ended = TRUE] = DOMAIN q
<1>1. Append(q, x) \in Seq(Sample) /\ Len(Append(q, x)) = Len(q) + 1
  OBVIOUS
<1>2. q[p] \in Sample
  OBVIOUS
<1> DEFINE y == [q[p] EXCEPT !.ended = TRUE]
<1>3. y \in Sample
  BY <1>2 DEF Sample
<1>4. [q EXCEPT ![p].ended = TRUE] = [q EXCEPT ![p] = y]
  OBVIOUS
<1> HIDE DEF y
<1>5. [q EXCEPT ![p] = y] \in Seq(Sample) /\ Len([q EXCEPT ![p] = y]) = Len(q)
  BY <1>3
<1>6. DOMAIN [q EXCEPT ![p] = y] = DOMAIN q
  OBVIOUS
<1> QED BY <1>1, <1>4, <1>5, <1>6

\* A step keeps the types of the buffers.
LEMMA BuffersStep == ASSUME FramesOK, Next PROVE BuffersTyped'
<1> USE Numbers DEF FramesOK
<1>1. CASE Leaves
  BY <1>1, LeavesBuffers DEF BuffersTyped
<1>2. frame.slot \in Slots /\ frame.ordinal \in Frames
  BY DEF FrameTypes
<1>3. CASE BeginFrame \/ Uninit
  <2>1. /\ UNCHANGED <<heap, results>>
        /\ \/ pending' = [pending EXCEPT ![frame.slot] = <<>>]
           \/ pending' = [s \in Slots |-> <<>>]
    BY <1>3 DEF BeginFrame, Uninit, gpuVars
  <2>2. <<>> \in Seq(Sample) /\ Len(<<>>) = 0
    OBVIOUS
  <2>3. CASE pending' = [pending EXCEPT ![frame.slot] = <<>>]
    <3>1. pending' \in [Slots -> Seq(Sample)]
      BY <1>2, <2>2, <2>3 DEF BuffersTyped
    <3>2. \A s \in Slots : Len(pending'[s]) <= MaxPairs
      BY <1>2, <2>2, <2>3 DEF BuffersTyped
    <3> QED BY <2>1, <3>1, <3>2 DEF BuffersTyped
  <2>4. CASE pending' = [s \in Slots |-> <<>>]
    BY <2>1, <2>2, <2>4 DEF BuffersTyped
  <2> QED BY <2>1, <2>3, <2>4
<1>4. CASE Reinit
  <2> DEFINE fresh == [s \in Slots |-> [p \in Pairs |-> Unwritten]]
  <2>1. pending' = [s \in Slots |-> <<>>] /\ heap' = fresh /\ results' = fresh
    BY <1>4 DEF Reinit, FreshDevice
  <2>2. Unwritten \in [Parts -> By \union {<<>>}]
    BY DEF Unwritten, Parts
  <2>3. fresh \in [Slots -> [Pairs -> [Parts -> By \union {<<>>}]]]
    BY <2>2
  <2>4. <<>> \in Seq(Sample) /\ Len(<<>>) = 0
    OBVIOUS
  <2> QED BY <2>1, <2>3, <2>4 DEF BuffersTyped
<1>5. CASE \E h \in Scopes : BeginScope(h)
  <2> PICK h \in Scopes : BeginScope(h)
    BY <1>5
  <2> DEFINE old == pending[frame.slot]
             x == [frame |-> frame.ordinal, ended |-> FALSE]
  <2>1. /\ UNCHANGED <<heap, results>> /\ Len(old) < MaxPairs
        /\ pending' = [pending EXCEPT ![frame.slot] = Append(old, x)]
    BY DEF BeginScope, gpuVars
  <2>2. old \in Seq(Sample) /\ x \in Sample
    BY <1>2 DEF BuffersTyped, Sample
  <2>3. /\ Append(old, x) \in Seq(Sample) /\ Len(Append(old, x)) = Len(old) + 1
        /\ Len(old) \in Nat
    BY <2>2
  <2> HIDE DEF x
  <2> QED BY <1>2, <2>1, <2>3 DEF BuffersTyped
<1>6. CASE \E h \in Scopes : EndScope(h)
  <2> PICK h \in Scopes : EndScope(h)
    BY <1>6
  <2> DEFINE old == pending[frame.slot]
             p == scopes[h].pair
             new == [old EXCEPT ![p].ended = TRUE]
  <2>1. UNCHANGED <<heap, results>> /\ scopes[h] # NoScope
    BY DEF EndScope, gpuVars
  <2>2. CASE StillRecording(scopes[h])
    <3>1. pending' = [pending EXCEPT ![frame.slot][p].ended = TRUE]
      BY <2>2 DEF EndScope
    <3>2. pending' = [pending EXCEPT ![frame.slot] = new]
      BY <1>2, <3>1 DEF BuffersTyped
    <3>3. frame.ordinal = ordinal /\ IsCurrent(scopes[h])
      BY <2>2 DEF StillRecording, IsCurrent, FlowOK, InFrame, Recording
    <3>4. p \in DOMAIN old /\ old \in Seq(Sample) /\ Len(old) <= MaxPairs
      BY <1>2, <2>1, <3>3 DEF ScopesOK, BuffersTyped
    <3>5. new \in Seq(Sample) /\ Len(new) <= MaxPairs
      <4>1. [frame |-> 0, ended |-> FALSE] \in Sample
        BY DEF Sample, Frames
      <4> QED BY <3>4, <4>1, SamplesTyped
    <3> HIDE DEF new
    <3> QED BY <1>2, <2>1, <3>2, <3>5 DEF BuffersTyped
  <2>3. CASE ~StillRecording(scopes[h])
    BY <2>1, <2>3 DEF EndScope, BuffersTyped
  <2> QED BY <2>2, <2>3
<1>7. CASE \E q \in QueueNames : Execute(q)
  <2> PICK q \in QueueNames : Execute(q)
    BY <1>7
  <2> DEFINE c == Head(queue[q])
  <2>1. c \in Command /\ UNCHANGED pending
    BY Executed DEF Execute, timerVars
  <2> HIDE DEF c
  <2>2. CASE c.op = "work"
    <3>1. /\ UNCHANGED results
          /\ heap' = [s \in Slots |-> [p \in Pairs |-> Marked(s, p, c.marks)]]
      BY <2>2 DEF Execute, c
    <3>2. \A s \in Slots, p \in Pairs : Marked(s, p, c.marks) \in [Parts -> By \union {<<>>}]
      BY <2>1, <2>2, CommandTypes, MarkedTyped
    <3> QED BY <2>1, <3>1, <3>2 DEF BuffersTyped
  <2>3. CASE c.op = "resolve"
    <3> DEFINE row == [p \in Pairs |-> IF p \in c.pairs THEN heap[c.slot][p]
                                       ELSE results[c.slot][p]]
    <3>1. UNCHANGED heap /\ results' = [results EXCEPT ![c.slot] = row]
      BY <2>3 DEF Execute, c
    <3>2. c.slot \in Slots
      BY <2>1, <2>3, CommandTypes
    <3>3. row \in [Pairs -> [Parts -> By \union {<<>>}]]
      BY <3>2 DEF BuffersTyped
    <3> HIDE DEF row
    <3> QED BY <2>1, <3>1, <3>2, <3>3 DEF BuffersTyped
  <2>4. CASE c.op = "signal"
    BY <2>1, <2>4 DEF Execute, BuffersTyped, c
  <2> QED BY <2>1, <2>2, <2>3, <2>4, CommandTypes
<1> QED BY <1>1, <1>3, <1>4, <1>5, <1>6, <1>7 DEF Next, RenderStep, Leaves

-----------------------------------------------------------------------------
(* The frame and its fence.                                                *)

\* A step keeps what the render thread goes by.
LEMMA FlowStep == ASSUME FramesOK, Next PROVE FlowOK'
<1> USE Numbers DEF FramesOK
<1>1. CASE Minimized \/ StartFrame \/ CheckRemoved
  BY <1>1 DEF Minimized, StartFrame, CheckRemoved, FlowOK, InFrame, Recording,
     backVars, timerVars, gpuVars, vars
<1>2. CASE WaitForSlot
  BY <1>2 DEF WaitForSlot, Reached, PreviousFence, FlowOK, InFrame, Recording,
     timerVars, gpuVars
<1>3. CASE BeginFrame
  BY <1>3 DEF BeginFrame, FlowOK, InFrame, Recording, backVars, gpuVars
<1>4. CASE Draw \/ Present \/ EndCounters
  BY <1>4 DEF Draw, Present, EndCounters, FlowOK, InFrame, Recording, backVars,
     timerVars, gpuVars
<1>5. CASE EndFrame
  <2>1. /\ UNCHANGED <<device, removed, recording, list, completed, frame>>
        /\ pc = "signal" /\ pc' \in {"loop", "lost"}
        /\ pc' = "lost" => removed
        /\ \/ UNCHANGED <<slotFence, ordinal>>
           \/ /\ ordinal' = ordinal + 1
              /\ slotFence' = [slotFence EXCEPT ![Slot(ordinal)] = ordinal]
    BY <1>5 DEF EndFrame, timerVars, gpuVars
  <2>2. completed'.frame < ordinal' /\ \A s \in Slots : slotFence'[s] < ordinal'
    <3>1. /\ ordinal \in Nat /\ slotFence \in [Slots -> Nat]
          /\ completed.frame \in Nat /\ completed.frame < ordinal
          /\ \A s \in Slots : slotFence[s] < ordinal
      BY DEF FlowOK, FrameTypes, Frames
    <3>2. CASE UNCHANGED <<slotFence, ordinal>>
      BY <2>1, <3>1, <3>2
    <3>3. CASE /\ ordinal' = ordinal + 1
               /\ slotFence' = [slotFence EXCEPT ![Slot(ordinal)] = ordinal]
      <4>1. \A s \in Slots : slotFence'[s] \in {slotFence[s], ordinal}
        BY <3>1, <3>3
      <4> QED BY <2>1, <3>1, <3>3, <4>1
    <3> QED BY <2>1, <3>2, <3>3
  <2> QED BY <2>1, <2>2 DEF FlowOK, InFrame, Recording
<1>6. CASE ChangeBackBuffers \/ SignalIdle \/ WaitIdle \/ ReplaceBackBuffers
  BY <1>6 DEF ChangeBackBuffers, SignalIdle, WaitIdle, ReplaceBackBuffers, FlowOK, InFrame,
     Recording, timerVars, gpuVars
<1>7. CASE Uninit
  <2>1. /\ UNCHANGED <<device, removed, ordinal, slotFence, completed>>
        /\ pc = "lost" /\ pc' = "none" /\ recording' = FALSE
        /\ list' = [list EXCEPT !.open = FALSE, !.marks = {}]
    BY <1>7 DEF Uninit, gpuVars
  <2>2. list'.open = FALSE /\ list'.marks = {}
    BY <2>1 DEF FlagsTyped
  <2> QED BY <2>1, <2>2 DEF FlowOK, InFrame, Recording
<1>8. CASE Reinit
  BY <1>8 DEF Reinit, FreshDevice, FlowOK, InFrame, Recording
<1>9. CASE ResetList \/ ExecuteList
  <2>1. /\ UNCHANGED <<device, removed, pc, backVars, timerVars, gpuVars>>
        /\ pc \in Recording
        /\ list'.open \/ list'.marks = {}
    <3>1. CASE ResetList
      BY <3>1 DEF ResetList, Drawing, FlowOK, Recording
    <3>2. CASE ExecuteList
      BY <3>2 DEF ExecuteList, FlowOK, FlagsTyped
    <3> QED BY <1>9, <3>1, <3>2
  <2>2. list'.open => pc \in Recording
    BY <2>1
  <2> QED BY <2>1, <2>2 DEF FlowOK, InFrame, backVars, timerVars, gpuVars
<1>10. CASE \E h \in Scopes : BeginScope(h) \/ EndScope(h)
  <2> PICK h \in Scopes : BeginScope(h) \/ EndScope(h)
    BY <1>10
  <2>1. /\ UNCHANGED <<device, removed, pc, backVars, recording, gpuVars>>
        /\ \/ list' = list
           \/ list.open /\ \E m : list' = [list EXCEPT !.marks = @ \union {m}]
    BY DEF BeginScope, EndScope, StillRecording, Query
  <2>2. \/ list' = list
        \/ list.open /\ list'.open = list.open
    BY <2>1 DEF FlagsTyped
  <2> QED BY <2>1, <2>2 DEF FlowOK, InFrame, backVars, gpuVars
<1>11. CASE \E q \in QueueNames : Execute(q)
  <2> PICK q \in QueueNames : Execute(q)
    BY <1>11
  <2> DEFINE c == Head(queue[q])
  <2>1. c \in Command /\ c \in Commands(q)
    <3>1. c \in Command /\ Commands(q) = Commands(q)' \union {c}
      BY Executed DEF Execute
    <3> QED BY <3>1
  <2>2. /\ UNCHANGED <<device, removed, pc, backVars, timerVars, list>>
        /\ completed' = completed \/
             (c.op = "signal" /\ completed' = [completed EXCEPT ![c.fence] = c.value])
    BY DEF Execute
  <2> HIDE DEF c
  <2>3. ASSUME c.op = "signal", c.fence = "frame"
        PROVE  c.value > completed.frame /\ c.value < ordinal
    <3>1. q = "direct"
      BY <2>1, <2>3 DEF IdleOK, IsIdle
    <3> QED BY <2>1, <2>3, <3>1 DEF OrderOK
  <2>4. completed'.frame >= completed.frame /\ completed'.frame < ordinal
    <3>1. completed.frame \in Nat /\ completed.frame < ordinal
      BY DEF FrameTypes, FlowOK
    <3>2. CASE completed' = completed
      BY <3>1, <3>2
    <3>3. CASE c.op = "signal" /\ completed' = [completed EXCEPT ![c.fence] = c.value]
      <4>1. c.fence \in {"frame", "idle"} /\ c.value \in Nat
        BY <2>1, <3>3, CommandTypes
      <4> QED BY SMTT(30), <2>3, <3>1, <3>3, <4>1 DEF FrameTypes
    <3> QED BY <2>2, <3>2, <3>3
  <2>5. completed'.frame \in Nat /\ frame.slot \in Slots /\ slotFence[frame.slot] \in Nat
    BY TypesStep DEF FrameTypes, Frames
  <2> QED BY <2>2, <2>4, <2>5 DEF FlowOK, InFrame, backVars, timerVars, FrameTypes
<1>12. CASE Remove
  BY <1>12 DEF Remove, FlowOK, InFrame, backVars, timerVars, gpuVars
<1> QED
  BY <1>1, <1>2, <1>3, <1>4, <1>5, <1>6, <1>7, <1>8, <1>9, <1>10, <1>11, <1>12
  DEF Next, RenderStep

-----------------------------------------------------------------------------
(* Waiting for the queues.                                                 *)

\* Without a wait for it no idle signal is in a queue, and no queue but the
\* direct one has anything.
LEMMA NoIdle ==
  ASSUME FrameTypes, IdleOK, pc # "wait" \/ completed.idle >= idleValue
  PROVE  /\ \A q \in QueueNames : \A c \in Commands(q) : ~IsIdle(c)
         /\ queue["compute"] = <<>> /\ queue["copy"] = <<>>
<1>1. \A q \in QueueNames : \A c \in Commands(q) : ~IsIdle(c)
  BY DEF IdleOK, FrameTypes
<1>2. Commands("compute") = {} /\ Commands("copy") = {}
  BY <1>1 DEF IdleOK, QueueNames
<1> QED BY <1>1, <1>2, EmptyQueue DEF QueueNames

\* A step with the queues as they are
LEMMA SameCommands ==
  ASSUME UNCHANGED queue PROVE \A q \in QueueNames : Commands(q)' = Commands(q)
BY DEF Commands

\* A step keeps what the wait for the queues goes by.
LEMMA IdleStep == ASSUME FramesOK, Next PROVE IdleOK'
<1> USE Numbers DEF FramesOK
<1>1. ASSUME UNCHANGED <<queue, completed, idleValue, removed>>,
             \/ UNCHANGED <<pc, visit>>
             \/ pc # "wait" /\ pc' \notin {"idle", "wait", "release"}
             \/ pc # "wait" /\ pc' = "release" /\ removed
             \/ pc = "loop" /\ pc' = "idle" /\ visit' = 1
      PROVE  IdleOK'
  <2>1. \A q \in QueueNames : Commands(q)' = Commands(q)
    BY <1>1, SameCommands
  <2> QED BY <1>1, <2>1 DEF IdleOK, BuffersReleasedWhenIdle
<1>2. CASE Minimized \/ StartFrame \/ CheckRemoved \/ ReplaceBackBuffers \/ ChangeBackBuffers
  BY <1>1, <1>2 DEF Minimized, StartFrame, CheckRemoved, ReplaceBackBuffers,
     ChangeBackBuffers, backVars, gpuVars, vars
<1>3. CASE WaitForSlot \/ BeginFrame \/ Uninit
  BY <1>1, <1>3 DEF WaitForSlot, BeginFrame, Uninit, backVars, gpuVars
<1>4. CASE ResetList \/ \E h \in Scopes : BeginScope(h) \/ EndScope(h)
  BY <1>1, <1>4 DEF ResetList, BeginScope, EndScope, backVars, gpuVars
<1>5. ASSUME UNCHANGED <<completed, idleValue, removed>>, NEW c \in Command, ~IsIdle(c),
             Submit("direct", c), pc # "wait", pc' \notin {"idle", "wait", "release"}
      PROVE  IdleOK'
  <2>1. /\ Commands("direct")' = Commands("direct") \union {c}
        /\ \A r \in QueueNames : r # "direct" => Commands(r)' = Commands(r)
    BY <1>5, Submitted DEF QueueNames
  <2>2. \A q \in QueueNames : \A d \in Commands(q) : ~IsIdle(d)
    BY <1>5, NoIdle
  <2>3. \A q \in QueueNames : \A d \in Commands(q)' : ~IsIdle(d)
    BY <1>5, <2>1, <2>2
  <2>4. \A q \in QueueNames \ {"direct"} : \A d \in Commands(q)' : IsIdle(d)
    BY <2>1 DEF IdleOK
  <2> QED BY <1>5, <2>3, <2>4 DEF IdleOK, BuffersReleasedWhenIdle
<1>6. CASE Draw \/ Present \/ EndCounters \/ EndFrame \/ ExecuteList
  <2>1. /\ UNCHANGED <<completed, idleValue, removed>>
        /\ pc # "wait" /\ pc' \notin {"idle", "wait", "release"}
    BY <1>6 DEF Draw, Present, EndCounters, EndFrame, ExecuteList, Drawing, backVars, gpuVars
  <2>2. UNCHANGED queue \/ \E c \in Command : ~IsIdle(c) /\ Submit("direct", c)
    <3>1. {} \in SUBSET Mark /\ list.marks \in SUBSET Mark /\ Recorded \in SUBSET Pairs
      <4>1. frame.slot \in Slots
        BY DEF FrameTypes
      <4> QED BY <4>1, PairsInUse DEF FrameTypes, Recorded, InUse
    <3>2. \A marks : ~IsIdle(Work(marks))
      BY DEF IsIdle, Work
    <3>3. CASE Draw \/ Present
      BY <3>1, <3>2, <3>3, AreCommands DEF Draw, Present
    <3>4. CASE ExecuteList
      BY <3>1, <3>2, <3>4, AreCommands DEF ExecuteList
    <3>5. CASE EndCounters
      BY <3>1, <3>5, AreCommands DEF EndCounters, IsIdle
    <3>6. CASE EndFrame
      <4>1. ordinal \in Nat
        BY DEF FrameTypes
      <4> QED BY <3>6, <4>1, AreCommands DEF EndFrame, IsIdle
    <3> QED BY <1>6, <3>3, <3>4, <3>5, <3>6
  <2> QED BY <1>1, <1>5, <2>1, <2>2
<1>7. CASE SignalIdle
  <2>1. CASE removed
    BY <1>1, <1>7, <2>1 DEF SignalIdle, gpuVars
  <2>2. CASE ~removed
    <3> DEFINE c == [op |-> "signal", fence |-> "idle", value |-> idleValue + 1]
    <3>10. PICK q \in QueueNames : q = Queues[visit]
      BY DEF FrameTypes
    <3>1. /\ UNCHANGED <<completed, removed, visit>> /\ pc = "idle" /\ pc' = "wait"
          /\ idleValue' = idleValue + 1 /\ Submit(q, c)
      BY <1>7, <2>2, <3>10 DEF SignalIdle, gpuVars
    <3>2. /\ q \in QueueNames /\ c \in Command /\ IsIdle(c) /\ c.value = idleValue'
          /\ idleValue \in Nat /\ completed.idle \in Nat /\ visit \in 1 .. 3
          /\ queue \in [QueueNames -> Seq(Command)]
      BY <3>1, AreCommands DEF FrameTypes, IsIdle
    <3> HIDE DEF c
    <3>3. /\ Commands(q)' = Commands(q) \union {c} /\ queue'[q] # <<>>
          /\ \A r \in QueueNames : r # q => Commands(r)' = Commands(r) /\ queue'[r] = queue[r]
      BY <3>1, <3>2, Submitted
    <3>4. \A r \in QueueNames : \A d \in Commands(r) : ~IsIdle(d)
      BY <3>1, NoIdle
    <3>5. completed'.idle < idleValue'
      BY <3>1, <3>2 DEF IdleOK
    <3>6. \A r \in QueueNames : \A d \in Commands(r)' :
            IsIdle(d) => r = q /\ d = c
      BY <3>3, <3>4
    <3>7. \A r \in QueueNames \ {"direct"} : \A d \in Commands(r)' : IsIdle(d)
      BY <3>2, <3>3 DEF IdleOK
    <3>8. visit > 1 => queue'["direct"] = <<>>
      <4>1. visit > 1 => q # "direct"
        BY <3>2, <3>10 DEF Queues
      <4>2. visit > 1 => queue["direct"] = <<>>
        BY <2>2, <3>1 DEF IdleOK
      <4> QED BY <3>3, <4>1, <4>2 DEF QueueNames
    <3>9. ~(completed'.idle >= idleValue')
      BY <3>1, <3>2, <3>5
    <3> QED
      BY <2>2, <3>10, <3>1, <3>2, <3>5, <3>6, <3>7, <3>8, <3>9
      DEF IdleOK, BuffersReleasedWhenIdle
  <2> QED BY <2>1, <2>2 DEF FlagsTyped
<1>8. CASE WaitIdle
  <2>1. /\ UNCHANGED <<queue, completed, removed, idleValue>>
        /\ pc = "wait" /\ (removed \/ completed.idle >= idleValue)
        /\ \/ pc' = "release"
           \/ pc' = "idle" /\ visit' = visit + 1
    BY <1>8 DEF WaitIdle, QueueIsIdle, Reached, gpuVars
  <2>2. \A q \in QueueNames : Commands(q)' = Commands(q)
    BY <2>1, SameCommands
  <2>3. CASE removed
    <3>1. \A q \in QueueNames : queue[q] = <<>>
      BY <2>1, <2>3 DEF IdleOK
    <3>2. \A q \in QueueNames : Commands(q) = {}
      BY <3>1, EmptyQueue
    <3> QED BY <2>1, <2>2, <2>3, <3>1, <3>2 DEF IdleOK, BuffersReleasedWhenIdle
  <2>4. CASE ~removed
    <3>1. /\ \A q \in QueueNames : \A c \in Commands(q) : ~IsIdle(c)
          /\ queue["compute"] = <<>> /\ queue["copy"] = <<>>
      BY <2>1, <2>4, NoIdle
    <3>2. queue["direct"] = <<>>
      <4>1. CASE visit > 1
        BY <2>1, <2>4, <4>1 DEF IdleOK
      <4>2. CASE ~(visit > 1)
        <5>1. Queues[visit] = "direct"
          BY <4>2 DEF FrameTypes
        <5> QED BY <2>1, <2>4, <5>1 DEF IdleOK
      <4> QED BY <4>1, <4>2
    <3>3. \A q \in QueueNames : queue[q] = <<>>
      BY <3>1, <3>2 DEF QueueNames
    <3>4. \A q \in QueueNames \ {"direct"} : \A c \in Commands(q)' : IsIdle(c)
      BY <2>2 DEF IdleOK
    <3> QED BY <2>1, <2>2, <3>1, <3>3, <3>4 DEF IdleOK, BuffersReleasedWhenIdle
  <2> QED BY <2>3, <2>4
<1>9. CASE \E q \in QueueNames : Execute(q)
  <2> PICK q \in QueueNames : Execute(q)
    BY <1>9
  <2> DEFINE c == Head(queue[q])
  <2>1. /\ c \in Command /\ Commands(q) = Commands(q)' \union {c}
        /\ queue'[q] # <<>> => \E d \in Commands(q)' : TRUE
        /\ \A r \in QueueNames : r # q => queue'[r] = queue[r] /\ Commands(r)' = Commands(r)
        /\ \A d \in Commands(q)' : Follows(c, d)
    BY Executed DEF Execute, OrderOK
  <2>2. /\ UNCHANGED <<removed, pc, visit, idleValue>> /\ ~removed /\ queue[q] # <<>>
        /\ completed' = completed \/
             (c.op = "signal" /\ completed' = [completed EXCEPT ![c.fence] = c.value])
    BY DEF Execute, backVars
  <2> HIDE DEF c
  <2>3. \A r \in QueueNames : \A d \in Commands(r)' : d \in Commands(r)
    BY <2>1
  <2>4. \A r \in QueueNames \ {"direct"} : \A d \in Commands(r)' : IsIdle(d)
    BY <2>3 DEF IdleOK
  <2>5. \A r \in QueueNames : queue[r] = <<>> => queue'[r] = <<>>
    BY <2>1, <2>2
  <2>6. CASE IsIdle(c)
    <3>1. /\ c.op = "signal" /\ c.fence = "idle" /\ c.value \in Nat
          /\ completed \in [frame : Nat, idle : Nat]
      BY <2>1, <2>6, CommandTypes DEF IsIdle, FrameTypes
    <3>2. pc = "wait" /\ q = Queues[visit] /\ c.value = idleValue
      BY <2>1, <2>6 DEF IdleOK
    <3>3. completed'.idle \in {completed.idle, idleValue}
      BY <2>2, <3>1, <3>2
    <3>4. queue'[q] = <<>>
      BY <2>1, <2>6 DEF Follows
    <3>5. Commands(q)' = {}
      BY <2>1, <2>6 DEF Follows
    <3>6. \A r \in QueueNames : \A d \in Commands(r)' : ~IsIdle(d)
      BY <2>3, <3>2, <3>5 DEF IdleOK
    <3>7. completed'.idle <= idleValue
      BY <3>1, <3>3 DEF IdleOK, FrameTypes
    <3> QED
      BY <2>2, <2>4, <2>5, <3>2, <3>4, <3>6, <3>7 DEF IdleOK, BuffersReleasedWhenIdle
  <2>7. CASE ~IsIdle(c)
    <3>1. completed'.idle = completed.idle
      <4>1. CASE completed' = completed
        BY <4>1
      <4>2. CASE c.op = "signal" /\ completed' = [completed EXCEPT ![c.fence] = c.value]
        <5>1. c.fence = "frame"
          BY <2>1, <2>7, <4>2, CommandTypes DEF IsIdle
        <5>2. completed' = [completed EXCEPT !.frame = c.value]
          BY <4>2, <5>1
        <5> QED BY <5>2 DEF FrameTypes
      <4> QED BY <2>2, <4>1, <4>2
    <3>2. Queues[visit] \in QueueNames /\ "direct" \in QueueNames
      BY DEF FrameTypes, QueueNames
    <3> QED BY <2>2, <2>3, <2>4, <2>5, <3>1, <3>2 DEF IdleOK, BuffersReleasedWhenIdle
  <2> QED BY <2>6, <2>7
<1>10. CASE Remove \/ Reinit
  <2>1. \A q \in QueueNames : queue'[q] = <<>>
    BY <1>10 DEF Remove, Reinit, FreshDevice
  <2>2. \A q \in QueueNames : Commands(q)' = {}
    BY <2>1 DEF Commands
  <2>3. completed'.idle <= idleValue'
    <3>1. CASE Remove
      BY <3>1 DEF Remove, IdleOK, backVars, gpuVars
    <3>2. CASE Reinit
      BY <3>2 DEF Reinit, FreshDevice
    <3> QED BY <1>10, <3>1, <3>2
  <2>4. Queues[visit'] \in QueueNames /\ "direct" \in QueueNames
    BY TypesStep DEF FrameTypes, QueueNames
  <2> QED BY <2>1, <2>2, <2>3, <2>4 DEF IdleOK, BuffersReleasedWhenIdle
<1> QED
  BY <1>2, <1>3, <1>4, <1>6, <1>7, <1>8, <1>9, <1>10 DEF Next, RenderStep

-----------------------------------------------------------------------------
(* The order of the direct queue.                                          *)

\* Where the commands of the current frame may be
Current == Recording \union {"signal", "lost", "none"}

\* A step keeps the order of the direct queue.
LEMMA OrderStep == ASSUME FramesOK, Next PROVE OrderOK'
<1> USE Numbers DEF FramesOK
<1>0. /\ "direct" \in QueueNames /\ ordinal \in Nat /\ completed.frame \in Nat
      /\ completed.frame < ordinal /\ frame.slot \in Slots /\ frame.ordinal \in Nat
      /\ \A s \in Slots : slotFence[s] \in Nat /\ slotFence[s] < ordinal
      /\ FrameTypes' /\ FlowOK'
  BY TypesStep, FlowStep DEF FrameTypes, FlowOK, QueueNames, Frames
<1>1. ASSUME UNCHANGED <<queue, completed, ordinal, slotFence>>,
             pc \in Current => pc' \in Current,
             \/ pc' \notin {"begin", "draw", "present", "after", "signal"}
             \/ InFrame /\ UNCHANGED frame /\ (pc' = "begin" => pc = "begin")
                /\ (recording' => recording \/ pc = "begin")
      PROVE  OrderOK'
  <2>1. /\ Commands("direct")' = Commands("direct")
        /\ \A q \in QueueNames : Ordered(queue'[q])
    BY <1>0, <1>1, SameCommands DEF OrderOK
  <2>2. recording' => pc' \in Recording
    BY <1>0 DEF FlowOK
  <2>3. CASE pc' \notin {"begin", "draw", "present", "after", "signal"}
    BY <1>1, <2>1, <2>2, <2>3
    DEF OrderOK, SlotsAreFreeWhenReused, InFrame, Current, Recording
  <2>4. CASE /\ InFrame /\ UNCHANGED frame /\ (pc' = "begin" => pc = "begin")
             /\ (recording' => recording \/ pc = "begin")
    BY <1>1, <2>1, <2>4 DEF OrderOK, SlotsAreFreeWhenReused, Current
  <2> QED BY <1>1, <2>3, <2>4
<1>2. CASE Minimized \/ StartFrame \/ WaitForSlot \/ BeginFrame
  <2>1. CASE Minimized
    BY <1>1, <2>1 DEF Minimized, InFrame, Current, Recording, backVars, gpuVars, vars
  <2>2. CASE StartFrame \/ WaitForSlot
    BY <1>1, <2>2 DEF StartFrame, WaitForSlot, Current, Recording, backVars, gpuVars
  <2>3. CASE BeginFrame
    BY <1>1, <2>3 DEF BeginFrame, InFrame, Current, Recording, backVars, gpuVars
  <2> QED BY <1>2, <2>1, <2>2, <2>3
<1>3. CASE CheckRemoved
  <2>1. CASE removed
    BY <1>1, <1>3, <2>1 DEF CheckRemoved, Current, Recording, backVars, gpuVars
  <2>2. CASE ~removed
    <3>1. /\ UNCHANGED <<queue, completed, ordinal, slotFence, frame, recording>>
          /\ pc = "check" /\ pc' = "begin"
      BY <1>3, <2>2 DEF CheckRemoved, backVars, gpuVars, timerVars
    <3>2. /\ Commands("direct")' = Commands("direct")
          /\ \A q \in QueueNames : Ordered(queue'[q])
      BY <1>0, <3>1, SameCommands DEF OrderOK
    <3>3. ASSUME NEW c \in Commands("direct"), c.op # "signal" PROVE c.slot # frame.slot
      <4> SUFFICES ASSUME c.slot = frame.slot PROVE FALSE
        OBVIOUS
      <4>1. /\ c.frame > completed.frame /\ c.frame <= ordinal
            /\ c.frame < ordinal => c.frame <= slotFence[c.slot]
            /\ c.frame # ordinal
        BY <3>1, <3>3 DEF OrderOK, Recording
      <4>2. completed.frame >= slotFence[c.slot]
        BY <2>2, <3>1 DEF FlowOK
      <4>3. c.frame \in Nat
        <5>1. queue["direct"] \in Seq(Command)
          BY <1>0 DEF FrameTypes
        <5>2. c \in Command
          BY <5>1 DEF Commands
        <5> QED BY <3>3, <5>2, CommandTypes
      <4>4. slotFence[c.slot] \in Nat
        BY <1>0
      <4>5. c.frame <= slotFence[c.slot]
        BY <1>0, <4>1, <4>3
      <4> QED BY <1>0, <4>1, <4>2, <4>3, <4>4, <4>5
    <3>4. ~recording'
      BY <3>1 DEF FlowOK, Recording
    <3> QED
      BY <3>1, <3>2, <3>3, <3>4 DEF OrderOK, SlotsAreFreeWhenReused, Recording
  <2> QED BY <2>1, <2>2 DEF FlagsTyped
<1>4. CASE ChangeBackBuffers \/ WaitIdle \/ ReplaceBackBuffers \/ Uninit
  BY <1>1, <1>4 DEF ChangeBackBuffers, WaitIdle, ReplaceBackBuffers, Uninit, Current,
     Recording, gpuVars
<1>5. CASE ResetList \/ \E h \in Scopes : BeginScope(h) \/ EndScope(h)
  <2>1. UNCHANGED <<queue, completed, ordinal, slotFence, pc, frame, recording>>
    BY <1>5 DEF ResetList, BeginScope, EndScope, backVars, gpuVars, timerVars
  <2> QED BY <1>1, <2>1 DEF InFrame
<1>6. ASSUME UNCHANGED <<completed, ordinal, slotFence, frame>>,
             InFrame, pc # "begin", pc' \in {"draw", "present", "after", "signal"},
             NEW c \in Command, Submit("direct", c),
             c.op \in {"work", "resolve"}, c.slot = frame.slot, c.frame = frame.ordinal,
             c.op = "work" => recording,
             recording' => recording /\ c.op = "work"
      PROVE  OrderOK'
  <2>1. Commands("direct")' = Commands("direct") \union {c}
    BY <1>0, <1>6, Submitted
  <2>2. \A d \in Commands("direct") : ~IsIdle(d)
    BY <1>0, <1>6, NoIdle DEF InFrame
  <2>3. c.frame = ordinal
    BY <1>6 DEF FlowOK
  <2>4. \A d \in Commands("direct") : Follows(d, c)
    <3> SUFFICES ASSUME NEW d \in Commands("direct") PROVE Follows(d, c)
      OBVIOUS
    <3>1. d \in Command
      <4>1. queue["direct"] \in Seq(Command)
        BY <1>0 DEF FrameTypes
      <4> QED BY <4>1 DEF Commands
    <3>2. ~IsIdle(d)
      BY <2>2
    <3>3. d.op = "signal" => d.value < ordinal
      BY <3>1, <3>2, CommandTypes DEF OrderOK, IsIdle
    <3>4. d.op = "resolve" /\ c.op = "work" => d.slot # c.slot
      BY <1>6 DEF OrderOK
    <3>5. d.op = "signal" => d.value \in Nat
      BY <3>1, CommandTypes
    <3> QED BY <1>0, <1>6, <2>3, <3>2, <3>3, <3>4, <3>5 DEF Follows
  <2>5. \A q \in QueueNames : Ordered(queue'[q])
    BY <1>0, <1>6, <2>4, Submitted DEF OrderOK
  <2>6. SlotsAreFreeWhenReused'
    BY <1>6, <2>1 DEF OrderOK, SlotsAreFreeWhenReused
  <2>7. pc' # "begin" /\ pc' \in Current
    BY <1>6 DEF Current, Recording
  <2>9. c.op # "signal" /\ c.frame > completed.frame /\ c.slot = Slot(ordinal)
    BY <1>0, <1>6, <2>3 DEF FlowOK
  <2>10. \A d \in Commands("direct")' :
          IF d.op = "signal"
          THEN d.fence = "frame" => d.value > completed'.frame /\ d.value < ordinal'
          ELSE /\ d.frame > completed'.frame /\ d.frame <= ordinal'
               /\ d.frame < ordinal' => d.frame <= slotFence'[d.slot]
               /\ d.frame = ordinal' => d.slot = Slot(ordinal') /\ pc' \in Current
    BY <1>0, <1>6, <2>1, <2>3, <2>7, <2>9 DEF OrderOK
  <2>11. recording' => \A d \in Commands("direct")' : d.op = "resolve" => d.slot # frame'.slot
    BY <1>6, <2>1 DEF OrderOK
  <2> QED
    BY <2>5, <2>6, <2>7, <2>10, <2>11 DEF OrderOK, Current
<1>7. CASE Draw \/ Present \/ ExecuteList
  <2>1. /\ UNCHANGED <<completed, ordinal, slotFence, frame, recording>>
        /\ InFrame /\ pc # "begin" /\ pc' \in {"draw", "present", "after", "signal"}
        /\ recording
    BY <1>7 DEF Draw, Present, ExecuteList, Drawing, FlowOK, Recording, InFrame, backVars,
       gpuVars, timerVars
  <2>2. UNCHANGED queue \/ \E marks \in SUBSET Mark : Submit("direct", Work(marks))
    <3>1. {} \in SUBSET Mark /\ list.marks \in SUBSET Mark
      BY DEF FrameTypes
    <3> QED BY <1>7, <3>1 DEF Draw, Present, ExecuteList
  <2>3. CASE UNCHANGED queue
    BY <1>1, <2>1, <2>3 DEF Current, Recording
  <2>4. CASE \E marks \in SUBSET Mark : Submit("direct", Work(marks))
    <3> PICK marks \in SUBSET Mark : Submit("direct", Work(marks))
      BY <2>4
    <3> DEFINE c == Work(marks)
    <3>1. c \in Command /\ c.op = "work" /\ c.slot = frame.slot /\ c.frame = frame.ordinal
      BY AreCommands DEF Work
    <3>2. Submit("direct", c)
      OBVIOUS
    <3> HIDE DEF c
    <3> QED BY <1>6, <2>1, <3>1, <3>2
  <2> QED BY <2>2, <2>3, <2>4
<1>8. CASE EndCounters
  <2>1. /\ UNCHANGED <<completed, ordinal, slotFence, frame>> /\ recording' = FALSE
        /\ pc = "after" /\ pc' = "signal"
    BY <1>8 DEF EndCounters, backVars, gpuVars
  <2>2. CASE UNCHANGED queue
    BY <1>1, <2>1, <2>2 DEF InFrame, Current, Recording
  <2>3. CASE ~UNCHANGED queue
    <3> DEFINE c == [op |-> "resolve", slot |-> frame.slot,
                     frame |-> frame.ordinal, pairs |-> Recorded]
    <3>1. Submit("direct", c)
      BY <1>8, <2>3 DEF EndCounters
    <3>2. /\ c \in Command /\ c.op = "resolve" /\ c.slot = frame.slot
          /\ c.frame = frame.ordinal
      <4>1. Recorded \in SUBSET Pairs
        BY <1>0, PairsInUse DEF Recorded, InUse
      <4> QED BY <4>1, AreCommands
    <3> HIDE DEF c
    <3> QED BY <1>6, <2>1, <3>1, <3>2 DEF InFrame
  <2> QED BY <2>2, <2>3
<1>9. CASE EndFrame
  <2>1. CASE UNCHANGED <<queue, slotFence, ordinal>>
    <3>1. pc' \in {"loop", "lost"} /\ UNCHANGED completed
      BY <1>9 DEF EndFrame, gpuVars
    <3>2. pc' = "lost"
      BY <1>0, <1>9, <2>1 DEF EndFrame
    <3> QED BY <1>1, <2>1, <3>1, <3>2 DEF Current
  <2>2. CASE ~UNCHANGED <<queue, slotFence, ordinal>>
    <3> DEFINE c == [op |-> "signal", fence |-> "frame", value |-> ordinal]
    <3>1. /\ Submit("direct", c) /\ pc = "signal" /\ pc' \in {"loop", "lost"}
          /\ slotFence' = [slotFence EXCEPT ![Slot(ordinal)] = ordinal]
          /\ ordinal' = ordinal + 1 /\ UNCHANGED <<completed, frame, recording>>
      BY <1>9, <2>2 DEF EndFrame, gpuVars, timerVars
    <3>2. c \in Command /\ c.op = "signal" /\ c.fence = "frame" /\ c.value = ordinal
      BY <1>0, AreCommands
    <3> HIDE DEF c
    <3>3. Commands("direct")' = Commands("direct") \union {c}
      BY <1>0, <3>1, <3>2, Submitted
    <3>4. /\ frame.ordinal = ordinal /\ frame.slot = Slot(ordinal) /\ ~recording
          /\ InFrame
      BY <3>1 DEF FlowOK, InFrame, Recording
    <3>5. ASSUME NEW d \in Commands("direct")
          PROVE  /\ Follows(d, c)
                 /\ d.op = "signal" => d.fence = "frame"
                                       /\ d.value > completed.frame /\ d.value < ordinal'
                 /\ d.op # "signal" => /\ d.frame > completed.frame /\ d.frame < ordinal'
                                       /\ d.frame <= slotFence'[d.slot]
      <4>1. d \in Command
        <5>1. queue["direct"] \in Seq(Command)
          BY <1>0 DEF FrameTypes
        <5> QED BY <5>1 DEF Commands
      <4>2. ~IsIdle(d)
        BY <1>0, <3>1, NoIdle
      <4>3. CASE d.op = "signal"
        <5>1. d.fence = "frame" /\ d.value \in Nat
          BY <4>1, <4>2, <4>3, CommandTypes DEF IsIdle
        <5>2. d.value > completed.frame /\ d.value < ordinal
          BY <4>3, <5>1 DEF OrderOK
        <5> QED BY <1>0, <3>1, <3>2, <4>2, <4>3, <5>1, <5>2 DEF Follows
      <4>4. CASE d.op # "signal"
        <5>1. /\ d.frame > completed.frame /\ d.frame <= ordinal
              /\ d.frame < ordinal => d.frame <= slotFence[d.slot]
          BY <4>4 DEF OrderOK
        <5>2. d.frame \in Nat /\ d.slot \in Slots
          BY <4>1, <4>4, CommandTypes
        <5>3. d.slot = frame.slot => d.frame = ordinal
          BY <3>4, <4>4 DEF OrderOK, SlotsAreFreeWhenReused
        <5>4. d.frame = ordinal => d.slot = frame.slot
          BY <3>4, <4>4 DEF OrderOK
        <5>5. slotFence'[d.slot] = IF d.slot = Slot(ordinal) THEN ordinal
                                   ELSE slotFence[d.slot]
          BY <3>1, <5>2 DEF FrameTypes
        <5>6. d.frame <= slotFence'[d.slot]
          BY <1>0, <3>4, <5>1, <5>2, <5>3, <5>4, <5>5
        <5>7. Follows(d, c)
          BY <3>2, <4>2, <4>4 DEF Follows
        <5> QED BY <1>0, <3>1, <4>4, <5>1, <5>2, <5>6, <5>7
      <4> QED BY <4>3, <4>4
    <3>6. \A q \in QueueNames : Ordered(queue'[q])
      BY <1>0, <3>1, <3>2, <3>5, Submitted DEF OrderOK
    <3>7. c.value > completed.frame /\ c.value < ordinal'
      BY <1>0, <3>1, <3>2
    <3>8. ASSUME NEW d \in Commands("direct")'
          PROVE  IF d.op = "signal"
                 THEN d.fence = "frame" => d.value > completed'.frame /\ d.value < ordinal'
                 ELSE /\ d.frame > completed'.frame /\ d.frame < ordinal'
                      /\ d.frame <= slotFence'[d.slot]
      <4>1. CASE d = c
        BY <3>1, <3>2, <3>7, <4>1
      <4>2. CASE d # c
        <5>1. d \in Commands("direct")
          BY <3>3, <4>2
        <5> QED BY <3>1, <3>5, <5>1
      <4> QED BY <4>1, <4>2
    <3>9. \A d \in Commands("direct")' :
            d.op # "signal" => d.frame <= ordinal' /\ d.frame # ordinal'
      <4> SUFFICES ASSUME NEW d \in Commands("direct")', d.op # "signal"
                   PROVE  d.frame <= ordinal' /\ d.frame # ordinal'
        OBVIOUS
      <4>1. d \in Commands("direct")
        BY <3>2, <3>3
      <4>2. queue["direct"] \in Seq(Command)
        BY <1>0 DEF FrameTypes
      <4>3. d \in Command
        BY <4>1, <4>2 DEF Commands
      <4>4. d.frame \in Nat
        BY <4>3, CommandTypes
      <4> QED BY <1>0, <3>1, <3>8, <4>4
    <3>10. ~recording' /\ pc' \notin {"begin", "draw", "present", "after", "signal"}
      BY <3>1, <3>4
    <3> QED
      BY <3>6, <3>8, <3>9, <3>10 DEF OrderOK, SlotsAreFreeWhenReused, InFrame
  <2> QED BY <2>1, <2>2
<1>10. CASE SignalIdle
  <2>1. CASE removed
    BY <1>1, <1>10, <2>1 DEF SignalIdle, Current, Recording, gpuVars
  <2>2. CASE ~removed
    <3> DEFINE c == [op |-> "signal", fence |-> "idle", value |-> idleValue + 1]
    <3>1. PICK q \in QueueNames : q = Queues[visit]
      BY DEF FrameTypes
    <3>2. /\ UNCHANGED <<completed, ordinal, slotFence, frame, recording>> /\ pc = "idle"
          /\ pc' = "wait" /\ Submit(q, c)
      BY <1>10, <2>2, <3>1 DEF SignalIdle, gpuVars, timerVars
    <3>3. c \in Command /\ c.op = "signal" /\ c.fence = "idle"
      <4>1. idleValue + 1 \in Nat
        BY DEF FrameTypes
      <4> QED BY <4>1, AreCommands
    <3> HIDE DEF c
    <3>4. /\ Commands(q)' = Commands(q) \union {c}
          /\ \A r \in QueueNames : r # q => Commands(r)' = Commands(r)
      BY <3>2, <3>3, Submitted
    <3>5. \A d \in Commands(q) : Follows(d, c)
      <4>1. \A d \in Commands(q) : ~IsIdle(d)
        BY <3>2, NoIdle
      <4> QED BY <3>3, <4>1 DEF Follows
    <3>6. \A r \in QueueNames : Ordered(queue'[r])
      BY <3>2, <3>3, <3>5, Submitted DEF OrderOK
    <3>7. \A d \in Commands("direct")' : d \in Commands("direct") \/ d = c
      BY <1>0, <3>4
    <3>8. ~recording
      BY <3>2 DEF FlowOK, Recording
    <3> QED
      BY <3>2, <3>3, <3>6, <3>7, <3>8
      DEF OrderOK, SlotsAreFreeWhenReused, InFrame, Recording
  <2> QED BY <2>1, <2>2 DEF FlagsTyped
<1>11. CASE \E q \in QueueNames : Execute(q)
  <2> PICK q \in QueueNames : Execute(q)
    BY <1>11
  <2> DEFINE c == Head(queue[q])
  <2>1. /\ c \in Command /\ Commands(q) = Commands(q)' \union {c}
        /\ \A r \in QueueNames : r # q => Commands(r)' = Commands(r)
        /\ \A r \in QueueNames : Ordered(queue'[r])
        /\ \A d \in Commands(q)' : Follows(c, d)
    BY Executed DEF Execute, OrderOK
  <2>2. /\ UNCHANGED <<pc, ordinal, slotFence, frame, recording>>
        /\ completed' = completed \/
             (c.op = "signal" /\ completed' = [completed EXCEPT ![c.fence] = c.value])
    BY DEF Execute, backVars, timerVars
  <2> HIDE DEF c
  <2>3. \A d \in Commands("direct")' : d \in Commands("direct")
    BY <1>0, <2>1
  <2>4. ASSUME NEW d \in Commands("direct")'
        PROVE  IF d.op = "signal"
               THEN d.fence = "frame" => d.value > completed'.frame
               ELSE d.frame > completed'.frame
    <3>1. CASE completed' = completed
      BY <2>3, <3>1 DEF OrderOK
    <3>2. CASE c.op = "signal" /\ completed' = [completed EXCEPT ![c.fence] = c.value]
      <4>1. c.fence \in {"frame", "idle"}
        BY <2>1, <3>2, CommandTypes
      <4>2. CASE c.fence = "idle"
        <5>1. completed'.frame = completed.frame
          BY <3>2, <4>2 DEF FrameTypes
        <5> QED BY <2>3, <5>1 DEF OrderOK
      <4>3. CASE c.fence = "frame"
        <5>1. completed'.frame = c.value
          BY <3>2, <4>3 DEF FrameTypes
        <5>2. q = "direct"
          BY <2>1, <3>2, <4>3 DEF IdleOK, IsIdle
        <5>3. Follows(c, d)
          BY <2>1, <5>2
        <5> QED BY <3>2, <5>1, <5>3 DEF Follows
      <4> QED BY <4>1, <4>2, <4>3
    <3> QED BY <2>2, <3>1, <3>2
  <2> QED
    BY <2>1, <2>2, <2>3, <2>4 DEF OrderOK, SlotsAreFreeWhenReused, InFrame
<1>12. CASE Remove \/ Reinit
  <2>1. \A q \in QueueNames : queue'[q] = <<>>
    BY <1>12 DEF Remove, Reinit, FreshDevice
  <2>2. Commands("direct")' = {}
    BY <1>0, <2>1 DEF Commands
  <2>3. \A q \in QueueNames : Ordered(queue'[q])
    BY <2>1 DEF Ordered
  <2> QED BY <2>2, <2>3 DEF OrderOK, SlotsAreFreeWhenReused
<1> QED
  BY <1>2, <1>3, <1>4, <1>5, <1>7, <1>8, <1>9, <1>10, <1>11, <1>12 DEF Next, RenderStep

-----------------------------------------------------------------------------
(* The module's scopes.                                                    *)

\* What ScopesOK says of a scope that is there
ScopeOK(s) ==
    /\ s.device <= device /\ s.gen <= list.gen
    /\ s.device = device => s.frame <= ordinal
    /\ s.device = device /\ s.frame = ordinal => pc \in Current

CurrentOK(s) ==
    /\ IsCurrent(s) => s.pair \in DOMAIN pending[frame.slot]
    /\ IsCurrent(s) /\ ~removed =>
          /\ pending[frame.slot][s.pair].frame = ordinal
          /\ MarkedBy(frame.slot, s.pair, <<ordinal, s.gen>>)
          /\ list.open /\ s.gen = list.gen =>
                \E m \in list.marks : Of(m, frame.slot, s.pair) /\ m.part = "begin"

LEMMA ScopesAre ==
  ScopesOK <=> \A h \in Scopes :
                  scopes[h] # NoScope => ScopeOK(scopes[h]) /\ CurrentOK(scopes[h])
BY DEF ScopesOK, ScopeOK, CurrentOK, Current

\* A step that records nothing more keeps the scopes it leaves.
LEMMA ScopesKept ==
  ASSUME FramesOK, UNCHANGED <<device, ordinal, scopes>>, list'.gen = list.gen,
         pc \in Current => pc' \in Current, FlowOK',
         \/ ~recording'
         \/ /\ UNCHANGED <<frame, pending, recording, removed>>
            /\ Commands("direct")' \subseteq Commands("direct") \/
                 \E marks \in {{}, list.marks} :
                    Commands("direct")' = Commands("direct") \union {Work(marks)}
            /\ \/ list' = list
               \/ ~list'.open /\ list'.marks = {}
  PROVE  ScopesOK'
<1> USE DEF FramesOK
<1> SUFFICES ASSUME NEW h \in Scopes, scopes[h] # NoScope
             PROVE  ScopeOK(scopes[h])' /\ CurrentOK(scopes[h])'
  BY DEF ScopesOK, ScopeOK, CurrentOK, Current
<1>1. PICK s : s = scopes[h]
  OBVIOUS
<1>2. ScopeOK(s) /\ CurrentOK(s) /\ scopes'[h] = s
  BY <1>1, ScopesAre
<1>3. ScopeOK(s)'
  BY <1>2 DEF ScopeOK
<1>4. CurrentOK(s)'
  <2>1. CASE ~recording'
    BY <2>1 DEF CurrentOK, IsCurrent
  <2>2. CASE recording'
    <3> SUFFICES ASSUME IsCurrent(s)' PROVE CurrentOK(s)'
      BY DEF CurrentOK
    <3>1. /\ UNCHANGED <<frame, pending, recording, removed>> /\ IsCurrent(s)
      BY <2>2 DEF IsCurrent
    <3>2. s.pair \in DOMAIN pending'[frame'.slot]
      BY <1>2, <3>1 DEF CurrentOK
    <3>3. ASSUME ~removed
          PROVE  /\ pending'[frame'.slot][s.pair].frame = ordinal'
                 /\ MarkedBy(frame.slot, s.pair, <<ordinal, s.gen>>)
                 /\ list.open /\ s.gen = list.gen =>
                       \E m \in list.marks : Of(m, frame.slot, s.pair) /\ m.part = "begin"
      BY <1>2, <3>1, <3>3 DEF CurrentOK
    <3>4. ASSUME ~removed, NEW m, Of(m, frame.slot, s.pair),
                 \/ m \in list'.marks
                 \/ \E c \in Commands("direct")' : c.op = "work" /\ m \in c.marks
          PROVE  m.by = <<ordinal, s.gen>>
      <4>1. CASE m \in list'.marks
        BY <2>2, <3>3, <3>4, <4>1 DEF MarkedBy
      <4>2. CASE \E c \in Commands("direct")' : c.op = "work" /\ m \in c.marks
        <5>1. PICK c \in Commands("direct")' : c.op = "work" /\ m \in c.marks
          BY <4>2
        <5>2. CASE c \in Commands("direct")
          BY <3>3, <3>4, <5>1, <5>2 DEF MarkedBy
        <5>3. CASE c \notin Commands("direct")
          <6>1. c.marks \subseteq list.marks
            BY <2>2, <5>1, <5>3 DEF Work
          <6> QED BY <3>3, <3>4, <5>1, <6>1 DEF MarkedBy
        <5> QED BY <5>2, <5>3
      <4> QED BY <3>4, <4>1, <4>2
    <3>5. ASSUME ~removed PROVE MarkedBy(frame.slot, s.pair, <<ordinal, s.gen>>)'
      BY <3>1, <3>4, <3>5 DEF MarkedBy
    <3>6. ASSUME ~removed, list'.open, s.gen = list'.gen
          PROVE  \E m \in list'.marks : Of(m, frame'.slot, s.pair) /\ m.part = "begin"
      <4>1. list' = list
        BY <2>2, <3>6
      <4> QED BY <3>1, <3>3, <3>6, <4>1
    <3> QED BY <3>1, <3>2, <3>3, <3>5, <3>6 DEF CurrentOK
  <2> QED BY <2>1, <2>2
<1> QED BY <1>2, <1>3, <1>4 DEF ScopeOK, CurrentOK, IsCurrent

\* A step keeps what the scopes refer to.
LEMMA ScopesStep == ASSUME FramesOK, Next PROVE ScopesOK'
<1> USE Numbers DEF FramesOK
<1>0. /\ FrameTypes' /\ FlagsTyped' /\ FlowOK' /\ "direct" \in QueueNames
      /\ (recording' <=> pc' \in Recording)
      /\ frame.slot \in Slots /\ ordinal \in Nat
  <2>1. FrameTypes' /\ FlagsTyped' /\ FlowOK'
    BY TypesStep, FlowStep
  <2>2. recording' <=> pc' \in Recording
    BY <2>1 DEF FlowOK
  <2>3. "direct" \in QueueNames /\ frame.slot \in Slots /\ ordinal \in Nat
    BY DEF QueueNames, FrameTypes
  <2> QED BY <2>1, <2>2, <2>3
<1>1. CASE \/ Minimized \/ StartFrame \/ WaitForSlot \/ CheckRemoved \/ EndCounters
           \/ ChangeBackBuffers \/ SignalIdle \/ WaitIdle \/ ReplaceBackBuffers \/ Uninit
  <2>1. UNCHANGED <<device, ordinal, scopes>>
    BY <1>1 DEF Minimized, StartFrame, WaitForSlot, CheckRemoved, EndCounters,
       ChangeBackBuffers, SignalIdle, WaitIdle, ReplaceBackBuffers, Uninit,
       backVars, timerVars, vars
  <2>2. list'.gen = list.gen
    BY <1>1 DEF Minimized, StartFrame, WaitForSlot, CheckRemoved, EndCounters,
       ChangeBackBuffers, SignalIdle, WaitIdle, ReplaceBackBuffers, Uninit, FlagsTyped, vars
  <2>3. (pc \in Current => pc' \in Current) /\ pc' \notin Recording
    BY <1>1 DEF Minimized, StartFrame, WaitForSlot, CheckRemoved, EndCounters,
       ChangeBackBuffers, SignalIdle, WaitIdle, ReplaceBackBuffers, Uninit, Current,
       Recording, vars
  <2> QED BY <1>0, <2>1, <2>2, <2>3, ScopesKept
<1>2. CASE Draw \/ Present \/ ExecuteList
  <2>1. /\ UNCHANGED <<device, ordinal, scopes, frame, pending, recording, removed>>
        /\ pc' \in Current
    BY <1>2 DEF Draw, Present, ExecuteList, Drawing, Current, Recording, backVars, timerVars
  <2>2. \E marks \in {{}, list.marks} :
           Submit("direct", Work(marks)) \/ UNCHANGED queue
    BY <1>2 DEF Draw, Present, ExecuteList
  <2>3. list'.gen = list.gen /\ (list' = list \/ (~list'.open /\ list'.marks = {}))
    BY <1>2 DEF Draw, Present, ExecuteList, FlagsTyped
  <2>4. PICK marks \in {{}, list.marks} : Submit("direct", Work(marks)) \/ UNCHANGED queue
    BY <2>2
  <2>5. CASE UNCHANGED queue
    <3>1. Commands("direct")' \subseteq Commands("direct")
      BY <1>0, <2>5, SameCommands
    <3> QED BY <1>0, <2>1, <2>3, <3>1, ScopesKept
  <2>6. CASE Submit("direct", Work(marks))
    <3>1. marks \in SUBSET Mark
      BY DEF FrameTypes
    <3>2. PICK c \in Command : c = Work(marks)
      BY <3>1, AreCommands
    <3>3. Commands("direct")' = Commands("direct") \union {c}
      BY <1>0, <2>6, <3>2, Submitted
    <3> QED BY <1>0, <2>1, <2>3, <2>4, <3>2, <3>3, ScopesKept
  <2> QED BY <2>4, <2>5, <2>6
<1>3. CASE EndFrame
  <2>1. /\ UNCHANGED <<device, scopes, list>> /\ pc = "signal" /\ pc' \in {"loop", "lost"}
        /\ (ordinal' = ordinal /\ pc' = "lost") \/ ordinal' = ordinal + 1
    BY <1>3 DEF EndFrame, timerVars
  <2>2. ~recording'
    BY <1>0, <2>1 DEF Recording
  <2>3. CASE ordinal' = ordinal /\ pc' = "lost"
    BY <1>0, <2>1, <2>2, <2>3, ScopesKept DEF Current
  <2>4. CASE ordinal' = ordinal + 1
    <3> SUFFICES ASSUME NEW h \in Scopes, scopes[h] # NoScope
                 PROVE  ScopeOK(scopes[h])' /\ CurrentOK(scopes[h])'
      BY <2>1 DEF ScopesOK, ScopeOK, CurrentOK, Current
    <3>1. scopes[h] \in Held /\ (scopes[h].device = device => scopes[h].frame <= ordinal)
      BY ScopesAre DEF FrameTypes, ScopeOK
    <3>2. scopes[h].frame \in Nat
      BY DEF FrameTypes, Held
    <3>3. scopes[h].device = device => scopes[h].frame < ordinal'
      BY <1>0, <2>4, <3>1, <3>2
    <3>4. ScopeOK(scopes[h])
      BY ScopesAre
    <3>5. ScopeOK(scopes[h])'
      BY <1>0, <2>1, <2>4, <3>2, <3>3, <3>4 DEF ScopeOK
    <3> QED BY <2>2, <3>5 DEF CurrentOK, IsCurrent
  <2> QED BY <2>1, <2>3, <2>4
<1>4. CASE BeginFrame
  <2>1. UNCHANGED <<device, removed, ordinal, scopes, list>> /\ pc = "begin" /\ pc' = "draw"
    BY <1>4 DEF BeginFrame, backVars
  <2> SUFFICES ASSUME NEW h \in Scopes, scopes[h] # NoScope
               PROVE  ScopeOK(scopes[h])' /\ CurrentOK(scopes[h])'
    BY <2>1 DEF ScopesOK, ScopeOK, CurrentOK, Current
  <2>2. ScopeOK(scopes[h])
    BY ScopesAre
  <2>3. ~(scopes[h].device = device /\ scopes[h].frame = ordinal)
    BY <2>1, <2>2 DEF ScopeOK, Current, Recording
  <2> QED BY <2>1, <2>2, <2>3 DEF ScopeOK, CurrentOK, IsCurrent
<1>5. CASE Reinit
  <2>1. device' = device + 1 /\ UNCHANGED <<scopes, list>> /\ recording' = FALSE
    BY <1>5 DEF Reinit, FreshDevice
  <2> SUFFICES ASSUME NEW h \in Scopes, scopes[h] # NoScope
               PROVE  ScopeOK(scopes[h])' /\ CurrentOK(scopes[h])'
    BY <2>1 DEF ScopesOK, ScopeOK, CurrentOK, Current
  <2>2. ScopeOK(scopes[h]) /\ scopes[h] \in Held /\ device \in Nat
    BY ScopesAre DEF FrameTypes
  <2>3. scopes[h].device \in Nat
    BY <2>2 DEF Held
  <2>4. scopes[h].device <= device' /\ scopes[h].device # device'
    BY <2>1, <2>2, <2>3 DEF ScopeOK
  <2> QED BY <2>1, <2>2, <2>3, <2>4 DEF ScopeOK, CurrentOK, IsCurrent
<1>6. CASE Remove
  <2>1. /\ UNCHANGED <<device, pc, ordinal, frame, recording, pending, scopes, list>>
        /\ removed' = TRUE
    BY <1>6 DEF Remove, backVars, timerVars
  <2> SUFFICES ASSUME NEW h \in Scopes, scopes[h] # NoScope
               PROVE  ScopeOK(scopes[h])' /\ CurrentOK(scopes[h])'
    BY <2>1 DEF ScopesOK, ScopeOK, CurrentOK, Current
  <2>2. ScopeOK(scopes[h]) /\ CurrentOK(scopes[h])
    BY ScopesAre
  <2> QED BY <2>1, <2>2 DEF ScopeOK, CurrentOK, IsCurrent
<1>7. CASE \E q \in QueueNames : Execute(q)
  <2> PICK q \in QueueNames : Execute(q)
    BY <1>7
  <2>1. UNCHANGED <<device, removed, pc, ordinal, frame, recording, pending, scopes, list>>
    BY DEF Execute, backVars, timerVars
  <2>2. Commands("direct")' \subseteq Commands("direct")
    <3> DEFINE c == Head(queue[q])
    <3>1. /\ Commands(q) = Commands(q)' \union {c}
          /\ \A r \in QueueNames : r # q => Commands(r)' = Commands(r)
      BY Executed DEF Execute
    <3> HIDE DEF c
    <3> QED BY <1>0, <3>1
  <2> QED BY <1>0, <2>1, <2>2, ScopesKept
<1>8. CASE ResetList
  <2>1. /\ UNCHANGED <<device, removed, pc, ordinal, frame, recording, pending, scopes,
                       queue>>
        /\ list'.gen = list.gen + 1 /\ list'.marks = {}
    BY <1>8 DEF ResetList, backVars, timerVars
  <2> SUFFICES ASSUME NEW h \in Scopes, scopes[h] # NoScope
               PROVE  ScopeOK(scopes[h])' /\ CurrentOK(scopes[h])'
    BY <2>1 DEF ScopesOK, ScopeOK, CurrentOK, Current
  <2>2. ScopeOK(scopes[h]) /\ CurrentOK(scopes[h]) /\ scopes[h] \in Held
    BY ScopesAre DEF FrameTypes
  <2>3. scopes[h].gen \in Nat /\ list.gen \in Nat /\ scopes[h].gen <= list.gen
    BY <2>2 DEF Held, FrameTypes, ScopeOK
  <2>4. scopes[h].gen <= list'.gen /\ scopes[h].gen # list'.gen
    BY <2>1, <2>3
  <2>5. Commands("direct")' = Commands("direct")
    BY <1>0, <2>1, SameCommands
  <2>6. CurrentOK(scopes[h])'
    BY <2>1, <2>2, <2>4, <2>5 DEF CurrentOK, IsCurrent, MarkedBy
  <2> QED BY <2>1, <2>2, <2>4, <2>6 DEF ScopeOK
<1>9. CASE \E h \in Scopes : BeginScope(h)
  <2> PICK k \in Scopes : BeginScope(k)
    BY <1>9
  <2>1. PICK f \in Slots : f = frame.slot
    BY <1>0
  <2>2. PICK p \in Pairs : p = Len(pending[f]) + 1
    <3>1. pending[f] \in Seq(Sample) /\ Len(pending[f]) < MaxPairs
      BY <2>1 DEF BuffersTyped, BeginScope
    <3>2. Len(pending[f]) \in Nat
      BY <3>1
    <3> QED BY <3>1, <3>2, NextPair
  <2>3. PICK b : b = <<ordinal, list.gen>>
    OBVIOUS
  <2>4. frame.ordinal = ordinal /\ recording
    BY DEF BeginScope, FlowOK, InFrame, Recording
  <2> DEFINE m == [slot |-> f, pair |-> p, part |-> "begin", by |-> b]
             x == [frame |-> ordinal, ended |-> FALSE]
             held == [device |-> device, gen |-> list.gen, frame |-> ordinal, pair |-> p]
  <2>5. /\ UNCHANGED <<device, removed, pc, ordinal, frame, recording, queue>>
        /\ list' = [list EXCEPT !.marks = @ \union {m}]
        /\ scopes' = [scopes EXCEPT ![k] = held]
        /\ pending' = [pending EXCEPT ![f] = Append(@, x)]
    BY <2>1, <2>2, <2>3, <2>4 DEF BeginScope, Query, backVars
  <2>6. /\ m.slot = f /\ m.pair = p /\ m.part = "begin" /\ m.by = b /\ x.frame = ordinal
        /\ held.device = device /\ held.gen = list.gen /\ held.frame = ordinal
        /\ held.pair = p /\ held # NoScope
    BY DEF NoScope
  <2> HIDE DEF m, x, held
  <2>7. list'.gen = list.gen /\ list'.marks = list.marks \union {m} /\ list'.open = list.open
    BY <2>5 DEF FlagsTyped
  <2>8. Commands("direct")' = Commands("direct")
    BY <1>0, <2>5, SameCommands
  <2>9. /\ DOMAIN pending'[f] = DOMAIN pending[f] \union {p} /\ p \notin DOMAIN pending[f]
        /\ pending'[f][p] = x
        /\ \A i \in DOMAIN pending[f] : pending'[f][i] = pending[f][i]
    <3>1. pending[f] \in Seq(Sample) /\ pending'[f] = Append(pending[f], x)
      BY <2>5 DEF BuffersTyped
    <3>2. x \in Sample
      <4>1. ordinal \in Frames
        BY DEF FrameTypes
      <4> QED BY <4>1 DEF x, Sample
    <3> QED BY <2>2, <3>1, <3>2, AppendedTo
  <2> SUFFICES ASSUME NEW h \in Scopes, NEW s, s = scopes'[h], s # NoScope
               PROVE  ScopeOK(s)' /\ CurrentOK(s)'
    BY DEF ScopesOK, ScopeOK, CurrentOK, Current, MarkedBy, IsCurrent
  <2>10. CASE h = k
    <3>1. s = held
      BY <2>5, <2>10 DEF FrameTypes
    <3>2. ScopeOK(s)'
      <4>1. device \in Nat /\ list.gen \in Nat
        BY SMTT(30) DEF FrameTypes
      <4>2. pc \in Current
        <5>1. recording => pc \in Recording
          BY DEF FlowOK
        <5> QED BY <2>4, <5>1 DEF Current
      <4>3. device <= device /\ list.gen <= list.gen /\ ordinal <= ordinal
        BY <1>0, <4>1
      <4>4. /\ s.device = device' /\ s.gen = list'.gen /\ s.frame = ordinal'
            /\ device' = device /\ list'.gen = list.gen /\ ordinal' = ordinal /\ pc' = pc
        BY <2>5, <2>6, <2>7, <3>1
      <4> QED BY <4>2, <4>3, <4>4 DEF ScopeOK
    <3>3. ASSUME ~removed
          PROVE  /\ \A n \in list.marks : ~Of(n, f, p)
                 /\ \A c \in Commands("direct") : c.op = "work" =>
                       \A n \in c.marks : ~Of(n, f, p)
      BY <2>9, <3>3 DEF SamplesOK, MarksOK, Of
    <3>4. ASSUME ~removed
          PROVE  /\ \A n \in list'.marks : Of(n, f, p) => n.by = b
                 /\ \A c \in Commands("direct")' : c.op = "work" =>
                       \A n \in c.marks : Of(n, f, p) => n.by = b
      BY <2>6, <2>7, <2>8, <3>3, <3>4
    <3>5. \E n \in list'.marks : Of(n, f, p) /\ n.part = "begin"
      BY <2>6, <2>7 DEF Of
    <3>7. s.pair = p /\ s.gen = list.gen /\ p \in DOMAIN pending'[f]
          /\ pending'[f][p].frame = ordinal
      BY <2>6, <2>9, <3>1
    <3>8. frame'.slot = f /\ ordinal' = ordinal /\ removed' = removed
      BY <2>1, <2>5
    <3>9. ASSUME ~removed PROVE MarkedBy(frame.slot, s.pair, <<ordinal, s.gen>>)'
      BY <2>3, <3>4, <3>7, <3>8, <3>9 DEF MarkedBy
    <3>10. CurrentOK(s)'
      BY <3>5, <3>7, <3>8, <3>9 DEF CurrentOK, MarkedBy
    <3> QED BY <3>2, <3>10
  <2>11. CASE h # k
    <3>1. s = scopes[h]
      BY <2>5, <2>11 DEF FrameTypes
    <3>2. ScopeOK(s) /\ CurrentOK(s)
      BY <3>1, ScopesAre
    <3>3. ScopeOK(s)'
      BY <2>5, <2>7, <3>2 DEF ScopeOK
    <3>4. IsCurrent(s)' => IsCurrent(s)
      BY <2>5 DEF IsCurrent
    <3>5. IsCurrent(s) => s.pair \in DOMAIN pending[f]
      BY <2>1, <3>2 DEF CurrentOK
    <3>6. ASSUME IsCurrent(s), ~removed
          PROVE  /\ pending[f][s.pair].frame = ordinal
                 /\ MarkedBy(f, s.pair, <<ordinal, s.gen>>)
                 /\ list.open /\ s.gen = list.gen =>
                       \E n \in list.marks : Of(n, f, s.pair) /\ n.part = "begin"
      BY <2>1, <3>2, <3>6 DEF CurrentOK
    <3>7. ASSUME IsCurrent(s), ~removed
          PROVE  /\ pending'[f][s.pair].frame = ordinal
                 /\ \A n \in list'.marks : Of(n, f, s.pair) => n.by = <<ordinal, s.gen>>
                 /\ \A c \in Commands("direct")' : c.op = "work" =>
                       \A n \in c.marks : Of(n, f, s.pair) => n.by = <<ordinal, s.gen>>
                 /\ list'.open /\ s.gen = list'.gen =>
                       \E n \in list'.marks : Of(n, f, s.pair) /\ n.part = "begin"
      BY <2>6, <2>7, <2>8, <2>9, <3>5, <3>6, <3>7 DEF MarkedBy, Of
    <3>8. ASSUME IsCurrent(s)' PROVE s.pair \in DOMAIN pending'[frame'.slot]
      BY <2>1, <2>5, <2>9, <3>4, <3>5, <3>8
    <3>9. ASSUME IsCurrent(s)', ~removed'
          PROVE  /\ pending'[frame'.slot][s.pair].frame = ordinal'
                 /\ MarkedBy(frame.slot, s.pair, <<ordinal, s.gen>>)'
                 /\ list'.open /\ s.gen = list'.gen =>
                       \E n \in list'.marks : Of(n, frame'.slot, s.pair) /\ n.part = "begin"
      <4>1. IsCurrent(s) /\ ~removed
        BY <2>5, <3>4, <3>9
      <4>2. frame' = frame /\ ordinal' = ordinal /\ frame'.slot = f
        BY <2>1, <2>5
      <4> QED BY <3>7, <4>1, <4>2 DEF MarkedBy
    <3>10. CurrentOK(s)'
      BY <3>8, <3>9 DEF CurrentOK, MarkedBy
    <3> QED BY <3>3, <3>10
  <2> QED BY <2>10, <2>11
<1>10. CASE \E h \in Scopes : EndScope(h)
  <2> PICK k \in Scopes : EndScope(k)
    BY <1>10
  <2>1. PICK f \in Slots : f = frame.slot
    BY <1>0
  <2>2. PICK e : e = scopes[k]
    OBVIOUS
  <2>3. /\ UNCHANGED <<device, removed, pc, ordinal, frame, recording, queue>>
        /\ scopes' = [scopes EXCEPT ![k] = NoScope]
    BY DEF EndScope, backVars
  <2>4. Commands("direct")' = Commands("direct")
    <3>1. UNCHANGED queue
      BY <2>3
    <3> QED BY <1>0, <3>1, SameCommands
  <2> SUFFICES ASSUME NEW h \in Scopes, NEW s, s = scopes'[h], s # NoScope
               PROVE  ScopeOK(s)' /\ CurrentOK(s)'
    BY DEF ScopesOK, ScopeOK, CurrentOK, Current, MarkedBy, IsCurrent
  <2>5. s = scopes[h]
    BY <2>3 DEF FrameTypes
  <2>6. ScopeOK(s) /\ CurrentOK(s)
    BY <2>5, ScopesAre
  <2>7. CASE ~StillRecording(e)
    <3>1. UNCHANGED <<pending, list>>
      BY <2>2, <2>7 DEF EndScope
    <3>2. ScopeOK(s)'
      BY <2>3, <2>6, <3>1 DEF ScopeOK
    <3>3. UNCHANGED <<device, removed, ordinal, frame, recording>>
      BY <2>3
    <3>4. CurrentOK(s)'
      BY <2>4, <2>6, <3>1, <3>3 DEF CurrentOK, IsCurrent, MarkedBy
    <3> QED BY <3>2, <3>4
  <2>8. CASE StillRecording(e)
    <3>1. frame.ordinal = ordinal /\ recording
      BY <2>8 DEF StillRecording, FlowOK, InFrame, Recording
    <3>2. IsCurrent(e) /\ ScopeOK(e) /\ CurrentOK(e)
      BY <2>2, <2>8, <3>1, ScopesAre DEF StillRecording, IsCurrent, EndScope
    <3>3. PICK p : p = e.pair
      OBVIOUS
    <3>5. PICK b : b = <<ordinal, list.gen>>
      OBVIOUS
    <3> DEFINE m == [slot |-> f, pair |-> p, part |-> "end", by |-> b]
    <3>6. /\ pending' = [pending EXCEPT ![f][p].ended = TRUE]
          /\ list' = [list EXCEPT !.marks = @ \union {m}]
      BY <2>1, <2>2, <2>8, <3>1, <3>3, <3>5 DEF EndScope, Query
    <3>7. m.slot = f /\ m.pair = p /\ m.part = "end" /\ m.by = b
      OBVIOUS
    <3> HIDE DEF m
    <3>8. /\ list'.gen = list.gen /\ list'.open = list.open
          /\ list'.marks = list.marks \union {m}
      BY <3>6 DEF FlagsTyped
    <3>9. /\ DOMAIN pending'[f] = DOMAIN pending[f]
          /\ \A i \in DOMAIN pending[f] : pending'[f][i].frame = pending[f][i].frame
      <4>1. pending[f] \in Seq(Sample) /\ pending \in [Slots -> Seq(Sample)]
        BY DEF BuffersTyped
      <4>2. pending'[f] = [pending[f] EXCEPT ![p] = [@ EXCEPT !.ended = TRUE]]
        BY <3>6, <4>1
      <4>3. \A i \in DOMAIN pending[f] : pending[f][i] \in Sample
        BY <4>1
      <4>4. DOMAIN pending'[f] = DOMAIN pending[f]
        BY <4>1, <4>2
      <4>5. ASSUME NEW i \in DOMAIN pending[f]
            PROVE  pending'[f][i].frame = pending[f][i].frame
        BY <4>1, <4>2, <4>3, <4>5 DEF Sample
      <4> QED BY <4>4, <4>5
    <3>10. ScopeOK(s)'
      BY <2>3, <2>6, <3>8 DEF ScopeOK
    <3>11. IsCurrent(s)' => IsCurrent(s)
      BY <2>3 DEF IsCurrent
    <3>12. IsCurrent(s) => s.pair \in DOMAIN pending[f]
      BY <2>1, <2>6 DEF CurrentOK
    <3>13. ASSUME IsCurrent(s), ~removed
           PROVE  /\ pending[f][s.pair].frame = ordinal
                  /\ MarkedBy(f, s.pair, <<ordinal, s.gen>>)
                  /\ list.open /\ s.gen = list.gen =>
                        \E n \in list.marks : Of(n, f, s.pair) /\ n.part = "begin"
      BY <2>1, <2>6, <3>13 DEF CurrentOK
    <3>14. ASSUME ~removed
           PROVE  \E n \in list.marks : Of(n, f, p) /\ n.by = b
      <4>1. /\ list.open /\ e.gen = list.gen
            /\ MarkedBy(f, p, <<ordinal, e.gen>>)
            /\ \E n \in list.marks : Of(n, f, p)
        BY <2>1, <2>8, <3>2, <3>3, <3>14 DEF CurrentOK, StillRecording
      <4> QED BY <3>5, <4>1 DEF MarkedBy
    <3>15. ASSUME IsCurrent(s), ~removed
           PROVE  /\ pending'[f][s.pair].frame = ordinal
                  /\ \A n \in list'.marks : Of(n, f, s.pair) => n.by = <<ordinal, s.gen>>
                  /\ \A c \in Commands("direct")' : c.op = "work" =>
                        \A n \in c.marks : Of(n, f, s.pair) => n.by = <<ordinal, s.gen>>
                  /\ list'.open /\ s.gen = list'.gen =>
                        \E n \in list'.marks : Of(n, f, s.pair) /\ n.part = "begin"
      <4>1. Of(m, f, s.pair) => m.by = <<ordinal, s.gen>>
        BY <3>7, <3>13, <3>14, <3>15 DEF MarkedBy, Of
      <4> QED BY <2>4, <3>8, <3>9, <3>12, <3>13, <3>15, <4>1 DEF MarkedBy
    <3>16. ASSUME IsCurrent(s)' PROVE s.pair \in DOMAIN pending'[frame'.slot]
      BY <2>1, <2>3, <3>9, <3>11, <3>12, <3>16
    <3>17. ASSUME IsCurrent(s)', ~removed'
           PROVE  /\ pending'[frame'.slot][s.pair].frame = ordinal'
                  /\ MarkedBy(frame.slot, s.pair, <<ordinal, s.gen>>)'
                  /\ list'.open /\ s.gen = list'.gen =>
                        \E n \in list'.marks : Of(n, frame'.slot, s.pair) /\ n.part = "begin"
      <4>1. IsCurrent(s) /\ ~removed
        BY <2>3, <3>11, <3>17
      <4>2. frame' = frame /\ ordinal' = ordinal /\ frame'.slot = f
        BY <2>1, <2>3
      <4> QED BY <3>15, <4>1, <4>2 DEF MarkedBy
    <3>18. CurrentOK(s)'
      BY <3>16, <3>17 DEF CurrentOK, MarkedBy
    <3> QED BY <3>10, <3>18
  <2> QED BY <2>7, <2>8
<1> QED
  BY <1>1, <1>2, <1>3, <1>4, <1>5, <1>6, <1>7, <1>8, <1>9, <1>10 DEF Next, RenderStep

-----------------------------------------------------------------------------
(* The samples.                                                            *)

\* A query that is to be ended: by the list, or by work in the queue.
Pends(m) ==
    \/ m \in list.marks
    \/ \E c \in Commands("direct") : c.op = "work" /\ m \in c.marks

\* What a step that leaves the samples alone submits.
LEMMA MarksKept ==
  ASSUME MarksOK, UNCHANGED pending, list'.marks \subseteq list.marks,
         list'.marks # {} => frame'.slot = frame.slot,
         \A c \in Commands("direct")' :
            \/ c \in Commands("direct") \/ c.op = "signal"
            \/ c.op = "work" /\ c.marks \subseteq list.marks /\ c.slot = frame.slot
            \/ c.op = "resolve" /\ c.slot = frame.slot /\ c.pairs = Recorded
  PROVE  MarksOK'
<1>1. \A m \in list'.marks : m.slot = frame'.slot /\ m.pair \in DOMAIN pending'[m.slot]
  BY DEF MarksOK
<1>2. ASSUME NEW c \in Commands("direct")', c.op = "work", NEW m \in c.marks
      PROVE  m.slot = c.slot /\ m.pair \in DOMAIN pending[m.slot]
  <2>1. CASE c \in Commands("direct")
    BY <1>2, <2>1 DEF MarksOK
  <2>2. CASE c.marks \subseteq list.marks /\ c.slot = frame.slot
    BY <1>2, <2>2 DEF MarksOK
  <2> QED BY <1>2, <2>1, <2>2
<1>3. ASSUME NEW c \in Commands("direct")', c.op = "resolve"
      PROVE  c.pairs = {p \in DOMAIN pending[c.slot] : pending[c.slot][p].ended}
  <2>1. CASE c \in Commands("direct")
    BY <1>3, <2>1 DEF MarksOK
  <2>2. CASE c.slot = frame.slot /\ c.pairs = Recorded
    BY <2>2 DEF Recorded, InUse
  <2> QED BY <1>3, <2>1, <2>2
<1> QED BY <1>1, <1>2, <1>3 DEF MarksOK

\* A step that writes and resolves nothing keeps the samples it does not drop.
LEMMA SamplesKept ==
  ASSUME SamplesOK, ~removed, UNCHANGED <<heap, results>>, \A m : Pends(m)' <=> Pends(m),
         \A s \in Slots : \/ DOMAIN pending'[s] = {}
                          \/ pending'[s] = pending[s] /\ (Unresolved(s) => Unresolved(s)')
  PROVE  \A s \in Slots : \A p \in DOMAIN pending'[s] : \E b \in By : SampleOK(s, p, b)'
<1> SUFFICES ASSUME NEW s \in Slots, NEW p \in DOMAIN pending'[s]
             PROVE  \E b \in By : SampleOK(s, p, b)'
  OBVIOUS
<1>1. pending'[s] = pending[s] /\ (Unresolved(s) => Unresolved(s)')
  OBVIOUS
<1>2. PICK b \in By : SampleOK(s, p, b)
  BY <1>1 DEF SamplesOK
<1>3. MarkedBy(s, p, b)'
  <2>1. \A m : Pends(m) /\ Of(m, s, p) => m.by = b
    BY <1>2 DEF SampleOK, MarkedBy, Pends
  <2>2. \A m : Pends(m)' /\ Of(m, s, p) => m.by = b
    BY <2>1
  <2> QED BY <2>2 DEF MarkedBy, Pends
<1>4. ASSUME NEW part \in Parts, Issued(s, p, part, b) PROVE Issued(s, p, part, b)'
  <2>1. CASE heap[s][p][part] = b
    BY <2>1 DEF Issued
  <2>2. CASE \E m : Pends(m) /\ Of(m, s, p) /\ m.part = part
    <3>1. PICK m : Pends(m)' /\ Of(m, s, p) /\ m.part = part
      BY <2>2
    <3> QED BY <3>1 DEF Pends, Issued
  <2> QED BY <1>4, <2>1, <2>2 DEF Issued, Pends
<1>5. b[1] = pending'[s][p].frame
  BY <1>1, <1>2 DEF SampleOK
<1>6. ASSUME pending'[s][p].ended, NEW part \in Parts
      PROVE  Issued(s, p, part, b)' /\ (~Unresolved(s)' => results'[s][p][part] = b)
  BY <1>1, <1>2, <1>4, <1>6 DEF SampleOK
<1> QED BY <1>3, <1>5, <1>6 DEF SampleOK, MarkedBy, Issued, Unresolved

\* A work command writes what the marks it holds ask for.
LEMMA WorkDone ==
  ASSUME FramesOK, ~removed, NEW c \in Commands("direct"), c.op = "work",
         Commands("direct") = Commands("direct")' \union {c},
         heap' = [s \in Slots |-> [p \in Pairs |-> Marked(s, p, c.marks)]],
         UNCHANGED <<pending, results, list, frame, recording>>
  PROVE  \A s \in Slots : \A p \in DOMAIN pending'[s] : \E b \in By : SampleOK(s, p, b)'
<1> USE DEF FramesOK
<1> SUFFICES ASSUME NEW s \in Slots, NEW p \in DOMAIN pending[s]
             PROVE  \E b \in By : SampleOK(s, p, b)'
  OBVIOUS
<1>1. PICK b \in By : SampleOK(s, p, b)
  BY DEF SamplesOK
<1>2. c \in Command
  <2>1. queue["direct"] \in Seq(Command)
    BY DEF FrameTypes, QueueNames
  <2> QED BY <2>1 DEF Commands
<1>3. p \in Pairs /\ c.marks \in SUBSET Mark
  BY <1>2, PairsInUse, CommandTypes
<1>4. MarkedBy(s, p, b)'
  BY <1>1 DEF SampleOK, MarkedBy
<1>5. ASSUME NEW part \in Parts, Issued(s, p, part, b) PROVE Issued(s, p, part, b)'
  <2>1. heap'[s][p] = Marked(s, p, c.marks)
    BY <1>3
  <2>2. CASE /\ heap'[s][p][part] = heap[s][p][part]
             /\ ~\E m \in c.marks : Of(m, s, p) /\ m.part = part
    BY <1>5, <2>2 DEF Issued
  <2>3. CASE \E m \in c.marks : Of(m, s, p) /\ heap'[s][p][part] = m.by
    <3>1. heap'[s][p][part] = b
      BY <1>1, <2>3 DEF SampleOK, MarkedBy
    <3> QED BY <3>1 DEF Issued
  <2> QED BY <1>3, <2>1, <2>2, <2>3, MarkedTyped
<1>6. Unresolved(s) => Unresolved(s)'
  BY DEF Unresolved
<1>7. ASSUME pending'[s][p].ended, NEW part \in Parts
      PROVE  Issued(s, p, part, b)' /\ (~Unresolved(s)' => results'[s][p][part] = b)
  BY <1>1, <1>5, <1>6, <1>7 DEF SampleOK
<1>8. b[1] = pending'[s][p].frame
  BY <1>1 DEF SampleOK
<1> QED BY <1>4, <1>7, <1>8 DEF SampleOK, MarkedBy, Issued, Unresolved

\* A resolve comes after all that writes the queries it reads.
LEMMA ResolveDone ==
  ASSUME FramesOK, ~removed, NEW c \in Commands("direct"), c.op = "resolve",
         Commands("direct") = Commands("direct")' \union {c},
         \A d \in Commands("direct")' : Follows(c, d),
         results' = [results EXCEPT ![c.slot] =
                [p \in Pairs |-> IF p \in c.pairs THEN heap[c.slot][p] ELSE @[p]]],
         UNCHANGED <<pending, heap, list, frame, recording>>
  PROVE  \A s \in Slots : \A p \in DOMAIN pending'[s] : \E b \in By : SampleOK(s, p, b)'
<1> USE DEF FramesOK
<1> SUFFICES ASSUME NEW s \in Slots, NEW p \in DOMAIN pending[s]
             PROVE  \E b \in By : SampleOK(s, p, b)'
  OBVIOUS
<1>1. PICK b \in By : SampleOK(s, p, b)
  BY DEF SamplesOK
<1>2. c \in Command
  <2>1. queue["direct"] \in Seq(Command)
    BY DEF FrameTypes, QueueNames
  <2> QED BY <2>1 DEF Commands
<1>3. p \in Pairs /\ c.slot \in Slots
  BY <1>2, PairsInUse, CommandTypes
<1>4. MarkedBy(s, p, b)'
  BY <1>1 DEF SampleOK, MarkedBy
<1>5. ASSUME NEW part \in Parts, Issued(s, p, part, b) PROVE Issued(s, p, part, b)'
  BY <1>5 DEF Issued
<1>6. ASSUME pending[s][p].ended, NEW part \in Parts, ~Unresolved(s)'
      PROVE  results'[s][p][part] = b
  <2>1. CASE s = c.slot
    <3>1. \A m \in list.marks : ~Of(m, s, p)
      <4>1. recording => c.slot # frame.slot
        BY DEF OrderOK
      <4>2. list.marks # {} => recording
        BY DEF FlowOK, FlagsTyped
      <4>3. \A m \in list.marks : m.slot = frame.slot
        BY DEF SamplesOK, MarksOK
      <4> QED BY <2>1, <4>1, <4>2, <4>3 DEF Of
    <3>2. ASSUME NEW d \in Commands("direct"), d.op = "work", NEW m \in d.marks
          PROVE  ~Of(m, s, p)
      <4>1. d.slot # c.slot
        BY <3>2 DEF Follows
      <4>2. m.slot = d.slot
        BY <3>2 DEF SamplesOK, MarksOK
      <4> QED BY <2>1, <4>1, <4>2 DEF Of
    <3>3. heap[s][p][part] = b
      BY <1>1, <1>6, <3>1, <3>2 DEF SampleOK, Issued
    <3>4. p \in c.pairs
      BY <1>6, <2>1 DEF SamplesOK, MarksOK
    <3>5. results'[s][p] = heap[s][p]
      BY <1>3, <2>1, <3>4 DEF BuffersTyped
    <3> QED BY <3>3, <3>5
  <2>2. CASE s # c.slot
    <3>1. results'[s] = results[s]
      BY <2>2 DEF BuffersTyped
    <3>2. ~Unresolved(s)
      BY <1>6, <2>2 DEF Unresolved
    <3> QED BY <1>1, <1>6, <3>1, <3>2 DEF SampleOK
  <2> QED BY <2>1, <2>2
<1>7. ASSUME pending'[s][p].ended, NEW part \in Parts
      PROVE  Issued(s, p, part, b)' /\ (~Unresolved(s)' => results'[s][p][part] = b)
  BY <1>1, <1>5, <1>6, <1>7 DEF SampleOK
<1>8. b[1] = pending'[s][p].frame
  BY <1>1 DEF SampleOK
<1> QED BY <1>4, <1>7, <1>8 DEF SampleOK, MarkedBy, Issued, Unresolved

\* A scope that begins takes a pair that is in no mark.
LEMMA SampleBegun ==
  ASSUME FramesOK, ~removed, NEW h \in Scopes, BeginScope(h)
  PROVE  /\ MarksOK'
         /\ \A s \in Slots : \A p \in DOMAIN pending'[s] : \E b \in By : SampleOK(s, p, b)'
<1> USE DEF FramesOK
<1>1. PICK f \in Slots : f = frame.slot
  BY DEF FrameTypes
<1>2. PICK q \in Pairs : q = Len(pending[f]) + 1
  <2>1. pending[f] \in Seq(Sample) /\ Len(pending[f]) < MaxPairs
    BY <1>1 DEF BuffersTyped, BeginScope
  <2>2. Len(pending[f]) \in Nat
    BY <2>1
  <2> QED BY <2>1, <2>2, NextPair
<1>3. PICK a \in By : a = <<frame.ordinal, list.gen>>
  <2>1. frame.ordinal \in Frames /\ list.gen \in 0 .. MaxRecordings
    BY DEF FrameTypes
  <2> QED BY <2>1 DEF By
<1> DEFINE m == [slot |-> f, pair |-> q, part |-> "begin", by |-> a]
           x == [frame |-> frame.ordinal, ended |-> FALSE]
<1>4. /\ UNCHANGED <<removed, frame, recording, queue, heap, results>> /\ recording
      /\ list' = [list EXCEPT !.marks = @ \union {m}]
      /\ pending' = [pending EXCEPT ![f] = Append(@, x)]
  <2>1. UNCHANGED <<removed, frame, recording, queue, heap, results>>
    BY DEF BeginScope, backVars, gpuVars
  <2>2. recording
    BY DEF BeginScope
  <2>3. /\ list' = [list EXCEPT !.marks = @ \union {m}]
        /\ pending' = [pending EXCEPT ![f] = Append(@, x)]
    BY <1>1, <1>2, <1>3 DEF BeginScope, Query
  <2> QED BY <2>1, <2>2, <2>3
<1>5. /\ m.slot = f /\ m.pair = q /\ m.by = a
      /\ x.frame = frame.ordinal /\ x.ended = FALSE /\ x \in Sample
  BY DEF Sample, FrameTypes
<1> HIDE DEF m, x
<1>6. list'.marks = list.marks \union {m}
  BY <1>4 DEF FlagsTyped
<1>7. UNCHANGED Commands("direct")
  BY <1>4, SameCommands DEF QueueNames
<1>8. /\ DOMAIN pending'[f] = DOMAIN pending[f] \union {q} /\ q \notin DOMAIN pending[f]
      /\ pending'[f][q] = x
      /\ \A i \in DOMAIN pending[f] : pending'[f][i] = pending[f][i]
      /\ \A s \in Slots : s # f => pending'[s] = pending[s]
  <2>1. pending[f] \in Seq(Sample) /\ pending'[f] = Append(pending[f], x)
    BY <1>4 DEF BuffersTyped
  <2>2. \A s \in Slots : s # f => pending'[s] = pending[s]
    BY <1>4 DEF BuffersTyped
  <2> QED BY <1>2, <1>5, <2>1, <2>2, AppendedTo
<1>9. MarksOK
  BY DEF SamplesOK
<1>10. \A n : Pends(n)' <=> (Pends(n) \/ n = m)
  BY <1>6, <1>7 DEF Pends
<1>11. \A n : Pends(n) => ~Of(n, f, q)
  BY <1>8, <1>9 DEF Pends, MarksOK, Of
<1>12. \A c \in Commands("direct") : c.op # "signal" => c.slot \in Slots
  <2>1. queue["direct"] \in Seq(Command)
    BY DEF FrameTypes, QueueNames
  <2>2. \A c \in Commands("direct") : c \in Command
    BY <2>1 DEF Commands
  <2> QED BY <2>2, CommandTypes
<1>13. MarksOK'
  <2>1. \A n \in list'.marks : n.slot = frame'.slot /\ n.pair \in DOMAIN pending'[n.slot]
    BY <1>1, <1>4, <1>5, <1>6, <1>8, <1>9 DEF MarksOK
  <2>2. ASSUME NEW c \in Commands("direct")', c.op = "work", NEW n \in c.marks
        PROVE  n.slot = c.slot /\ n.pair \in DOMAIN pending'[n.slot]
    <3>1. n.slot = c.slot /\ n.pair \in DOMAIN pending[n.slot] /\ c.slot \in Slots
      BY <1>7, <1>9, <1>12, <2>2 DEF MarksOK
    <3> QED BY <1>8, <3>1
  <2>3. ASSUME NEW c \in Commands("direct")', c.op = "resolve"
        PROVE  c.pairs = {p \in DOMAIN pending'[c.slot] : pending'[c.slot][p].ended}
    <3>1. /\ c.slot \in Slots /\ c.slot # f
          /\ c.pairs = {p \in DOMAIN pending[c.slot] : pending[c.slot][p].ended}
      BY <1>1, <1>4, <1>7, <1>9, <1>12, <2>3 DEF MarksOK, OrderOK
    <3> QED BY <1>8, <3>1
  <2> QED BY <2>1, <2>2, <2>3 DEF MarksOK
<1>14. ASSUME NEW s \in Slots, NEW p \in DOMAIN pending'[s]
       PROVE  \E b \in By : SampleOK(s, p, b)'
  <2>1. CASE s = f /\ p = q
    <3>1. \A n : Pends(n)' /\ Of(n, s, p) => n.by = a
      BY <1>5, <1>10, <1>11, <2>1
    <3>2. MarkedBy(s, p, a)'
      BY <3>1 DEF MarkedBy, Pends
    <3>3. a[1] = pending'[s][p].frame /\ ~pending'[s][p].ended
      BY <1>3, <1>5, <1>8, <2>1
    <3> QED BY <3>2, <3>3 DEF SampleOK, MarkedBy, Issued, Unresolved
  <2>2. CASE ~(s = f /\ p = q)
    <3>1. p \in DOMAIN pending[s] /\ pending'[s][p] = pending[s][p]
      BY <1>8, <2>2
    <3>2. PICK b \in By : SampleOK(s, p, b)
      BY <3>1 DEF SamplesOK
    <3>3. MarkedBy(s, p, b)'
      <4>1. \A n : Pends(n) /\ Of(n, s, p) => n.by = b
        BY <3>2 DEF SampleOK, MarkedBy, Pends
      <4>2. ~Of(m, s, p)
        BY <1>5, <2>2 DEF Of
      <4>3. \A n : Pends(n)' /\ Of(n, s, p) => n.by = b
        BY <1>10, <4>1, <4>2
      <4> QED BY <4>3 DEF MarkedBy, Pends
    <3>4. ASSUME NEW part \in Parts, Issued(s, p, part, b) PROVE Issued(s, p, part, b)'
      BY <1>4, <1>6, <1>7, <3>4 DEF Issued
    <3>5. Unresolved(s) => Unresolved(s)'
      BY <1>4, <1>7 DEF Unresolved
    <3>6. ASSUME pending'[s][p].ended, NEW part \in Parts
          PROVE  Issued(s, p, part, b)' /\ (~Unresolved(s)' => results'[s][p][part] = b)
      BY <1>4, <3>1, <3>2, <3>4, <3>5, <3>6 DEF SampleOK
    <3>7. b[1] = pending'[s][p].frame
      BY <3>1, <3>2 DEF SampleOK
    <3> QED BY <3>3, <3>6, <3>7 DEF SampleOK, MarkedBy, Issued, Unresolved
  <2> QED BY <2>1, <2>2
<1> QED BY <1>13, <1>14 DEF SampleOK, MarkedBy, Issued, Unresolved

\* A scope that ends in the recording it began in completes its sample.
LEMMA SampleEnded ==
  ASSUME FramesOK, ~removed, NEW h \in Scopes, EndScope(h)
  PROVE  /\ MarksOK'
         /\ \A s \in Slots : \A p \in DOMAIN pending'[s] : \E b \in By : SampleOK(s, p, b)'
<1> USE DEF FramesOK
<1>1. PICK f \in Slots : f = frame.slot
  BY DEF FrameTypes
<1>2. PICK e : e = scopes[h]
  OBVIOUS
<1>3. UNCHANGED <<removed, frame, recording, queue, heap, results>>
  BY DEF EndScope, backVars, gpuVars
<1>4. UNCHANGED Commands("direct")
  BY <1>3, SameCommands DEF QueueNames
<1>5. MarksOK
  BY DEF SamplesOK
<1>6. CASE ~StillRecording(e)
  <2>1. UNCHANGED <<pending, list>>
    BY <1>2, <1>6 DEF EndScope
  <2>2. MarksOK'
    BY <1>3, <1>4, <1>5, <2>1 DEF MarksOK
  <2>3. /\ \A m : Pends(m)' <=> Pends(m)
        /\ \A s \in Slots : Unresolved(s) => Unresolved(s)'
    BY <1>3, <1>4, <2>1 DEF Pends, Unresolved
  <2> QED BY <1>3, <2>1, <2>2, <2>3, SamplesKept
<1>7. CASE StillRecording(e)
  <2>1. PICK q : q = e.pair
    OBVIOUS
  <2>2. PICK a : a = <<frame.ordinal, list.gen>>
    OBVIOUS
  <2> DEFINE m == [slot |-> f, pair |-> q, part |-> "end", by |-> a]
  <2>3. /\ pending' = [pending EXCEPT ![f][q].ended = TRUE]
        /\ list' = [list EXCEPT !.marks = @ \union {m}]
    BY <1>1, <1>2, <1>7, <2>1, <2>2 DEF EndScope, Query
  <2>4. m.slot = f /\ m.pair = q /\ m.part = "end" /\ m.by = a
    OBVIOUS
  <2> HIDE DEF m
  <2>5. list'.marks = list.marks \union {m}
    BY <2>3 DEF FlagsTyped
  <2>6. /\ recording /\ frame.ordinal = ordinal /\ list.open /\ e.gen = list.gen
        /\ e.device = device /\ e.frame = ordinal
    BY <1>7 DEF StillRecording, FlowOK, InFrame, Recording
  <2>7. /\ q \in DOMAIN pending[f] /\ MarkedBy(f, q, a)
        /\ \E n \in list.marks : Of(n, f, q) /\ n.part = "begin"
    <3>1. e # NoScope
      BY <1>2 DEF EndScope
    <3>2. CurrentOK(e) /\ IsCurrent(e)
      BY <1>2, <2>6, <3>1, ScopesAre DEF IsCurrent
    <3> QED BY <1>1, <2>1, <2>2, <2>6, <3>2 DEF CurrentOK
  <2>8. /\ DOMAIN pending'[f] = DOMAIN pending[f]
        /\ pending'[f][q].ended /\ pending'[f][q].frame = pending[f][q].frame
        /\ \A i \in DOMAIN pending[f] : i # q => pending'[f][i] = pending[f][i]
        /\ \A s \in Slots : s # f => pending'[s] = pending[s]
    <3>1. pending[f] \in Seq(Sample) /\ pending \in [Slots -> Seq(Sample)]
      BY DEF BuffersTyped
    <3>2. pending[f][q] \in Sample
      BY <2>7, <3>1
    <3>3. pending'[f] = [pending[f] EXCEPT ![q] = [@ EXCEPT !.ended = TRUE]]
      BY <2>3, <3>1
    <3>4. pending'[f][q] = [pending[f][q] EXCEPT !.ended = TRUE]
      BY <2>7, <3>1, <3>3
    <3>5. pending'[f][q].ended /\ pending'[f][q].frame = pending[f][q].frame
      BY <3>2, <3>4 DEF Sample
    <3>6. /\ DOMAIN pending'[f] = DOMAIN pending[f]
          /\ \A i \in DOMAIN pending[f] : i # q => pending'[f][i] = pending[f][i]
      BY <3>1, <3>3
    <3>7. \A s \in Slots : s # f => pending'[s] = pending[s]
      BY <2>3, <3>1
    <3> QED BY <3>5, <3>6, <3>7
  <2>9. \A n : Pends(n)' <=> (Pends(n) \/ n = m)
    BY <1>4, <2>5 DEF Pends
  <2>10. \A c \in Commands("direct") : c.op # "signal" => c.slot \in Slots
    <3>1. queue["direct"] \in Seq(Command)
      BY DEF FrameTypes, QueueNames
    <3>2. \A c \in Commands("direct") : c \in Command
      BY <3>1 DEF Commands
    <3> QED BY <3>2, CommandTypes
  <2>11. MarksOK'
    <3>1. \A n \in list'.marks : n.slot = frame'.slot /\ n.pair \in DOMAIN pending'[n.slot]
      BY <1>1, <1>3, <1>5, <2>4, <2>5, <2>7, <2>8 DEF MarksOK
    <3>2. ASSUME NEW c \in Commands("direct")', c.op = "work", NEW n \in c.marks
          PROVE  n.slot = c.slot /\ n.pair \in DOMAIN pending'[n.slot]
      <4>1. n.slot = c.slot /\ n.pair \in DOMAIN pending[n.slot] /\ c.slot \in Slots
        BY <1>4, <1>5, <2>10, <3>2 DEF MarksOK
      <4> QED BY <2>8, <4>1
    <3>3. ASSUME NEW c \in Commands("direct")', c.op = "resolve"
          PROVE  c.pairs = {p \in DOMAIN pending'[c.slot] : pending'[c.slot][p].ended}
      <4>1. /\ c.slot \in Slots /\ c.slot # f
            /\ c.pairs = {p \in DOMAIN pending[c.slot] : pending[c.slot][p].ended}
        BY <1>1, <1>4, <1>5, <2>6, <2>10, <3>3 DEF MarksOK, OrderOK
      <4> QED BY <2>8, <4>1
    <3> QED BY <3>1, <3>2, <3>3 DEF MarksOK
  <2>12. ASSUME NEW s \in Slots, NEW p \in DOMAIN pending'[s]
         PROVE  \E b \in By : SampleOK(s, p, b)'
    <3>1. p \in DOMAIN pending[s] /\ pending'[s][p].frame = pending[s][p].frame
      BY <2>8
    <3>2. PICK b \in By : SampleOK(s, p, b)
      BY <3>1 DEF SamplesOK
    <3>3. Of(m, s, p) => b = a
      <4>1. \A n \in list.marks : Of(n, f, q) => n.by = a
        BY <2>7 DEF MarkedBy
      <4>2. \A n \in list.marks : Of(n, s, p) => n.by = b
        BY <3>2 DEF SampleOK, MarkedBy
      <4>3. Of(m, s, p) => s = f /\ p = q
        BY <2>4 DEF Of
      <4> QED BY <2>7, <4>1, <4>2, <4>3
    <3>4. MarkedBy(s, p, b)'
      <4>1. \A n : Pends(n) /\ Of(n, s, p) => n.by = b
        BY <3>2 DEF SampleOK, MarkedBy, Pends
      <4>2. \A n : Pends(n)' /\ Of(n, s, p) => n.by = b
        BY <2>4, <2>9, <3>3, <4>1
      <4> QED BY <4>2 DEF MarkedBy, Pends
    <3>5. ASSUME NEW part \in Parts, Issued(s, p, part, b) PROVE Issued(s, p, part, b)'
      BY <1>3, <1>4, <2>5, <3>5 DEF Issued
    <3>6. Unresolved(s) => Unresolved(s)'
      BY <1>3, <1>4 DEF Unresolved
    <3>7. ASSUME pending'[s][p].ended, NEW part \in Parts
          PROVE  Issued(s, p, part, b)' /\ (~Unresolved(s)' => results'[s][p][part] = b)
      <4>1. CASE s = f /\ p = q
        <5>1. Issued(s, p, part, b)'
          <6>1. part = "begin" \/ part = "end"
            BY DEF Parts
          <6>2. \E n \in list'.marks : Of(n, f, q) /\ n.part = part
            BY <2>4, <2>5, <2>7, <6>1 DEF Of
          <6> QED BY <4>1, <6>2 DEF Issued
        <5>2. Unresolved(s)'
          BY <1>1, <1>3, <2>6, <4>1 DEF Unresolved
        <5> QED BY <5>1, <5>2
      <4>2. CASE ~(s = f /\ p = q)
        <5>1. pending'[s][p] = pending[s][p]
          BY <2>8, <3>1, <4>2
        <5> QED BY <1>3, <3>2, <3>5, <3>6, <3>7, <5>1 DEF SampleOK
      <4> QED BY <4>1, <4>2
    <3>8. b[1] = pending'[s][p].frame
      BY <3>1, <3>2 DEF SampleOK
    <3> QED BY <3>4, <3>7, <3>8 DEF SampleOK, MarkedBy, Issued, Unresolved
  <2> QED BY <2>11, <2>12 DEF SampleOK, MarkedBy, Issued, Unresolved
<1> QED BY <1>6, <1>7

\* A step that submits at most a command, which isn't of marks that nobody made.
LEMMA SamplesLeft ==
  ASSUME FramesOK, ~removed, UNCHANGED <<pending, heap, results>>,
         list'.marks # {} => frame'.slot = frame.slot,
         NEW N, \A c \in Commands("direct")' : c \in Commands("direct") \/ c \in N,
         \A c \in Commands("direct") : c \in Commands("direct")' \/ c.op = "signal",
         \A c \in N : c \in Commands("direct")' /\
            \/ c.op = "signal"
            \/ c.op = "work" /\ c.marks \subseteq list.marks /\ c.slot = frame.slot
            \/ c.op = "resolve" /\ c.slot = frame.slot /\ c.pairs = Recorded,
         list'.marks \subseteq list.marks,
         \A m \in list.marks :
            m \in list'.marks \/ \E c \in N : c.op = "work" /\ m \in c.marks,
         \/ ~recording
         \/ recording' /\ frame'.slot = frame.slot
         \/ InUse = {} \/ \E c \in N : c.op = "resolve"
  PROVE  SamplesOK'
<1> USE DEF FramesOK
<1>1. MarksOK
  BY DEF SamplesOK
<1>2. MarksOK'
  BY <1>1, MarksKept
<1>3. \A m : Pends(m)' <=> Pends(m)
  BY DEF Pends
<1>4. ASSUME NEW s \in Slots, DOMAIN pending[s] # {}, Unresolved(s) PROVE Unresolved(s)'
  <2>1. CASE \E c \in Commands("direct") : c.op = "resolve" /\ c.slot = s
    BY <2>1 DEF Unresolved
  <2>2. CASE recording /\ frame.slot = s
    <3>1. InUse # {}
      BY <1>4, <2>2 DEF InUse
    <3>2. CASE recording' /\ frame'.slot = frame.slot
      BY <2>2, <3>2 DEF Unresolved
    <3>3. CASE \E c \in N : c.op = "resolve"
      BY <2>2, <3>3 DEF Unresolved
    <3> QED BY <2>2, <3>1, <3>2, <3>3
  <2> QED BY <1>4, <2>1, <2>2 DEF Unresolved
<1>5. \A s \in Slots : \A p \in DOMAIN pending'[s] : \E b \in By : SampleOK(s, p, b)'
  BY <1>3, <1>4, SamplesKept
<1> QED BY <1>2, <1>5 DEF SamplesOK, SampleOK, MarkedBy, Issued, Unresolved, MarksOK

\* A step keeps what is known of the samples.
LEMMA SamplesStep == ASSUME FramesOK, Next PROVE SamplesOK'
<1> USE DEF FramesOK
<1>0. /\ "direct" \in QueueNames /\ frame.slot \in Slots
      /\ ~recording => list.marks = {}
  BY DEF FrameTypes, FlowOK, FlagsTyped, QueueNames
<1>1. CASE Reinit
  <2>1. pc = "none" /\ list' = list
    BY <1>1 DEF Reinit
  <2>2. /\ \A s \in Slots : pending'[s] = <<>>
        /\ queue'["direct"] = <<>>
    BY <1>0, <1>1 DEF Reinit, FreshDevice
  <2>3. Commands("direct")' = {} /\ list'.marks = {}
    BY <2>1, <2>2 DEF Commands, FlowOK, Recording
  <2> QED BY <2>2, <2>3 DEF SamplesOK, MarksOK
<1>2. CASE Remove \/ Uninit
  <2>1. removed'
    BY <1>2 DEF Remove, Uninit, FlowOK
  <2> QED BY <2>1 DEF SamplesOK
<1>3. CASE /\ ~removed
           /\ Minimized \/ StartFrame \/ CheckRemoved \/ ChangeBackBuffers \/ WaitIdle
  <2>1. UNCHANGED <<pending, heap, results, frame, list, queue, recording>>
    BY <1>3 DEF Minimized, StartFrame, CheckRemoved, ChangeBackBuffers, WaitIdle, backVars,
       timerVars, gpuVars, vars
  <2>2. UNCHANGED Commands("direct")
    BY <1>0, <2>1, SameCommands
  <2> DEFINE N == {}
  <2>3. \A c : c \notin N
    OBVIOUS
  <2> HIDE DEF N
  <2> QED BY <1>3, <2>1, <2>2, <2>3, SamplesLeft
<1>4. CASE ~removed /\ (WaitForSlot \/ ReplaceBackBuffers \/ ResetList)
  <2>1. /\ UNCHANGED <<pending, heap, results, queue, recording>>
        /\ list'.marks = {} /\ list.marks = {}
        /\ ~recording \/ UNCHANGED frame
    <3>1. CASE WaitForSlot
      BY <3>1 DEF WaitForSlot, FlowOK, Recording, timerVars, gpuVars
    <3>2. CASE ReplaceBackBuffers
      BY <3>2 DEF ReplaceBackBuffers, FlowOK, Recording, timerVars, gpuVars
    <3>3. CASE ResetList
      BY <3>3 DEF ResetList, FlowOK, backVars, timerVars, gpuVars
    <3> QED BY <1>4, <3>1, <3>2, <3>3
  <2>2. UNCHANGED Commands("direct")
    BY <1>0, <2>1, SameCommands
  <2> DEFINE N == {}
  <2>3. \A c : c \notin N
    OBVIOUS
  <2> HIDE DEF N
  <2> QED BY <1>4, <2>1, <2>2, <2>3, SamplesLeft
<1>5. CASE ~removed /\ (Draw \/ Present \/ ExecuteList)
  <2>1. /\ UNCHANGED <<pending, heap, results, frame, recording>>
        /\ UNCHANGED <<queue, list>> \/
             \E marks \in SUBSET Mark :
                /\ Submit("direct", Work(marks))
                /\ \/ UNCHANGED list /\ marks = {}
                   \/ list'.marks = {} /\ marks = list.marks
    <3>1. CASE Draw \/ Present
      BY <3>1 DEF Draw, Present, backVars, timerVars, gpuVars
    <3>2. CASE ExecuteList
      <4>1. list.marks \in SUBSET Mark /\ list'.marks = {}
        BY <3>2 DEF ExecuteList, FlagsTyped
      <4> QED BY <3>2, <4>1 DEF ExecuteList, backVars, timerVars, gpuVars
    <3> QED BY <1>5, <3>1, <3>2
  <2>2. CASE UNCHANGED <<queue, list>>
    <3>1. UNCHANGED Commands("direct")
      BY <1>0, <2>2, SameCommands
    <3> DEFINE N == {}
    <3>2. \A c : c \notin N
      OBVIOUS
    <3> HIDE DEF N
    <3> QED BY <1>5, <2>1, <2>2, <3>1, <3>2, SamplesLeft
  <2>3. CASE ~UNCHANGED <<queue, list>>
    <3>1. PICK marks \in SUBSET Mark :
             /\ Submit("direct", Work(marks))
             /\ \/ UNCHANGED list /\ marks = {}
                \/ list'.marks = {} /\ marks = list.marks
      BY <2>1, <2>3
    <3>2. PICK c \in Command : c = Work(marks)
      BY AreCommands
    <3>3. c.op = "work" /\ c.marks = marks /\ c.slot = frame.slot
      BY <3>2 DEF Work
    <3>4. Commands("direct")' = Commands("direct") \union {c}
      BY <1>0, <3>1, <3>2, Submitted
    <3> DEFINE N == {c}
    <3>5. \A d : d \in N <=> d = c
      OBVIOUS
    <3> HIDE DEF N
    <3> QED BY <1>5, <2>1, <3>1, <3>3, <3>4, <3>5, SamplesLeft
  <2> QED BY <2>2, <2>3
<1>6. CASE ~removed /\ (EndFrame \/ SignalIdle)
  <2>1. UNCHANGED <<pending, heap, results, frame, list, recording>>
    BY <1>6 DEF EndFrame, SignalIdle, timerVars, gpuVars
  <2>2. \E q \in QueueNames, c \in Command : c.op = "signal" /\ Submit(q, c)
    <3>1. ordinal \in Nat /\ idleValue + 1 \in Nat /\ Queues[visit] \in QueueNames
      BY Numbers DEF FrameTypes
    <3>2. CASE EndFrame
      <4> DEFINE c == [op |-> "signal", fence |-> "frame", value |-> ordinal]
      <4>1. c \in Command /\ c.op = "signal"
        BY <3>1, AreCommands
      <4>2. Submit("direct", c)
        BY <1>6, <3>2 DEF EndFrame
      <4> QED BY <1>0, <4>1, <4>2
    <3>3. CASE SignalIdle
      <4> DEFINE c == [op |-> "signal", fence |-> "idle", value |-> idleValue + 1]
      <4>1. c \in Command /\ c.op = "signal"
        BY <3>1, AreCommands
      <4>2. Submit(Queues[visit], c)
        BY <1>6, <3>3 DEF SignalIdle
      <4> QED BY <3>1, <4>1, <4>2
    <3> QED BY <1>6, <3>2, <3>3
  <2>3. PICK q \in QueueNames, c \in Command : c.op = "signal" /\ Submit(q, c)
    BY <2>2
  <2>4. PICK N : N = Commands("direct")' \ Commands("direct")
    OBVIOUS
  <2>5. /\ \A d \in N : d = c /\ d \in Commands("direct")'
        /\ Commands("direct") \subseteq Commands("direct")'
    BY <1>0, <2>3, <2>4, Submitted
  <2> QED BY <1>6, <2>1, <2>3, <2>4, <2>5, SamplesLeft
<1>7. CASE ~removed /\ EndCounters
  <2>1. /\ UNCHANGED <<pending, heap, results, frame, list>> /\ list.marks = {}
        /\ UNCHANGED queue \/ InUse # {}
    BY <1>7 DEF EndCounters, FlowOK, backVars, gpuVars
  <2>2. CASE InUse = {}
    <3>1. UNCHANGED Commands("direct")
      BY <1>0, <2>1, <2>2, SameCommands
    <3> DEFINE N == {}
    <3>2. \A c : c \notin N
      OBVIOUS
    <3> HIDE DEF N
    <3> QED BY <1>7, <2>1, <2>2, <3>1, <3>2, SamplesLeft
  <2>3. CASE InUse # {}
    <3> DEFINE r == [op |-> "resolve", slot |-> frame.slot,
                     frame |-> frame.ordinal, pairs |-> Recorded]
    <3>1. r \in Command
      <4>1. Recorded \in SUBSET Pairs
        BY <1>0, PairsInUse DEF Recorded, InUse
      <4> QED BY <4>1, AreCommands
    <3>2. PICK c \in Command : c = r
      BY <3>1
    <3>3. c.op = "resolve" /\ c.slot = frame.slot /\ c.pairs = Recorded
      BY <3>2
    <3>4. Submit("direct", c)
      BY <1>7, <2>3, <3>2 DEF EndCounters
    <3>5. Commands("direct")' = Commands("direct") \union {c}
      BY <1>0, <3>4, Submitted
    <3> DEFINE N == {c}
    <3>6. \A d : d \in N <=> d = c
      OBVIOUS
    <3> HIDE DEF N, r
    <3> QED BY <1>7, <2>1, <3>3, <3>5, <3>6, SamplesLeft
  <2> QED BY <2>2, <2>3
<1>8. CASE ~removed /\ BeginFrame
  <2>1. /\ UNCHANGED <<heap, results, frame, list, queue, removed>> /\ pc = "begin"
        /\ pending' = [pending EXCEPT ![frame.slot] = <<>>]
    BY <1>8 DEF BeginFrame, backVars, gpuVars
  <2>2. PICK f \in Slots : f = frame.slot
    BY <1>0
  <2>3. /\ DOMAIN pending'[f] = {}
        /\ \A s \in Slots : s # f => pending'[s] = pending[s]
    BY <2>1, <2>2 DEF BuffersTyped
  <2>4. list'.marks = {} /\ list.marks = {}
    BY <2>1 DEF FlowOK, Recording
  <2>5. UNCHANGED Commands("direct")
    BY <1>0, <2>1, SameCommands
  <2>6. \A c \in Commands("direct") : c.op # "signal" => c.slot \in Slots /\ c.slot # f
    <3>1. queue["direct"] \in Seq(Command)
      BY <1>0 DEF FrameTypes
    <3>2. \A c \in Commands("direct") : c \in Command
      BY <3>1 DEF Commands
    <3>3. \A c \in Commands("direct") : c.op # "signal" => c.slot # f
      BY <2>1, <2>2 DEF OrderOK
    <3> QED BY <3>2, <3>3, CommandTypes
  <2>7. MarksOK
    BY <1>8 DEF SamplesOK
  <2>8. MarksOK'
    <3>1. ASSUME NEW c \in Commands("direct")', c.op = "work", NEW m \in c.marks
          PROVE  m.slot = c.slot /\ m.pair \in DOMAIN pending'[m.slot]
      <4>1. /\ m.slot = c.slot /\ m.pair \in DOMAIN pending[m.slot]
            /\ c.slot \in Slots /\ c.slot # f
        BY <2>5, <2>6, <2>7, <3>1 DEF MarksOK
      <4> QED BY <2>3, <4>1
    <3>2. ASSUME NEW c \in Commands("direct")', c.op = "resolve"
          PROVE  c.pairs = {p \in DOMAIN pending'[c.slot] : pending'[c.slot][p].ended}
      <4>1. /\ c.slot \in Slots /\ c.slot # f
            /\ c.pairs = {p \in DOMAIN pending[c.slot] : pending[c.slot][p].ended}
        BY <2>5, <2>6, <2>7, <3>2 DEF MarksOK
      <4> QED BY <2>3, <4>1
    <3> QED BY <2>4, <3>1, <3>2 DEF MarksOK
  <2>9. \A m : Pends(m)' <=> Pends(m)
    BY <2>4, <2>5 DEF Pends
  <2>10. \A s \in Slots : s # f => (Unresolved(s) => Unresolved(s)')
    BY <2>2, <2>5 DEF Unresolved
  <2>11. \A s \in Slots : \A p \in DOMAIN pending'[s] : \E b \in By : SampleOK(s, p, b)'
    BY <1>8, <2>1, <2>3, <2>9, <2>10, SamplesKept
  <2> QED BY <2>8, <2>11 DEF SamplesOK, SampleOK, MarkedBy, Issued, Unresolved, MarksOK
<1>9. CASE ~removed /\ \E h \in Scopes : BeginScope(h) \/ EndScope(h)
  <2>1. /\ MarksOK'
        /\ \A s \in Slots : \A p \in DOMAIN pending'[s] : \E b \in By : SampleOK(s, p, b)'
    BY <1>9, SampleBegun, SampleEnded
  <2> QED BY <2>1 DEF SamplesOK, SampleOK, MarkedBy, Issued, Unresolved, MarksOK
<1>10. CASE ~removed /\ \E q \in QueueNames : Execute(q)
  <2> PICK q \in QueueNames : Execute(q)
    BY <1>10
  <2>1. PICK c : c = Head(queue[q])
    OBVIOUS
  <2>2. /\ c \in Command /\ Commands(q) = Commands(q)' \union {c}
        /\ \A r \in QueueNames : r # q => Commands(r)' = Commands(r)
        /\ \A d \in Commands(q)' : Follows(c, d)
    BY <2>1, Executed DEF Execute, OrderOK
  <2>3. UNCHANGED <<pending, list, frame, recording>>
    BY DEF Execute, backVars, timerVars
  <2>4. \/ c.op = "work" /\ UNCHANGED results
           /\ heap' = [s \in Slots |-> [p \in Pairs |-> Marked(s, p, c.marks)]]
        \/ c.op = "resolve" /\ UNCHANGED heap
           /\ results' = [results EXCEPT ![c.slot] =
                [p \in Pairs |-> IF p \in c.pairs THEN heap[c.slot][p] ELSE @[p]]]
        \/ c.op = "signal" /\ UNCHANGED <<heap, results>>
    BY <2>1 DEF Execute
  <2>5. c.op # "signal" => q = "direct"
    <3>1. c \in Commands(q)
      BY <2>2
    <3> QED BY <3>1 DEF IdleOK, IsIdle
  <2>6. CASE c.op = "signal"
    <3>1. UNCHANGED <<heap, results>>
      BY <2>4, <2>6
    <3> DEFINE N == {}
    <3>2. \A d : d \notin N
      OBVIOUS
    <3> HIDE DEF N
    <3>3. /\ \A d \in Commands("direct")' : d \in Commands("direct")
          /\ \A d \in Commands("direct") : d \in Commands("direct")' \/ d = c
      BY <1>0, <2>2
    <3> QED BY <1>10, <2>3, <2>6, <3>1, <3>2, <3>3, SamplesLeft
  <2>7. CASE c.op # "signal"
    <3>1. /\ c \in Commands("direct") /\ Commands("direct") = Commands("direct")' \union {c}
          /\ \A d \in Commands("direct")' : Follows(c, d)
      BY <2>2, <2>5, <2>7
    <3>2. MarksOK'
      <4>1. MarksOK
        BY <1>10 DEF SamplesOK
      <4>2. list'.marks # {} => frame'.slot = frame.slot
        BY <2>3
      <4>3. list'.marks \subseteq list.marks
        BY <2>3
      <4> QED BY <2>3, <3>1, <4>1, <4>2, <4>3, MarksKept
    <3>3. \A s \in Slots : \A p \in DOMAIN pending'[s] : \E b \in By : SampleOK(s, p, b)'
      <4>1. CASE c.op = "work"
        <5>1. /\ UNCHANGED results
              /\ heap' = [s \in Slots |-> [p \in Pairs |-> Marked(s, p, c.marks)]]
          BY <2>4, <4>1
        <5> QED BY <1>10, <2>3, <3>1, <4>1, <5>1, WorkDone
      <4>2. CASE c.op = "resolve"
        <5>1. /\ UNCHANGED heap
              /\ results' = [results EXCEPT ![c.slot] =
                   [p \in Pairs |-> IF p \in c.pairs THEN heap[c.slot][p] ELSE @[p]]]
          BY <2>4, <4>2
        <5> QED BY <1>10, <2>3, <3>1, <4>2, <5>1, ResolveDone
      <4> QED BY <2>2, <2>7, <4>1, <4>2, CommandTypes
    <3> QED BY <3>2, <3>3 DEF SamplesOK, SampleOK, MarkedBy, Issued, Unresolved, MarksOK
  <2> QED BY <2>6, <2>7
<1>11. CASE removed /\ ~Reinit
  <2>1. removed'
    BY <1>11 DEF Next, RenderStep, Minimized, StartFrame, WaitForSlot, CheckRemoved,
       BeginFrame, Draw, Present, EndCounters, EndFrame, ChangeBackBuffers, SignalIdle,
       WaitIdle, ReplaceBackBuffers, Uninit, ResetList, ExecuteList, BeginScope, EndScope,
       Execute, Remove, vars
  <2> QED BY <2>1 DEF SamplesOK
<1> QED
  BY <1>1, <1>2, <1>3, <1>4, <1>5, <1>6, <1>7, <1>8, <1>9, <1>10, <1>11 DEF Next, RenderStep

-----------------------------------------------------------------------------
(* What BeginFrame records.                                                *)

\* Samples that are resolved are whole.
LEMMA ResolvedAreWhole ==
  ASSUME FramesOK, ~removed, ~Unresolved(frame.slot), NEW p \in Recorded
  PROVE  LET r == results[frame.slot][p] IN
         r.begin = r.end /\ r.begin # <<>> /\ r.begin[1] = pending[frame.slot][p].frame
<1>1. frame.slot \in Slots /\ p \in DOMAIN pending[frame.slot] /\ pending[frame.slot][p].ended
  BY DEF FramesOK, FrameTypes, Recorded, InUse
<1>2. PICK b \in By : SampleOK(frame.slot, p, b)
  BY <1>1 DEF FramesOK, SamplesOK
<1>3. \A part \in Parts : results[frame.slot][p][part] = b
  BY <1>1, <1>2 DEF SampleOK
<1>4. b[1] = pending[frame.slot][p].frame
  BY <1>2 DEF SampleOK
<1>5. b # <<>>
  <2>1. PICK f \in Frames, n \in 0 .. MaxRecordings : b = <<f, n>>
    BY DEF By
  <2> QED BY <2>1
<1> QED BY <1>3, <1>4, <1>5 DEF Parts

\* A step keeps what is to be recorded.
LEMMA RecordedStep == ASSUME FramesOK, Next PROVE RecordedSamplesAreWhole'
<1> USE DEF FramesOK
<1> SUFFICES ASSUME pc' = "begin" PROVE RecordedSamplesAreWhole'
  BY DEF RecordedSamplesAreWhole
<1>1. CASE CheckRemoved
  <2>1. /\ UNCHANGED <<frame, results, pending, queue>> /\ pc = "check"
    BY <1>1 DEF CheckRemoved, backVars, timerVars, gpuVars
  <2>2. ~removed /\ ~recording
    BY <1>1 DEF CheckRemoved, FlowOK, Recording
  <2>3. ~Unresolved(frame.slot)
    <3>1. \A c \in Commands("direct")' : c.op # "signal" => c.slot # frame'.slot
      BY OrderStep DEF OrderOK
    <3>2. Commands("direct")' = Commands("direct")
      BY <2>1, SameCommands DEF QueueNames
    <3> QED BY <2>1, <2>2, <3>1, <3>2 DEF Unresolved
  <2>4. \A p \in Recorded : LET r == results[frame.slot][p] IN
           r.begin = r.end /\ r.begin # <<>> /\ r.begin[1] = pending[frame.slot][p].frame
    BY <2>2, <2>3, ResolvedAreWhole
  <2> QED BY <2>1, <2>4 DEF RecordedSamplesAreWhole, Recorded, InUse
<1>2. ASSUME pc = "begin", UNCHANGED <<frame, pending>>,
             \A p \in DOMAIN pending[frame.slot] :
                results'[frame.slot][p] = results[frame.slot][p]
      PROVE  RecordedSamplesAreWhole'
  BY <1>2 DEF RecordedSamplesAreWhole, Recorded, InUse
<1>3. CASE Remove
  BY <1>2, <1>3 DEF Remove, backVars, timerVars, gpuVars
<1>4. CASE \E h \in Scopes : EndScope(h)
  <2> PICK h \in Scopes : EndScope(h)
    BY <1>4
  <2>1. UNCHANGED <<pc, frame, results>>
    BY DEF EndScope, backVars, gpuVars
  <2>2. ~recording
    BY <2>1 DEF FlowOK, Recording
  <2>3. UNCHANGED pending
    BY <2>2 DEF EndScope, StillRecording
  <2> QED BY <1>2, <2>1, <2>3
<1>5. CASE \E q \in QueueNames : Execute(q)
  <2> PICK q \in QueueNames : Execute(q)
    BY <1>5
  <2>1. PICK c : c = Head(queue[q])
    OBVIOUS
  <2>2. UNCHANGED <<pc, frame, pending>>
    BY DEF Execute, backVars, timerVars
  <2>3. c \in Command /\ c \in Commands(q)
    <3>1. c \in Command /\ Commands(q) = Commands(q)' \union {c}
      BY <2>1, Executed DEF Execute
    <3> QED BY <3>1
  <2>4. \/ UNCHANGED results
        \/ c.op = "resolve" /\ results' = [results EXCEPT ![c.slot] =
              [p \in Pairs |-> IF p \in c.pairs THEN heap[c.slot][p] ELSE @[p]]]
    BY <2>1 DEF Execute
  <2>5. c.op = "resolve" => c.slot # frame.slot
    <3>1. c.op = "resolve" => q = "direct"
      BY <2>3 DEF IdleOK, IsIdle
    <3> QED BY <2>2, <2>3, <3>1 DEF OrderOK
  <2>6. results'[frame.slot] = results[frame.slot]
    BY <2>4, <2>5 DEF BuffersTyped, FrameTypes
  <2> QED BY <1>2, <2>2, <2>6
<1>6. CASE \/ Minimized \/ StartFrame \/ WaitForSlot \/ BeginFrame \/ Draw \/ Present
           \/ EndCounters \/ EndFrame \/ ChangeBackBuffers \/ SignalIdle \/ WaitIdle
           \/ ReplaceBackBuffers \/ Uninit \/ Reinit \/ ResetList \/ ExecuteList
           \/ \E h \in Scopes : BeginScope(h)
  <2>1. pc' # "begin"
    BY <1>6 DEF Minimized, StartFrame, WaitForSlot, BeginFrame, Draw, Present, EndCounters,
       EndFrame, ChangeBackBuffers, SignalIdle, WaitIdle, ReplaceBackBuffers, Uninit, Reinit,
       ResetList, ExecuteList, BeginScope, Drawing, vars
  <2> QED BY <2>1
<1> QED BY <1>1, <1>3, <1>4, <1>5, <1>6 DEF Next, RenderStep

\* FramesOK is an invariant of the frames.
LEMMA FramesStep == ASSUME FramesOK, Next PROVE FramesOK'
BY TypesStep, BuffersStep, FlowStep, IdleStep, OrderStep, SamplesStep, ScopesStep,
   RecordedStep
DEF FramesOK

\* A step in which nothing happens.
LEMMA FramesStutter == ASSUME FramesOK, UNCHANGED vars PROVE FramesOK'
<1>1. UNCHANGED <<device, removed, pc, ordinal, slotFence, frame, idleValue, visit, changes,
                  queue, recording, pending, scopes, completed, heap, results, list>>
  BY DEF vars, backVars, timerVars, gpuVars
<1>2. \A q \in QueueNames : Commands(q)' = Commands(q)
  BY <1>1, SameCommands
<1>3. "direct" \in QueueNames
  BY DEF QueueNames
<1>4. FrameTypes' /\ BuffersTyped' /\ FlagsTyped' /\ FlowOK' /\ CountOK'
  BY <1>1 DEF FramesOK, FrameTypes, BuffersTyped, FlagsTyped, FlowOK, CountOK, InFrame
<1>5. IdleOK' /\ OrderOK'
  BY <1>1, <1>2, <1>3
  DEF FramesOK, IdleOK, OrderOK, InFrame, BuffersReleasedWhenIdle, SlotsAreFreeWhenReused
<1>6. SamplesOK'
  BY <1>1, <1>2, <1>3
  DEF FramesOK, SamplesOK, MarksOK, SampleOK, MarkedBy, Issued, Unresolved
<1>7. ScopesOK'
  BY <1>1, <1>2, <1>3 DEF FramesOK, ScopesOK, MarkedBy, IsCurrent
<1>8. RecordedSamplesAreWhole'
  BY <1>1 DEF FramesOK, RecordedSamplesAreWhole, Recorded, InUse
<1> QED BY <1>4, <1>5, <1>6, <1>7, <1>8 DEF FramesOK

\* The frames begin with nothing drawn.
LEMMA FramesInit == ASSUME Init PROVE FramesOK
<1> USE Numbers
<1>1. /\ device = 1 /\ pc = "loop" /\ ordinal = 1
      /\ slotFence = [s \in Slots |-> 0] /\ frame = [ordinal |-> 0, slot |-> 0]
      /\ queue = [q \in QueueNames |-> <<>>] /\ completed = [frame |-> 0, idle |-> 0]
      /\ idleValue = 0 /\ visit = 1 /\ changes = 0
      /\ pending = [s \in Slots |-> <<>>]
      /\ heap = [s \in Slots |-> [p \in Pairs |-> Unwritten]]
      /\ results = [s \in Slots |-> [p \in Pairs |-> Unwritten]]
      /\ scopes = [h \in Scopes |-> NoScope]
      /\ list = [open |-> FALSE, gen |-> 0, marks |-> {}]
  BY DEF Init, NoFrame
<1>2. removed = FALSE /\ recording = FALSE
  BY DEF Init
<1>3. \A q \in QueueNames : Commands(q) = {} /\ Ordered(queue[q])
  BY <1>1 DEF Commands, Ordered
<1>4. "direct" \in QueueNames
  BY DEF QueueNames
<1>5. FrameTypes
  <2>1. 0 \in Frames /\ 1 \in Frames
    BY DEF Frames
  <2>2. queue \in [QueueNames -> Seq(Command)]
    BY <1>1
  <2> QED BY <1>1, <2>1, <2>2 DEF FrameTypes
<1>6. BuffersTyped
  <2>1. Unwritten \in [Parts -> By \union {<<>>}]
    BY DEF Unwritten, Parts
  <2>2. <<>> \in Seq(Sample) /\ Len(<<>>) = 0
    OBVIOUS
  <2> QED BY <1>1, <2>1, <2>2 DEF BuffersTyped
<1>7. FlagsTyped
  BY <1>1, <1>2 DEF FlagsTyped
<1>8. FlowOK /\ CountOK
  BY <1>1, <1>2 DEF FlowOK, CountOK, Recording, InFrame
<1>9. IdleOK
  BY <1>1, <1>3 DEF IdleOK, BuffersReleasedWhenIdle
<1>10. OrderOK
  BY <1>1, <1>2, <1>3, <1>4 DEF OrderOK, SlotsAreFreeWhenReused, InFrame
<1>11. SamplesOK
  BY <1>1, <1>3, <1>4 DEF SamplesOK, MarksOK
<1>12. ScopesOK /\ RecordedSamplesAreWhole
  BY <1>1 DEF ScopesOK, RecordedSamplesAreWhole
<1> QED
  BY <1>5, <1>6, <1>7, <1>8, <1>9, <1>10, <1>11, <1>12 DEF FramesOK

\* What the invariant gives.
LEMMA FramesOKGives ==
  ASSUME FramesOK
  PROVE  TypeOK /\ SlotsAreFreeWhenReused /\ BuffersReleasedWhenIdle
<1> USE Numbers DEF FramesOK
<1>1. idleValue \in 0 .. 3 * MaxChanges
  BY DEF CountOK, FrameTypes
<1>2. completed.idle \in 0 .. idleValue
  BY DEF FrameTypes, IdleOK
<1>3. completed.frame \in Frames
  BY DEF FrameTypes, FlowOK, Frames
<1>4. removed \in BOOLEAN /\ recording \in BOOLEAN
  BY DEF FlagsTyped
<1>5. \A s \in Slots : Len(pending[s]) <= MaxPairs
  BY DEF BuffersTyped
<1>6. TypeOK
  BY <1>1, <1>2, <1>3, <1>4, <1>5 DEF TypeOK, FrameTypes
<1> QED BY <1>6 DEF OrderOK, IdleOK

-----------------------------------------------------------------------------
(* The counters of Direct3D 11: what is known of their queries.            *)

Waits == [pair : T11!PairIds, serial : Nat \ {0}]
Commands11 == [query : T11!Queries, by : Nat \ {0}]

TimerTypes ==
    /\ context \in BOOLEAN /\ supported \in BOOLEAN /\ serial \in Nat
    /\ pool \in Seq(T11!Disjoints) /\ pend \in Seq(T11!Disjoints)
    /\ current \in {T11!None} \union T11!Disjoints
    /\ live \subseteq Counters /\ ready \subseteq live
    /\ disjoint \in [Counters -> {T11!None} \union T11!Disjoints]
    /\ free \in [Counters -> Seq(T11!PairIds)]
    /\ made \in [Counters -> 0 .. MaxQueryPairs]
    /\ waiting \in [Counters -> [T11!Disjoints -> Seq(Waits)]]
    /\ open \subseteq [counter : Counters, pair : T11!PairIds, serial : Nat \ {0}]
    /\ gpu \in Seq(Commands11)
    /\ stamp \in [T11!Queries -> Nat]

\* Nothing is left of a device that has gone, or of a counter.
EmptiedOK ==
    /\ ~context => /\ pool = <<>> /\ pend = <<>> /\ current = T11!None
                   /\ gpu = <<>> /\ open = {} /\ ready = {}
    /\ \A c \in Counters \ ready :
          /\ free[c] = <<>> /\ made[c] = 0
          /\ \A d \in T11!Disjoints : waiting[c][d] = <<>>
    /\ \A c \in Counters \ live : disjoint[c] = T11!None

\* A disjoint query is in the pool or pending, once.
OncePooled(p, q) ==
    /\ \A i, j \in DOMAIN p : p[i] = p[j] => i = j
    /\ \A i, j \in DOMAIN q : q[i] = q[j] => i = j
    /\ \A i \in DOMAIN p, j \in DOMAIN q : p[i] # q[j]
Pooled(p, q, d) == (\E i \in DOMAIN p : p[i] = d) \/ (\E i \in DOMAIN q : q[i] = d)

PoolOK ==
    /\ OncePooled(pool, pend)
    /\ supported /\ context => \A d \in T11!Disjoints : Pooled(pool, pend, d)

\* A pair is on the counter's stack or noted, once.
PairsIn(f, w, n) ==
    /\ \A i, j \in DOMAIN f : f[i] = f[j] => i = j
    /\ \A d, e \in T11!Disjoints :
         \A i \in DOMAIN w[d], j \in DOMAIN w[e] :
            w[d][i].pair = w[e][j].pair => d = e /\ i = j
    /\ \A d \in T11!Disjoints :
         \A i \in DOMAIN f, j \in DOMAIN w[d] : f[i] # w[d][j].pair
    /\ \A i \in DOMAIN f : f[i] \in 1 .. n
    /\ \A d \in T11!Disjoints : \A j \in DOMAIN w[d] : w[d][j].pair \in 1 .. n
    /\ \A p \in 1 .. n :
          \/ \E i \in DOMAIN f : f[i] = p
          \/ \E d \in T11!Disjoints : \E j \in DOMAIN w[d] : w[d][j].pair = p

PairOK(c) == PairsIn(free[c], waiting[c], made[c])

\* The GPU has nothing to do with the disjoint queries in the pool, and the
\* one of this frame has not been ended.
Untouched(d) == \A j \in DOMAIN gpu : gpu[j].query # T11!FrameQuery(d)
FrameOK ==
    /\ \A i \in DOMAIN pool : Untouched(pool[i])
    /\ current # T11!None =>
          /\ pend # <<>> /\ current = pend[1]
          /\ Untouched(current) /\ stamp[T11!FrameQuery(current)] = 0
          /\ \A c \in Counters : disjoint[c] \in {T11!None, current}

\* Once the GPU is through, the query carries v.
Carries(g, st, q, v) ==
    \/ \E i \in DOMAIN g : /\ g[i].query = q /\ g[i].by = v
                           /\ \A j \in DOMAIN g : j > i => g[j].query # q
    \/ st[q] = v /\ \A j \in DOMAIN g : g[j].query # q

\* The scopes the module holds are of counters that live and of this frame.
OpenOK ==
    /\ current = T11!None => open = {}
    /\ \A o \in open : o.counter \in live
    /\ \A o \in open : o.counter \in ready =>
          \E i \in DOMAIN waiting[o.counter][current] :
             waiting[o.counter][current][i] = [pair |-> o.pair, serial |-> o.serial]

Held11(c, p) == \E o \in open : o.counter = c /\ o.pair = p

\* The queries of a pair that is noted were, or will be, ended last by the
\* scope that noted it.
StampsOK ==
    \A c \in Counters : \A d \in T11!Disjoints : \A i \in DOMAIN waiting[c][d] :
        LET m == waiting[c][d][i] IN
        /\ Carries(gpu, stamp, <<c, m.pair, "begin">>, m.serial)
        /\ Held11(c, m.pair) \/ Carries(gpu, stamp, <<c, m.pair, "end">>, m.serial)

PlacesOK == PoolOK /\ \A c \in Counters : PairOK(c)
TimersOK == TimerTypes /\ EmptiedOK /\ PlacesOK /\ FrameOK
ScopesInFrame == OpenOK /\ StampsOK

-----------------------------------------------------------------------------
(* Sequences.                                                              *)

\* The bounds of the timer are numbers.
LEMMA TimerBounds ==
         /\ BufferSize \in Nat /\ MaxQueryPairs \in Nat /\ T11!None = 0
         /\ T11!Disjoints = 1 .. BufferSize /\ T11!PairIds = 1 .. MaxQueryPairs
BY BackendAssumption DEF T11!None, T11!Disjoints, T11!PairIds

\* The last element, and those before it.
LEMMA FrontAndLast ==
  ASSUME NEW S, NEW q \in Seq(S), q # <<>>
  PROVE  /\ T11!Front(q) \in Seq(S) /\ T11!Last(q) \in S
         /\ Len(q) \in Nat \ {0} /\ T11!Last(q) = q[Len(q)]
         /\ DOMAIN q = 1 .. Len(q) /\ DOMAIN T11!Front(q) = 1 .. Len(q) - 1
         /\ \A i \in 1 .. Len(q) - 1 : T11!Front(q)[i] = q[i]
<1>1. Len(q) \in Nat /\ Len(q) # 0 /\ DOMAIN q = 1 .. Len(q)
  OBVIOUS
<1>2. /\ T11!Front(q) \in Seq(S) /\ Len(T11!Front(q)) = Len(q) - 1
      /\ \A i \in 1 .. Len(q) - 1 : T11!Front(q)[i] = q[i]
  BY <1>1 DEF T11!Front
<1>3. T11!Last(q) = q[Len(q)] /\ q[Len(q)] \in S
  BY <1>1 DEF T11!Last
<1> QED BY <1>1, <1>2, <1>3

-----------------------------------------------------------------------------
(* The pairs of one counter.                                               *)

LEMMA PairsEmpty ==
  ASSUME NEW w, \A d \in T11!Disjoints : w[d] = <<>>
  PROVE  PairsIn(<<>>, w, 0)
BY DEF PairsIn

\* DoBegin notes the pair on top of the stack, or one that is new.
LEMMA PairNoted ==
  ASSUME NEW f \in Seq(T11!PairIds), NEW w \in [T11!Disjoints -> Seq(Waits)],
         NEW n \in Nat, PairsIn(f, w, n),
         NEW g, NEW m, NEW v, NEW d \in T11!Disjoints, NEW x \in Waits,
         \/ f # <<>> /\ x.pair = T11!Last(f) /\ g = T11!Front(f) /\ m = n
         \/ f = <<>> /\ x.pair = n + 1 /\ g = f /\ m = n + 1,
         v = [w EXCEPT ![d] = Append(@, x)]
  PROVE  PairsIn(g, v, m)
<1> DEFINE k == Len(w[d]) + 1
<1>1. /\ w[d] \in Seq(Waits) /\ v[d] = Append(w[d], x) /\ k \in Nat \ {0}
      /\ DOMAIN w[d] = 1 .. k - 1 /\ DOMAIN v[d] = 1 .. k
      /\ v[d][k] = x /\ \A i \in 1 .. k - 1 : v[d][i] = w[d][i]
  OBVIOUS
<1>2. \A e \in T11!Disjoints : e # d => v[e] = w[e]
  OBVIOUS
<1> HIDE DEF k
<1>3. \A e \in T11!Disjoints : \A i \in DOMAIN v[e] :
         (e = d /\ i = k /\ v[e][i].pair = x.pair)
         \/ (~(e = d /\ i = k) /\ i \in DOMAIN w[e] /\ v[e][i] = w[e][i])
  BY <1>1, <1>2
<1>4. \A e \in T11!Disjoints : \A i \in DOMAIN w[e] : i \in DOMAIN v[e] /\ v[e][i] = w[e][i]
  BY <1>1, <1>2
<1>5. k \in DOMAIN v[d] /\ v[d][k].pair = x.pair
  BY <1>1
<1>6. CASE f # <<>> /\ x.pair = T11!Last(f) /\ g = T11!Front(f) /\ m = n
  <2> DEFINE l == Len(f)
  <2>1. /\ l \in Nat \ {0} /\ x.pair = f[l] /\ DOMAIN f = 1 .. l /\ DOMAIN g = 1 .. l - 1
        /\ \A i \in 1 .. l - 1 : g[i] = f[i]
    BY <1>6, FrontAndLast
  <2> HIDE DEF l
  <2>2. \A i \in DOMAIN g : i \in DOMAIN f /\ g[i] = f[i] /\ i # l
    BY <2>1
  <2>3. l \in DOMAIN f /\ \A i \in DOMAIN f : i # l => i \in DOMAIN g
    BY <2>1
  <2>4. /\ x.pair \in 1 .. n
        /\ \A i \in DOMAIN g : g[i] # x.pair
        /\ \A e \in T11!Disjoints : \A i \in DOMAIN w[e] : w[e][i].pair # x.pair
    <3>1. l \in DOMAIN f /\ f[l] = x.pair
      BY <2>1, <2>3
    <3>2. \A i \in DOMAIN g : g[i] # x.pair
      BY <3>1, <2>2 DEF PairsIn
    <3> QED BY <3>1, <3>2 DEF PairsIn
  <2>5. \A i, j \in DOMAIN g : g[i] = g[j] => i = j
    BY <2>2 DEF PairsIn
  <2>6. \A e, h \in T11!Disjoints : \A i \in DOMAIN v[e], j \in DOMAIN v[h] :
           v[e][i].pair = v[h][j].pair => e = h /\ i = j
    BY <1>3, <2>4 DEF PairsIn
  <2>7. \A e \in T11!Disjoints : \A i \in DOMAIN g, j \in DOMAIN v[e] : g[i] # v[e][j].pair
    BY <1>3, <2>2, <2>4 DEF PairsIn
  <2>8. /\ \A i \in DOMAIN g : g[i] \in 1 .. m
        /\ \A e \in T11!Disjoints : \A j \in DOMAIN v[e] : v[e][j].pair \in 1 .. m
    BY <1>3, <1>6, <2>2, <2>4 DEF PairsIn
  <2>9. ASSUME NEW p \in 1 .. m
        PROVE  \/ \E i \in DOMAIN g : g[i] = p
               \/ \E e \in T11!Disjoints : \E j \in DOMAIN v[e] : v[e][j].pair = p
    <3>1. CASE p = x.pair
      BY <3>1, <1>5
    <3>2. CASE p # x.pair /\ \E i \in DOMAIN f : f[i] = p
      BY <3>2, <2>1, <2>2, <2>3
    <3>3. CASE \E e \in T11!Disjoints : \E j \in DOMAIN w[e] : w[e][j].pair = p
      BY <3>3, <1>4
    <3> QED BY <1>6, <3>1, <3>2, <3>3 DEF PairsIn
  <2> QED BY <2>5, <2>6, <2>7, <2>8, <2>9 DEF PairsIn
<1>7. CASE f = <<>> /\ x.pair = n + 1 /\ g = f /\ m = n + 1
  <2>1. \A e \in T11!Disjoints : \A i \in DOMAIN w[e] : w[e][i].pair \in 1 .. n
    BY DEF PairsIn
  <2>2. \A i \in 1 .. n : i # x.pair /\ i \in 1 .. m
    BY <1>7
  <2>3. DOMAIN g = {} /\ x.pair \in 1 .. m
    BY <1>7
  <2>4. \A e, h \in T11!Disjoints : \A i \in DOMAIN v[e], j \in DOMAIN v[h] :
           v[e][i].pair = v[h][j].pair => e = h /\ i = j
    BY <1>3, <2>1, <2>2 DEF PairsIn
  <2>5. \A e \in T11!Disjoints : \A j \in DOMAIN v[e] : v[e][j].pair \in 1 .. m
    BY <1>3, <2>1, <2>2, <2>3
  <2>6. ASSUME NEW p \in 1 .. m
        PROVE  \E e \in T11!Disjoints : \E j \in DOMAIN v[e] : v[e][j].pair = p
    <3>1. CASE p = x.pair
      BY <3>1, <1>5
    <3>2. CASE p # x.pair
      <4>1. p \in 1 .. n
        BY <3>2, <1>7
      <4>2. \E e \in T11!Disjoints : \E j \in DOMAIN w[e] : w[e][j].pair = p
        BY <4>1, <1>7 DEF PairsIn
      <4> QED BY <4>2, <1>4
    <3> QED BY <3>1, <3>2
  <2> QED BY <2>3, <2>4, <2>5, <2>6 DEF PairsIn
<1> QED BY <1>6, <1>7

\* The pairs noted under a query, and the notes without them.
PairsAt(w, d) == [i \in DOMAIN w[d] |-> w[d][i].pair]
Without(w, d) == [e \in T11!Disjoints |-> IF e \in {d} THEN <<>> ELSE w[e]]

\* DataReady and DataDisjoint put back the pairs noted under d.
LEMMA PairsBack ==
  ASSUME NEW f \in Seq(T11!PairIds), NEW w \in [T11!Disjoints -> Seq(Waits)],
         NEW n \in Nat, PairsIn(f, w, n), NEW g, NEW v, NEW d \in T11!Disjoints,
         g = f \o PairsAt(w, d), v = Without(w, d)
  PROVE  PairsIn(g, v, n) /\ g \in Seq(T11!PairIds) /\ v \in [T11!Disjoints -> Seq(Waits)]
<1> DEFINE b == PairsAt(w, d)
<1> DEFINE l == Len(f)
<1> DEFINE k == Len(w[d])
<1>1. /\ k \in Nat /\ w[d] \in Seq(Waits) /\ DOMAIN w[d] = 1 .. k
  OBVIOUS
<1>2. b \in Seq(T11!PairIds) /\ Len(b) = k /\ \A i \in 1 .. k : b[i] = w[d][i].pair
  <2>1. \A i \in 1 .. k : w[d][i].pair \in T11!PairIds
    <3>1. \A i \in 1 .. k : w[d][i] \in Waits
      BY <1>1
    <3>2. \A x \in Waits : x.pair \in T11!PairIds
      BY DEF Waits
    <3> QED BY <3>1, <3>2
  <2>2. b = [i \in 1 .. k |-> w[d][i].pair]
    BY <1>1 DEF PairsAt
  <2>3. b \in [1 .. k -> T11!PairIds]
    BY ONLY <2>1, <2>2
  <2> QED BY <1>1, <2>2, <2>3
<1>3. g = f \o b
  OBVIOUS
<1> HIDE DEF b
<1>4. /\ g \in Seq(T11!PairIds) /\ l \in Nat /\ DOMAIN f = 1 .. l
      /\ DOMAIN g = 1 .. l + k
      /\ \A i \in 1 .. l : g[i] = f[i]
      /\ \A i \in 1 .. k : g[l + i] = w[d][i].pair
  <2>1. f \in Seq(T11!PairIds) /\ b \in Seq(T11!PairIds)
    BY <1>2
  <2>2. /\ f \o b \in Seq(T11!PairIds) /\ Len(f) \in Nat /\ DOMAIN f = 1 .. Len(f)
        /\ DOMAIN (f \o b) = 1 .. Len(f) + Len(b)
        /\ \A i \in 1 .. Len(f) : (f \o b)[i] = f[i]
        /\ \A i \in 1 .. Len(b) : (f \o b)[Len(f) + i] = b[i]
    <3> DEFINE P == T11!PairIds
    <3>1. f \in Seq(P) /\ b \in Seq(P)
      BY <2>1
    <3> HIDE DEF P
    <3>2. /\ f \o b \in Seq(P) /\ Len(f) \in Nat /\ DOMAIN f = 1 .. Len(f)
          /\ DOMAIN (f \o b) = 1 .. Len(f) + Len(b)
          /\ \A i \in 1 .. Len(f) : (f \o b)[i] = f[i]
          /\ \A i \in 1 .. Len(b) : (f \o b)[Len(f) + i] = b[i]
      BY ONLY <3>1
    <3> QED BY <3>2 DEF P
  <2>3. \A i \in 1 .. k : g[Len(f) + i] = w[d][i].pair
    BY <1>2, <1>3, <2>2
  <2> QED BY <1>2, <1>3, <2>2, <2>3
<1>5. /\ v \in [T11!Disjoints -> Seq(Waits)] /\ v[d] = <<>>
      /\ \A e \in T11!Disjoints : e # d => v[e] = w[e]
  <2>1. <<>> \in Seq(Waits) /\ \A e \in T11!Disjoints : w[e] \in Seq(Waits)
    OBVIOUS
  <2> QED BY <2>1, Zenon DEF Without
<1> HIDE DEF l, k
<1>6. \A i \in DOMAIN g : \/ i \in DOMAIN f /\ g[i] = f[i]
                          \/ i \notin DOMAIN f /\ i - l \in DOMAIN w[d]
                             /\ g[i] = w[d][i - l].pair
  <2> SUFFICES ASSUME NEW i \in DOMAIN g, i \notin DOMAIN f
               PROVE  i - l \in DOMAIN w[d] /\ g[i] = w[d][i - l].pair
    BY <1>4
  <2>1. i - l \in 1 .. k /\ l + (i - l) = i
    BY <1>1, <1>4
  <2> QED BY <2>1, <1>1, <1>4
<1>7. \A e \in T11!Disjoints : \A j \in DOMAIN v[e] : e # d /\ j \in DOMAIN w[e] /\ v[e][j] = w[e][j]
  BY <1>5
<1>8. \A i, j \in DOMAIN g : g[i] = g[j] => i = j
  <2> SUFFICES ASSUME NEW i \in DOMAIN g, NEW j \in DOMAIN g, g[i] = g[j] PROVE i = j
    OBVIOUS
  <2>1. i \in DOMAIN f /\ j \in DOMAIN f => i = j
    BY <1>4 DEF PairsIn
  <2>2. ASSUME i \notin DOMAIN f, j \notin DOMAIN f PROVE i - l = j - l
    <3>1. PICK x \in DOMAIN w[d], y \in DOMAIN w[d] :
             /\ x = i - l /\ y = j - l /\ w[d][x].pair = w[d][y].pair
      BY <1>6, <2>2
    <3> QED BY <3>1 DEF PairsIn
  <2>3. \A a, c \in DOMAIN g : g[a] = g[c] => ~(a \in DOMAIN f /\ c \notin DOMAIN f)
    <3> SUFFICES ASSUME NEW a \in DOMAIN g, NEW c \in DOMAIN g, g[a] = g[c],
                        a \in DOMAIN f, c \notin DOMAIN f
                 PROVE  FALSE
      OBVIOUS
    <3>1. g[a] = f[a]
      BY <1>6
    <3>2. PICK y \in DOMAIN w[d] : g[c] = w[d][y].pair
      BY <1>6
    <3>3. f[a] = w[d][y].pair
      BY <3>1, <3>2
    <3> QED BY <3>3 DEF PairsIn
  <2>4. i - l = j - l => i = j
    BY <1>4
  <2> QED BY <2>1, <2>2, <2>3, <2>4
<1>9. \A e, h \in T11!Disjoints : \A i \in DOMAIN v[e], j \in DOMAIN v[h] :
         v[e][i].pair = v[h][j].pair => e = h /\ i = j
  BY <1>7 DEF PairsIn
<1>10. \A e \in T11!Disjoints : \A i \in DOMAIN g, j \in DOMAIN v[e] : g[i] # v[e][j].pair
  BY <1>6, <1>7 DEF PairsIn
<1>11. \A i \in DOMAIN g : g[i] \in 1 .. n
  BY <1>6 DEF PairsIn
<1>12. \A e \in T11!Disjoints : \A j \in DOMAIN v[e] : v[e][j].pair \in 1 .. n
  BY <1>7 DEF PairsIn
<1>13. ASSUME NEW p \in 1 .. n
       PROVE  \/ \E i \in DOMAIN g : g[i] = p
              \/ \E e \in T11!Disjoints : \E j \in DOMAIN v[e] : v[e][j].pair = p
  <2>1. CASE \E i \in DOMAIN f : f[i] = p
    <3>1. \A i \in DOMAIN f : i \in DOMAIN g /\ g[i] = f[i]
      BY <1>1, <1>4
    <3> QED BY <2>1, <3>1
  <2>2. CASE \E j \in DOMAIN w[d] : w[d][j].pair = p
    <3>1. \A j \in DOMAIN w[d] : l + j \in DOMAIN g /\ g[l + j] = w[d][j].pair
      BY <1>1, <1>4
    <3> QED BY <2>2, <3>1
  <2>3. CASE \E e \in T11!Disjoints : e # d /\ \E j \in DOMAIN w[e] : w[e][j].pair = p
    BY <2>3, <1>5
  <2> QED BY <2>1, <2>2, <2>3 DEF PairsIn
<1> QED BY <1>4, <1>5, <1>8, <1>9, <1>10, <1>11, <1>12, <1>13 DEF PairsIn

-----------------------------------------------------------------------------
(* The steps of the timer, and that they keep the types.                   *)

\* The queries of pairs and of frames are queries, and not the same.
LEMMA QueriesAre ==
         /\ \A d \in T11!Disjoints : T11!FrameQuery(d) \in T11!Queries
         /\ \A c \in Counters, p \in T11!PairIds : \A part \in Parts :
               <<c, p, part>> \in T11!Queries
         /\ \A d, e \in T11!Disjoints : T11!FrameQuery(d) = T11!FrameQuery(e) => d = e
         /\ \A c, p : \A d \in T11!Disjoints, part \in Parts :
               <<c, p, part>> # T11!FrameQuery(d)
<1>1. \A d \in T11!Disjoints : T11!FrameQuery(d) \in T11!Queries
  BY Zenon DEF T11!Queries
<1>2. \A c \in Counters, p \in T11!PairIds : \A part \in Parts :
         <<c, p, part>> \in T11!Queries
  BY DEF T11!Queries, Parts
<1>3. \A d, e \in T11!Disjoints : T11!FrameQuery(d) = T11!FrameQuery(e) => d = e
  BY DEF T11!FrameQuery
<1>4. ASSUME NEW c, NEW p, NEW d \in T11!Disjoints, NEW part \in Parts
      PROVE  <<c, p, part>> # T11!FrameQuery(d)
  <2>1. <<c, p, part>>[3] = part /\ T11!FrameQuery(d)[3] = "disjoint"
    BY DEF T11!FrameQuery
  <2>2. part # "disjoint"
    BY DEF Parts
  <2> QED BY ONLY <2>1, <2>2
<1> QED BY <1>1, <1>2, <1>3, <1>4

\* Pair p is noted, and counter c is left with stack g and m pairs.
NotesPair(c, p, g, m) ==
    /\ c \in ready /\ disjoint[c] \in T11!Disjoints /\ p \in T11!PairIds
    /\ m \in 0 .. MaxQueryPairs /\ g \in Seq(T11!PairIds)
    /\ \/ free[c] # <<>> /\ p = T11!Last(free[c]) /\ g = T11!Front(free[c]) /\ m = made[c]
       \/ free[c] = <<>> /\ p = made[c] + 1 /\ g = free[c] /\ m = made[c] + 1
    /\ serial' = serial + 1
    /\ free' = [free EXCEPT ![c] = g] /\ made' = [made EXCEPT ![c] = m]
    /\ waiting' = [waiting EXCEPT ![c] =
                      [waiting[c] EXCEPT ![disjoint[c]] =
                          Append(waiting[c][disjoint[c]],
                                 [pair |-> p, serial |-> serial + 1])]]
    /\ gpu' = Append(gpu, [query |-> <<c, p, "begin">>, by |-> serial + 1])
    /\ open' = open \union {[counter |-> c, pair |-> p, serial |-> serial + 1]}
    /\ UNCHANGED <<context, resets, supported, pool, pend, current, live, ready,
                   disjoint, stamp>>

\* Either way to get a pair.
LEMMA ScopeBegins ==
  ASSUME TimerTypes, NEW c \in Counters, T11!BeginScope(c)
  PROVE  \E p, g, m : NotesPair(c, p, g, m) /\ T11!Measures(c)
<1> USE TimerBounds
<1>1. /\ c \in ready /\ disjoint[c] \in T11!Disjoints
      /\ free[c] \in Seq(T11!PairIds) /\ made[c] \in 0 .. MaxQueryPairs
  BY DEF T11!BeginScope, T11!Measures, TimerTypes
<1>2. /\ T11!Measures(c)
      /\ UNCHANGED <<context, resets, supported, pool, pend, current, live, ready,
                     disjoint, stamp>>
  BY DEF T11!BeginScope, T11!poolVars
<1>3. ASSUME NEW p, T11!Open(c, p)
      PROVE  /\ serial' = serial + 1
             /\ waiting' = [waiting EXCEPT ![c] =
                   [waiting[c] EXCEPT ![disjoint[c]] =
                       Append(waiting[c][disjoint[c]], [pair |-> p, serial |-> serial + 1])]]
             /\ gpu' = Append(gpu, [query |-> <<c, p, "begin">>, by |-> serial + 1])
             /\ open' = open \union {[counter |-> c, pair |-> p, serial |-> serial + 1]}
  BY <1>3 DEF T11!Open, T11!Issue
<1>4. CASE free[c] # <<>> /\ T11!Open(c, T11!Last(free[c]))
           /\ free' = [free EXCEPT ![c] = T11!Front(@)] /\ UNCHANGED made
  <2>1. T11!Last(free[c]) \in T11!PairIds /\ T11!Front(free[c]) \in Seq(T11!PairIds)
    BY <1>1, <1>4, FrontAndLast
  <2>2. made' = [made EXCEPT ![c] = made[c]]
    BY <1>4 DEF TimerTypes
  <2>3. free' = [free EXCEPT ![c] = T11!Front(free[c])]
    BY <1>4
  <2>4. NotesPair(c, T11!Last(free[c]), T11!Front(free[c]), made[c])
    BY <1>1, <1>2, <1>3, <1>4, <2>1, <2>2, <2>3 DEF NotesPair
  <2> QED BY <1>2, <2>4
<1>5. CASE free[c] = <<>> /\ made[c] < MaxQueryPairs /\ T11!Open(c, made[c] + 1)
           /\ made' = [made EXCEPT ![c] = @ + 1] /\ UNCHANGED free
  <2>1. made[c] + 1 \in T11!PairIds /\ made[c] + 1 \in 0 .. MaxQueryPairs
    BY <1>1, <1>5
  <2>2. free' = [free EXCEPT ![c] = free[c]]
    BY <1>5 DEF TimerTypes
  <2>3. made' = [made EXCEPT ![c] = made[c] + 1]
    BY <1>5
  <2>4. NotesPair(c, made[c] + 1, free[c], made[c] + 1)
    BY <1>1, <1>2, <1>3, <1>5, <2>1, <2>2, <2>3 DEF NotesPair
  <2> QED BY <1>2, <2>4
<1> QED BY <1>4, <1>5 DEF T11!BeginScope

\* The pool and the queue once the oldest query is back.
Unused == IF T11!Ready = {} THEN pool ELSE Append(pool, T11!Last(pend))
Left == IF T11!Ready = {} THEN pend ELSE T11!Front(pend)

\* The oldest query is ready when the GPU has ended it.
LEMMA ReadyIs ==
  ASSUME TimerTypes
  PROVE  T11!Ready # {} => /\ pend # <<>> /\ T11!Ready = {T11!Last(pend)}
                           /\ T11!Last(pend) \in T11!Disjoints
                           /\ Untouched(T11!Last(pend))
                           /\ stamp[T11!FrameQuery(T11!Last(pend))] # 0
<1> SUFFICES ASSUME T11!Ready # {}
             PROVE  /\ pend # <<>> /\ T11!Ready = {T11!Last(pend)}
                    /\ T11!Last(pend) \in T11!Disjoints
                    /\ Untouched(T11!Last(pend))
                    /\ stamp[T11!FrameQuery(T11!Last(pend))] # 0
  OBVIOUS
<1>1. /\ pend # <<>> /\ T11!HasData(T11!FrameQuery(T11!Last(pend)))
      /\ T11!Ready = {T11!Last(pend)}
  BY DEF T11!Ready
<1>2. T11!Last(pend) \in T11!Disjoints
  BY <1>1, FrontAndLast DEF TimerTypes
<1> QED BY <1>1, <1>2 DEF T11!HasData, Untouched

\* What Begin leaves to choose from.
LEMMA UnusedIs ==
  ASSUME TimerTypes
  PROVE  Unused \in Seq(T11!Disjoints) /\ Left \in Seq(T11!Disjoints)
<1>1. pool \in Seq(T11!Disjoints) /\ pend \in Seq(T11!Disjoints)
  BY DEF TimerTypes
<1>2. CASE T11!Ready = {}
  BY <1>1, <1>2 DEF Unused, Left
<1>3. CASE T11!Ready # {}
  <2>1. T11!Last(pend) \in T11!Disjoints /\ T11!Front(pend) \in Seq(T11!Disjoints)
    BY <1>1, <1>3, ReadyIs, FrontAndLast
  <2>2. Append(pool, T11!Last(pend)) \in Seq(T11!Disjoints)
    BY <1>1, <2>1
  <2> QED BY <1>3, <2>1, <2>2 DEF Unused, Left
<1> QED BY <1>2, <1>3

\* Begin has a query for the frame, or none is left.
Begins(next) ==
    /\ current' = next
    /\ \/ /\ Unused = <<>> /\ next = T11!None
          /\ pool' = <<>> /\ pend' = Left /\ stamp' = stamp
       \/ /\ Unused # <<>> /\ next = T11!Last(Unused) /\ next \in T11!Disjoints
          /\ pool' = T11!Front(Unused) /\ pend' = <<next>> \o Left
          /\ stamp' = [stamp EXCEPT ![T11!FrameQuery(next)] = 0]
    /\ disjoint' = [c \in Counters |-> IF c \in live THEN next ELSE disjoint[c]]

LEMMA FrameBegins ==
  ASSUME TimerTypes, T11!BeginFrame
  PROVE  \E next : Begins(next)
<1> USE TimerBounds
<1>1. Unused \in Seq(T11!Disjoints)
  BY UnusedIs
<1>2. CASE Unused = <<>>
  <2>1. Begins(T11!None)
    BY <1>2 DEF T11!BeginFrame, Begins, Unused, Left
  <2> QED BY <2>1
<1>3. CASE Unused # <<>>
  <2>1. T11!Last(Unused) \in T11!Disjoints
    BY <1>1, <1>3, FrontAndLast
  <2>2. T11!Last(Unused) # T11!None
    BY <2>1
  <2>3. Begins(T11!Last(Unused))
    BY <1>3, <2>1, <2>2 DEF T11!BeginFrame, Begins, Unused, Left
  <2> QED BY <2>3
<1> QED BY <1>2, <1>3

\* The pairs of the oldest query are put back.
LEMMA PairsReturn ==
  ASSUME TimerTypes, T11!BeginFrame
  PROVE  /\ T11!Ready = {} => free' = free /\ waiting' = waiting
         /\ T11!Ready # {} =>
               /\ T11!Last(pend) \in T11!Disjoints
               /\ \A c \in Counters \ live : free'[c] = free[c] /\ waiting'[c] = waiting[c]
               /\ \A c \in live :
                     /\ free'[c] = free[c] \o PairsAt(waiting[c], T11!Last(pend))
                     /\ waiting'[c] = Without(waiting[c], T11!Last(pend))
         /\ DOMAIN free' = Counters /\ DOMAIN waiting' = Counters
<1>1. /\ waiting' = [c \in Counters |->
                       IF c \in live THEN T11!Erased(c, T11!Ready) ELSE waiting[c]]
      /\ free' = [c \in Counters |->
                    IF c \in live /\ T11!Ready # {}
                    THEN free[c] \o T11!PairsOf(c, T11!Last(pend)) ELSE free[c]]
  BY DEF T11!BeginFrame
<1>2. /\ waiting \in [Counters -> [T11!Disjoints -> Seq(Waits)]]
      /\ free \in [Counters -> Seq(T11!PairIds)] /\ live \subseteq Counters
  BY DEF TimerTypes
<1>3. DOMAIN free' = Counters /\ DOMAIN waiting' = Counters
  BY <1>1
<1>4. CASE T11!Ready = {}
  <2>1. \A c \in Counters : T11!Erased(c, {}) = waiting[c]
    BY <1>2 DEF T11!Erased
  <2>2. \A c \in Counters : waiting'[c] = waiting[c] /\ free'[c] = free[c]
    BY <1>1, <1>4, <2>1, Zenon
  <2>3. waiting' = [c \in Counters |-> waiting'[c]] /\ free' = [c \in Counters |-> free'[c]]
    BY <1>1
  <2>4. waiting' = waiting /\ free' = free
    BY <1>2, <2>2, <2>3
  <2> QED BY <1>3, <1>4, <2>4
<1>5. CASE T11!Ready # {}
  <2>1. T11!Ready = {T11!Last(pend)} /\ T11!Last(pend) \in T11!Disjoints
    BY <1>5, ReadyIs
  <2>2. \A c \in Counters \ live : free'[c] = free[c] /\ waiting'[c] = waiting[c]
    BY <1>1, Zenon
  <2>3. \A c \in live : /\ free'[c] = free[c] \o T11!PairsOf(c, T11!Last(pend))
                        /\ waiting'[c] = T11!Erased(c, {T11!Last(pend)})
    BY <1>1, <1>2, <1>5, <2>1, Zenon
  <2> QED BY <1>3, <1>5, <2>1, <2>2, <2>3 DEF T11!PairsOf, T11!Erased, PairsAt, Without
<1> QED BY <1>4, <1>5

\* What a reset leaves of the counters in cs.
LEMMA ResetIs ==
  ASSUME TimerTypes, NEW cs \in SUBSET Counters, T11!ResetCounters(cs)
  PROVE  /\ ready' = ready \ cs
         /\ free' \in [Counters -> Seq(T11!PairIds)] /\ made' \in [Counters -> 0 .. MaxQueryPairs]
         /\ waiting' \in [Counters -> [T11!Disjoints -> Seq(Waits)]]
         /\ disjoint' \in [Counters -> {T11!None} \union T11!Disjoints]
         /\ \A c \in cs : /\ free'[c] = <<>> /\ made'[c] = 0 /\ disjoint'[c] = T11!None
                          /\ \A d \in T11!Disjoints : waiting'[c][d] = <<>>
         /\ \A c \in Counters \ cs : /\ free'[c] = free[c] /\ made'[c] = made[c]
                                     /\ disjoint'[c] = disjoint[c]
                                     /\ waiting'[c] = waiting[c]
<1> USE TimerBounds
<1>1. /\ free \in [Counters -> Seq(T11!PairIds)] /\ made \in [Counters -> 0 .. MaxQueryPairs]
      /\ waiting \in [Counters -> [T11!Disjoints -> Seq(Waits)]]
      /\ disjoint \in [Counters -> {T11!None} \union T11!Disjoints]
  BY DEF TimerTypes
<1>2. /\ ready' = ready \ cs
      /\ free' = [c \in Counters |-> IF c \in cs THEN <<>> ELSE free[c]]
      /\ made' = [c \in Counters |-> IF c \in cs THEN 0 ELSE made[c]]
      /\ disjoint' = [c \in Counters |-> IF c \in cs THEN T11!None ELSE disjoint[c]]
      /\ waiting' = [c \in Counters |-> IF c \in cs THEN [d \in T11!Disjoints |-> <<>>]
                                        ELSE waiting[c]]
  BY DEF T11!ResetCounters
<1>3. free' \in [Counters -> Seq(T11!PairIds)]
  <2>1. <<>> \in Seq(T11!PairIds)
    OBVIOUS
  <2> QED BY <1>1, <1>2, <2>1, Zenon
<1>4. made' \in [Counters -> 0 .. MaxQueryPairs]
  BY <1>1, <1>2
<1>5. waiting' \in [Counters -> [T11!Disjoints -> Seq(Waits)]]
  <2>1. <<>> \in Seq(Waits)
    OBVIOUS
  <2>2. [d \in T11!Disjoints |-> <<>>] \in [T11!Disjoints -> Seq(Waits)]
    BY <2>1, Zenon
  <2> QED BY <1>1, <1>2, <2>2, Zenon
<1>6. disjoint' \in [Counters -> {T11!None} \union T11!Disjoints]
  BY <1>1, <1>2, Zenon
<1>7. \A c \in cs : /\ free'[c] = <<>> /\ made'[c] = 0 /\ disjoint'[c] = T11!None
                    /\ \A d \in T11!Disjoints : waiting'[c][d] = <<>>
  <2> SUFFICES ASSUME NEW c \in cs
               PROVE  /\ free'[c] = <<>> /\ made'[c] = 0 /\ disjoint'[c] = T11!None
                      /\ \A d \in T11!Disjoints : waiting'[c][d] = <<>>
    OBVIOUS
  <2>1. /\ free'[c] = <<>> /\ made'[c] = 0 /\ disjoint'[c] = T11!None
        /\ waiting'[c] = [d \in T11!Disjoints |-> <<>>]
    BY <1>2
  <2> QED BY <2>1
<1>8. \A c \in Counters \ cs : /\ free'[c] = free[c] /\ made'[c] = made[c]
                               /\ disjoint'[c] = disjoint[c] /\ waiting'[c] = waiting[c]
  BY <1>2, Zenon
<1> QED BY <1>2, <1>3, <1>4, <1>5, <1>6, <1>7, <1>8

-----------------------------------------------------------------------------
(* The pool, the pairs and the frame.                                      *)

\* Another command that does not end the query of d.
LEMMA UntouchedAppend ==
  ASSUME TimerTypes, NEW x \in Commands11, gpu' = Append(gpu, x)
  PROVE  /\ gpu' \in Seq(Commands11)
         /\ \A d \in T11!Disjoints :
               Untouched(d) /\ x.query # T11!FrameQuery(d) => Untouched(d)'
<1>1. gpu \in Seq(Commands11)
  BY DEF TimerTypes
<1>2. gpu' \in Seq(Commands11)
  BY <1>1
<1>3. \A j \in DOMAIN gpu' : (j \in DOMAIN gpu /\ gpu'[j] = gpu[j]) \/ gpu'[j] = x
  BY <1>1
<1> QED BY <1>2, <1>3 DEF Untouched

\* One command less.
LEMMA UntouchedTail ==
  ASSUME TimerTypes, gpu # <<>>, gpu' = Tail(gpu)
  PROVE  /\ gpu' \in Seq(Commands11) /\ Head(gpu) \in Commands11
         /\ \A d \in T11!Disjoints :
               Untouched(d) => Untouched(d)' /\ Head(gpu).query # T11!FrameQuery(d)
<1>1. gpu \in Seq(Commands11)
  BY DEF TimerTypes
<1>2. gpu' \in Seq(Commands11) /\ Head(gpu) \in Commands11
  BY <1>1
<1>3. \A j \in DOMAIN gpu' : j + 1 \in DOMAIN gpu /\ gpu'[j] = gpu[j + 1]
  BY <1>1
<1>4. 1 \in DOMAIN gpu /\ Head(gpu) = gpu[1]
  BY <1>1
<1> QED BY <1>2, <1>3, <1>4 DEF Untouched

\* The gpu commands and queries are unchanged.
LEMMA UntouchedSame ==
  ASSUME gpu' = gpu PROVE \A d : Untouched(d)' <=> Untouched(d)
BY DEF Untouched

LEMMA PoolSame ==
  ASSUME PoolOK, pool' = pool, pend' = pend, supported' = supported, context' = context
  PROVE  PoolOK'
BY DEF PoolOK

LEMMA PairsSame ==
  ASSUME TimersOK, free' = free, waiting' = waiting, made' = made
  PROVE  \A c \in Counters : PairOK(c)'
BY DEF TimersOK, PlacesOK, PairOK

LEMMA CreateCounterKeeps ==
  ASSUME TimersOK, NEW c \in Counters, T11!CreateCounter(c) PROVE TimersOK'
<1>1. /\ context = TRUE /\ live' = live \union {c} /\ ready' = ready \union {c}
      /\ UNCHANGED <<context, supported, pool, pend, current, disjoint, free, made,
                     waiting, open, serial, gpu, stamp>>
  BY DEF T11!CreateCounter, T11!poolVars, T11!gpuVars
<1>2. TimerTypes'
  BY <1>1 DEF TimersOK, TimerTypes
<1>3. EmptiedOK'
  BY <1>1 DEF TimersOK, EmptiedOK
<1>4. PlacesOK'
  BY <1>1, PoolSame, PairsSame DEF TimersOK, PlacesOK
<1>5. FrameOK'
  BY <1>1 DEF TimersOK, FrameOK, Untouched
<1> QED BY <1>2, <1>3, <1>4, <1>5 DEF TimersOK

\* A reset leaves the pairs of each counter in order, and the frame as it is.
LEMMA ResetKeeps ==
  ASSUME TimersOK, NEW cs \in SUBSET Counters, T11!ResetCounters(cs)
  PROVE  /\ \A c \in Counters : PairOK(c)'
         /\ \A c \in Counters \ ready' :
               /\ free'[c] = <<>> /\ made'[c] = 0
               /\ \A d \in T11!Disjoints : waiting'[c][d] = <<>>
         /\ \A c \in Counters : disjoint'[c] \in {T11!None, disjoint[c]}
<1>1. TimerTypes
  BY DEF TimersOK
<1>2. /\ ready' = ready \ cs
      /\ \A c \in cs : /\ free'[c] = <<>> /\ made'[c] = 0 /\ disjoint'[c] = T11!None
                       /\ \A d \in T11!Disjoints : waiting'[c][d] = <<>>
      /\ \A c \in Counters \ cs : /\ free'[c] = free[c] /\ made'[c] = made[c]
                                  /\ disjoint'[c] = disjoint[c]
                                  /\ waiting'[c] = waiting[c]
  BY <1>1, ResetIs
<1>3. ASSUME NEW c \in cs PROVE PairOK(c)'
  <2>1. PairsIn(<<>>, waiting'[c], 0)
    BY <1>2, PairsEmpty
  <2> QED BY <1>2, <2>1 DEF PairOK
<1>4. ASSUME NEW c \in Counters \ cs PROVE PairOK(c)'
  BY <1>2 DEF TimersOK, PlacesOK, PairOK
<1>5. ASSUME NEW c \in Counters \ ready'
      PROVE  /\ free'[c] = <<>> /\ made'[c] = 0
             /\ \A d \in T11!Disjoints : waiting'[c][d] = <<>>
  <2>1. CASE c \in cs
    BY <1>2, <2>1
  <2>2. CASE c \notin cs
    <3>1. c \in Counters \ ready
      BY <1>2, <2>2
    <3>2. /\ free[c] = <<>> /\ made[c] = 0
          /\ \A d \in T11!Disjoints : waiting[c][d] = <<>>
      BY <3>1 DEF TimersOK, EmptiedOK
    <3> QED BY <1>2, <2>2, <3>2
  <2> QED BY <2>1, <2>2
<1>6. \A c \in Counters : disjoint'[c] \in {T11!None, disjoint[c]}
  BY <1>2
<1> QED BY <1>3, <1>4, <1>5, <1>6

LEMMA DestroyCounterKeeps ==
  ASSUME TimersOK, NEW c \in Counters, T11!DestroyCounter(c) PROVE TimersOK'
<1>1. /\ T11!ResetCounters({c}) /\ live' = live \ {c}
      /\ UNCHANGED <<context, supported, pool, pend, current, open, serial, gpu, stamp>>
  BY DEF T11!DestroyCounter, T11!poolVars, T11!gpuVars
<1>2. TimerTypes /\ {c} \in SUBSET Counters
  BY DEF TimersOK
<1>3. /\ ready' = ready \ {c} /\ disjoint'[c] = T11!None
      /\ free' \in [Counters -> Seq(T11!PairIds)] /\ made' \in [Counters -> 0 .. MaxQueryPairs]
      /\ waiting' \in [Counters -> [T11!Disjoints -> Seq(Waits)]]
      /\ disjoint' \in [Counters -> {T11!None} \union T11!Disjoints]
      /\ \A b \in Counters \ {c} : disjoint'[b] = disjoint[b]
  BY <1>1, <1>2, ResetIs
<1>4. TimerTypes'
  BY <1>1, <1>2, <1>3 DEF TimerTypes
<1>5. EmptiedOK'
  <2>1. ~context' => /\ pool' = <<>> /\ pend' = <<>> /\ current' = T11!None
                     /\ gpu' = <<>> /\ open' = {} /\ ready' = {}
    BY <1>1, <1>3 DEF TimersOK, EmptiedOK
  <2>2. \A b \in Counters \ live' : disjoint'[b] = T11!None
    BY <1>1, <1>3 DEF TimersOK, EmptiedOK
  <2> QED BY <1>1, <1>2, <2>1, <2>2, ResetKeeps DEF EmptiedOK
<1>6. PlacesOK'
  BY <1>1, <1>2, PoolSame, ResetKeeps DEF TimersOK, PlacesOK
<1>7. FrameOK'
  <2>1. \A b \in Counters : disjoint'[b] \in {T11!None, disjoint[b]}
    BY <1>1, <1>2, ResetKeeps
  <2> QED BY <1>1, <2>1 DEF TimersOK, FrameOK, Untouched
<1> QED BY <1>4, <1>5, <1>6, <1>7 DEF TimersOK

LEMMA CreateQueryFailsKeeps ==
  ASSUME TimersOK, NEW c \in Counters, T11!CreateQueryFails(c) PROVE TimersOK'
<1>1. /\ T11!ResetCounters({c}) /\ live' = live
      /\ UNCHANGED <<context, supported, pool, pend, current, open, serial, gpu, stamp>>
  BY DEF T11!CreateQueryFails, T11!poolVars, T11!gpuVars
<1>2. TimerTypes /\ {c} \in SUBSET Counters
  BY DEF TimersOK
<1>3. /\ ready' = ready \ {c}
      /\ free' \in [Counters -> Seq(T11!PairIds)] /\ made' \in [Counters -> 0 .. MaxQueryPairs]
      /\ waiting' \in [Counters -> [T11!Disjoints -> Seq(Waits)]]
      /\ disjoint' \in [Counters -> {T11!None} \union T11!Disjoints]
  BY <1>1, <1>2, ResetIs
<1>4. \A b \in Counters : disjoint'[b] \in {T11!None, disjoint[b]}
  BY <1>1, <1>2, ResetKeeps
<1>5. TimerTypes'
  BY <1>1, <1>2, <1>3 DEF TimerTypes
<1>6. EmptiedOK'
  <2>1. ~context' => /\ pool' = <<>> /\ pend' = <<>> /\ current' = T11!None
                     /\ gpu' = <<>> /\ open' = {} /\ ready' = {}
    BY <1>1, <1>3 DEF TimersOK, EmptiedOK
  <2>2. \A b \in Counters \ live' : disjoint'[b] = T11!None
    BY <1>1, <1>4 DEF TimersOK, EmptiedOK
  <2> QED BY <1>1, <1>2, <2>1, <2>2, ResetKeeps DEF EmptiedOK
<1>7. PlacesOK'
  BY <1>1, <1>2, PoolSame, ResetKeeps DEF TimersOK, PlacesOK
<1>8. FrameOK'
  BY <1>1, <1>4 DEF TimersOK, FrameOK, Untouched
<1> QED BY <1>5, <1>6, <1>7, <1>8 DEF TimersOK

\* A counter that is ready has a device.
LEMMA HasContext ==
  ASSUME TimersOK, ready # {} \/ open # {} \/ gpu # <<>> PROVE context = TRUE
BY DEF TimersOK, EmptiedOK, TimerTypes

LEMMA BeginScopeKeeps ==
  ASSUME TimersOK, NEW c \in Counters, T11!BeginScope(c) PROVE TimersOK'
<1> USE TimerBounds
<1>1. TimerTypes
  BY DEF TimersOK
<1>2. PICK p, g, m : NotesPair(c, p, g, m)
  BY <1>1, ScopeBegins
<1>3. PICK x : x = [pair |-> p, serial |-> serial + 1]
  OBVIOUS
<1>4. PICK y : y = [query |-> <<c, p, "begin">>, by |-> serial + 1]
  OBVIOUS
<1>5. PICK d : d = disjoint[c]
  OBVIOUS
<1>6. /\ c \in ready /\ d \in T11!Disjoints /\ p \in T11!PairIds
      /\ m \in 0 .. MaxQueryPairs /\ g \in Seq(T11!PairIds)
      /\ \/ free[c] # <<>> /\ p = T11!Last(free[c]) /\ g = T11!Front(free[c]) /\ m = made[c]
         \/ free[c] = <<>> /\ p = made[c] + 1 /\ g = free[c] /\ m = made[c] + 1
      /\ serial' = serial + 1
      /\ free' = [free EXCEPT ![c] = g] /\ made' = [made EXCEPT ![c] = m]
      /\ gpu' = Append(gpu, y)
      /\ open' = open \union {[counter |-> c, pair |-> p, serial |-> serial + 1]}
      /\ UNCHANGED <<context, supported, pool, pend, current, live, ready, disjoint, stamp>>
  BY <1>2, <1>4, <1>5 DEF NotesPair
<1>7. waiting' = [waiting EXCEPT ![c] = [waiting[c] EXCEPT ![d] = Append(waiting[c][d], x)]]
  BY <1>2, <1>3, <1>5 DEF NotesPair
<1>8. serial \in Nat /\ x \in Waits /\ x.pair = p
  BY <1>1, <1>3, <1>6 DEF TimerTypes, Waits
<1>9. y \in Commands11 /\ y.query = <<c, p, "begin">>
  <2>1. <<c, p, "begin">> \in T11!Queries
    BY <1>6, QueriesAre DEF Parts
  <2> QED BY <1>4, <1>8, <2>1 DEF Commands11
<1>10. \A e \in T11!Disjoints : y.query # T11!FrameQuery(e)
  BY <1>9, QueriesAre DEF Parts
<1>11. PICK w : w = waiting[c]
  OBVIOUS
<1>12. /\ w \in [T11!Disjoints -> Seq(Waits)] /\ w[d] \in Seq(Waits)
       /\ free[c] \in Seq(T11!PairIds) /\ made[c] \in Nat
  BY <1>1, <1>6, <1>11 DEF TimerTypes
<1>13. PICK v : v = [w EXCEPT ![d] = Append(@, x)]
  OBVIOUS
<1>14. v \in [T11!Disjoints -> Seq(Waits)]
  <2>1. Append(w[d], x) \in Seq(Waits)
    BY <1>8, <1>12
  <2> QED BY <1>12, <1>13, <2>1
<1>15. waiting' = [waiting EXCEPT ![c] = v]
  BY <1>7, <1>11, <1>13
<1>16. waiting' \in [Counters -> [T11!Disjoints -> Seq(Waits)]]
  BY ONLY <1>1, <1>14, <1>15 DEF TimerTypes
<1>17. gpu' \in Seq(Commands11) /\ \A e \in T11!Disjoints : Untouched(e) => Untouched(e)'
  BY <1>1, <1>6, <1>9, <1>10, UntouchedAppend
<1>18. TimerTypes'
  <2>1. free' \in [Counters -> Seq(T11!PairIds)]
    BY ONLY <1>1, <1>6 DEF TimerTypes
  <2>2. made' \in [Counters -> 0 .. MaxQueryPairs]
    BY ONLY <1>1, <1>6 DEF TimerTypes
  <2>3. [counter |-> c, pair |-> p, serial |-> serial + 1]
          \in [counter : Counters, pair : T11!PairIds, serial : Nat \ {0}]
    BY <1>6, <1>8
  <2>4. open' \subseteq [counter : Counters, pair : T11!PairIds, serial : Nat \ {0}]
    BY ONLY <1>1, <1>6, <2>3 DEF TimerTypes
  <2> QED BY <1>1, <1>6, <1>8, <1>16, <1>17, <2>1, <2>2, <2>4 DEF TimerTypes
<1>19. context = TRUE
  BY <1>6, HasContext
<1>20. /\ \A b \in Counters \ {c} : /\ free'[b] = free[b] /\ made'[b] = made[b]
                                    /\ waiting'[b] = waiting[b]
       /\ free'[c] = g /\ made'[c] = m /\ waiting'[c] = v
  <2>1. free \in [Counters -> Seq(T11!PairIds)] /\ made \in [Counters -> 0 .. MaxQueryPairs]
        /\ DOMAIN waiting = Counters
    BY <1>1 DEF TimerTypes
  <2>2. c \in Counters
    OBVIOUS
  <2>3. \A b \in Counters \ {c} : free'[b] = free[b] /\ made'[b] = made[b]
    BY ONLY <1>6, <2>1
  <2>4. free'[c] = g /\ made'[c] = m
    BY ONLY <1>6, <2>1, <2>2
  <2>5. (\A b \in Counters \ {c} : waiting'[b] = waiting[b]) /\ waiting'[c] = v
    BY ONLY <1>15, <2>1, <2>2
  <2> QED BY ONLY <2>3, <2>4, <2>5
<1>21. EmptiedOK'
  <2>1. \A b \in Counters \ ready' : b # c /\ b \in Counters \ ready
    BY <1>6
  <2>2. ASSUME NEW b \in Counters \ ready'
        PROVE  /\ free'[b] = <<>> /\ made'[b] = 0
               /\ \A e \in T11!Disjoints : waiting'[b][e] = <<>>
    <3>1. /\ free[b] = <<>> /\ made[b] = 0
          /\ \A e \in T11!Disjoints : waiting[b][e] = <<>>
      BY <2>1 DEF TimersOK, EmptiedOK
    <3> QED BY <1>20, <2>1, <3>1
  <2>3. \A b \in Counters \ live' : disjoint'[b] = T11!None
    BY <1>6 DEF TimersOK, EmptiedOK
  <2>4. context' = TRUE
    BY <1>6, <1>19
  <2> QED BY ONLY <2>2, <2>3, <2>4 DEF EmptiedOK
<1>22. PlacesOK'
  <2>1. PairsIn(free[c], w, made[c])
    BY <1>11 DEF TimersOK, PlacesOK, PairOK
  <2>2. PairsIn(g, v, m)
    BY <1>6, <1>8, <1>12, <1>13, <2>1, PairNoted
  <2>3. \A b \in Counters : PairOK(b)'
    BY <1>20, <2>2 DEF TimersOK, PlacesOK, PairOK
  <2> QED BY <1>6, <2>3, PoolSame DEF TimersOK, PlacesOK
<1>23. FrameOK'
  <2>1. \A i \in DOMAIN pool : pool[i] \in T11!Disjoints
    BY <1>1 DEF TimerTypes
  <2>2. current # T11!None => current \in T11!Disjoints
    BY <1>1 DEF TimerTypes
  <2> QED BY <1>6, <1>17, <2>1, <2>2 DEF TimersOK, FrameOK
<1> QED BY <1>18, <1>21, <1>22, <1>23 DEF TimersOK

\* A command of the module does not end a query of a frame, and leaves places
\* as they are.
LEMMA EndScopeKeeps ==
  ASSUME TimersOK, NEW o \in open, T11!EndScope(o) PROVE TimersOK'
<1>1. TimerTypes
  BY DEF TimersOK
<1>2. PICK y : y = [query |-> <<o.counter, o.pair, "end">>, by |-> o.serial]
  OBVIOUS
<1>3. /\ gpu' = Append(gpu, y) /\ open' = open \ {o}
      /\ UNCHANGED <<context, supported, pool, pend, current, live, ready, disjoint,
                     free, made, waiting, serial, stamp>>
  BY <1>2 DEF T11!EndScope, T11!Issue, T11!poolVars, T11!counterVars
<1>4. o.counter \in Counters /\ o.pair \in T11!PairIds /\ o.serial \in Nat \ {0}
  BY <1>1 DEF TimerTypes
<1>5. y \in Commands11 /\ y.query = <<o.counter, o.pair, "end">>
  <2>1. <<o.counter, o.pair, "end">> \in T11!Queries
    BY <1>4, QueriesAre DEF Parts
  <2> QED BY <1>2, <1>4, <2>1 DEF Commands11
<1>6. \A e \in T11!Disjoints : y.query # T11!FrameQuery(e)
  BY <1>5, QueriesAre DEF Parts
<1>7. gpu' \in Seq(Commands11) /\ \A e \in T11!Disjoints : Untouched(e) => Untouched(e)'
  BY <1>1, <1>3, <1>5, <1>6, UntouchedAppend
<1>8. TimerTypes'
  BY <1>1, <1>3, <1>7 DEF TimerTypes
<1>9. context = TRUE
  BY HasContext
<1>10. EmptiedOK'
  BY <1>3, <1>9 DEF TimersOK, EmptiedOK
<1>11. PlacesOK'
  BY <1>3, PoolSame, PairsSame DEF TimersOK, PlacesOK
<1>12. FrameOK'
  <2>1. \A i \in DOMAIN pool : pool[i] \in T11!Disjoints
    BY <1>1 DEF TimerTypes
  <2>2. current # T11!None => current \in T11!Disjoints
    BY <1>1 DEF TimerTypes
  <2> QED BY <1>3, <1>7, <2>1, <2>2 DEF TimersOK, FrameOK
<1> QED BY <1>8, <1>10, <1>11, <1>12 DEF TimersOK

LEMMA EndFrameKeeps ==
  ASSUME TimersOK, T11!EndFrame PROVE TimersOK'
<1>1. TimerTypes
  BY DEF TimersOK
<1>2. PICK y : y = [query |-> T11!FrameQuery(current), by |-> 1]
  OBVIOUS
<1>3. /\ context /\ current # T11!None /\ gpu' = Append(gpu, y) /\ current' = T11!None
      /\ UNCHANGED <<context, supported, pool, pend, live, ready, disjoint,
                     free, made, waiting, open, serial, stamp>>
  BY <1>2 DEF T11!EndFrame, T11!Issue, T11!counterVars
<1>4. current \in T11!Disjoints
  BY <1>1, <1>3 DEF TimerTypes
<1>5. y \in Commands11 /\ y.query = T11!FrameQuery(current)
  <2>1. T11!FrameQuery(current) \in T11!Queries
    BY <1>4, QueriesAre
  <2> QED BY <1>2, <2>1 DEF Commands11
<1>6. \A e \in T11!Disjoints : e # current => y.query # T11!FrameQuery(e)
  BY <1>4, <1>5, QueriesAre
<1>7. /\ gpu' \in Seq(Commands11)
      /\ \A e \in T11!Disjoints : e # current /\ Untouched(e) => Untouched(e)'
  BY <1>1, <1>3, <1>5, <1>6, UntouchedAppend
<1>8. TimerTypes'
  BY <1>1, <1>3, <1>7 DEF TimerTypes
<1>9. EmptiedOK'
  BY <1>3 DEF TimersOK, EmptiedOK
<1>10. PlacesOK'
  BY <1>3, PoolSame, PairsSame DEF TimersOK, PlacesOK
<1>11. FrameOK'
  <2>1. \A i \in DOMAIN pool : pool[i] \in T11!Disjoints
    BY <1>1 DEF TimerTypes
  <2>2. 1 \in DOMAIN pend /\ current = pend[1]
    BY <1>1, <1>3 DEF TimersOK, FrameOK, TimerTypes
  <2>3. \A i \in DOMAIN pool : pool[i] # current
    BY <2>2 DEF TimersOK, PlacesOK, PoolOK, OncePooled
  <2> QED BY <1>3, <1>7, <2>1, <2>3 DEF TimersOK, FrameOK
<1> QED BY <1>8, <1>9, <1>10, <1>11 DEF TimersOK

LEMMA DeviceResetKeeps ==
  ASSUME TimersOK, T11!DeviceReset PROVE TimersOK'
<1> USE TimerBounds
<1>1. /\ current = T11!None /\ open = {} /\ context' = FALSE
      /\ pool' = <<>> /\ pend' = <<>> /\ gpu' = <<>>
      /\ stamp' = [q \in T11!Queries |-> 0]
      /\ T11!ResetCounters(live)
      /\ UNCHANGED <<supported, current, live, open, serial>>
  BY DEF T11!DeviceReset
<1>2. TimerTypes /\ live \in SUBSET Counters /\ ready \subseteq live
  BY DEF TimersOK, TimerTypes
<1>3. /\ ready' = ready \ live
      /\ free' \in [Counters -> Seq(T11!PairIds)] /\ made' \in [Counters -> 0 .. MaxQueryPairs]
      /\ waiting' \in [Counters -> [T11!Disjoints -> Seq(Waits)]]
      /\ disjoint' \in [Counters -> {T11!None} \union T11!Disjoints]
  BY <1>1, <1>2, ResetIs
<1>4. \A b \in Counters : disjoint'[b] \in {T11!None, disjoint[b]}
  BY <1>1, <1>2, ResetKeeps
<1>5. TimerTypes'
  <2>1. stamp' \in [T11!Queries -> Nat]
    BY <1>1
  <2>2. /\ pool' \in Seq(T11!Disjoints) /\ pend' \in Seq(T11!Disjoints)
        /\ gpu' \in Seq(Commands11)
    BY <1>1
  <2> QED BY <1>1, <1>2, <1>3, <2>1, <2>2 DEF TimerTypes
<1>6. EmptiedOK'
  <2>1. ready' = {}
    BY <1>2, <1>3
  <2>2. \A b \in Counters \ live' : disjoint'[b] = T11!None
    BY <1>1, <1>4 DEF TimersOK, EmptiedOK
  <2> QED BY <1>1, <1>2, <2>1, <2>2, ResetKeeps DEF EmptiedOK
<1>7. PoolOK'
  <2>1. DOMAIN pool' = {} /\ DOMAIN pend' = {} /\ ~context'
    BY <1>1
  <2> QED BY <2>1 DEF PoolOK, OncePooled
<1>8. PlacesOK'
  BY <1>1, <1>2, <1>7, ResetKeeps DEF PlacesOK
<1>9. FrameOK'
  <2>1. DOMAIN pool' = {} /\ current' = T11!None
    BY <1>1
  <2> QED BY <2>1 DEF FrameOK
<1> QED BY <1>5, <1>6, <1>8, <1>9 DEF TimersOK

LEMMA InitFromDeviceKeeps ==
  ASSUME TimersOK, T11!InitFromDevice PROVE TimersOK'
<1> USE TimerBounds
<1>1. TimerTypes
  BY DEF TimersOK
<1>2. PICK n \in 0 .. BufferSize : pool' = [d \in 1 .. n |-> d]
                                   /\ supported' = (supported /\ n = BufferSize)
  BY DEF T11!InitFromDevice
<1>3. /\ ~context /\ context' = TRUE /\ ready' = live
      /\ UNCHANGED <<pend, current, live, disjoint, free, made, waiting, open,
                     serial, gpu, stamp>>
  BY DEF T11!InitFromDevice, T11!gpuVars
<1>4. /\ pend = <<>> /\ current = T11!None /\ gpu = <<>> /\ open = {} /\ ready = {}
  BY <1>3 DEF TimersOK, EmptiedOK
<1>5. /\ pool' \in Seq(T11!Disjoints) /\ DOMAIN pool' = 1 .. n
      /\ \A i \in 1 .. n : pool'[i] = i
  <2>1. 1 .. n \subseteq T11!Disjoints
    OBVIOUS
  <2>2. pool' \in [1 .. n -> T11!Disjoints]
    BY <1>2, <2>1
  <2> QED BY <1>2, <2>2
<1>6. supported' \in BOOLEAN
  BY <1>2
<1>7. TimerTypes'
  BY <1>1, <1>3, <1>5, <1>6 DEF TimerTypes
<1>8. EmptiedOK'
  BY <1>3, <1>4 DEF TimersOK, EmptiedOK
<1>9. PoolOK'
  <2>1. DOMAIN pend' = {}
    BY <1>3, <1>4
  <2>2. supported' => \A d \in T11!Disjoints : d \in DOMAIN pool' /\ pool'[d] = d
    BY <1>2, <1>5
  <2> QED BY <1>5, <2>1, <2>2 DEF PoolOK, OncePooled, Pooled
<1>10. PlacesOK'
  BY <1>3, <1>9, PairsSame DEF PlacesOK
<1>11. FrameOK'
  <2>1. DOMAIN gpu' = {} /\ current' = T11!None
    BY <1>3, <1>4
  <2> QED BY <2>1 DEF FrameOK, Untouched
<1> QED BY <1>7, <1>8, <1>10, <1>11 DEF TimersOK

LEMMA ExecuteKeeps ==
  ASSUME TimersOK, T11!Execute PROVE TimersOK'
<1>1. TimerTypes
  BY DEF TimersOK
<1>2. PICK x : x = Head(gpu)
  OBVIOUS
<1>3. /\ gpu # <<>> /\ gpu' = Tail(gpu) /\ stamp' = [stamp EXCEPT ![x.query] = x.by]
      /\ UNCHANGED <<context, supported, pool, pend, current, live, ready, disjoint,
                     free, made, waiting, open, serial>>
  BY <1>2 DEF T11!Execute, T11!poolVars, T11!counterVars
<1>4. /\ gpu' \in Seq(Commands11) /\ x \in Commands11
      /\ \A e \in T11!Disjoints : Untouched(e) => Untouched(e)' /\ x.query # T11!FrameQuery(e)
  BY <1>1, <1>2, <1>3, UntouchedTail
<1>5. x.query \in T11!Queries /\ x.by \in Nat
  BY <1>4 DEF Commands11
<1>6. stamp' \in [T11!Queries -> Nat]
  BY ONLY <1>1, <1>3, <1>5 DEF TimerTypes
<1>7. TimerTypes'
  BY <1>1, <1>3, <1>4, <1>6 DEF TimerTypes
<1>8. context = TRUE
  BY <1>3, HasContext
<1>9. EmptiedOK'
  BY <1>3, <1>8 DEF TimersOK, EmptiedOK
<1>10. PlacesOK'
  BY <1>3, PoolSame, PairsSame DEF TimersOK, PlacesOK
<1>11. FrameOK'
  <2>1. \A i \in DOMAIN pool : pool[i] \in T11!Disjoints
    BY <1>1 DEF TimerTypes
  <2>2. current # T11!None => current \in T11!Disjoints
    BY <1>1 DEF TimerTypes
  <2>3. ASSUME current # T11!None PROVE stamp'[T11!FrameQuery(current)] = 0
    <3>1. x.query # T11!FrameQuery(current) /\ stamp[T11!FrameQuery(current)] = 0
      BY <1>4, <2>2, <2>3 DEF TimersOK, FrameOK
    <3>2. T11!FrameQuery(current) \in T11!Queries
      BY <2>2, <2>3, QueriesAre
    <3>3. PICK q : q = T11!FrameQuery(current)
      OBVIOUS
    <3>4. q # x.query /\ stamp[q] = 0 /\ q \in T11!Queries /\ DOMAIN stamp = T11!Queries
      BY <1>1, <3>1, <3>2, <3>3 DEF TimerTypes
    <3>5. stamp'[q] = 0
      BY ONLY <1>3, <3>4
    <3> QED BY <3>3, <3>5
  <2> QED BY <1>3, <1>4, <2>1, <2>2, <2>3 DEF TimersOK, FrameOK
<1> QED BY <1>7, <1>9, <1>10, <1>11 DEF TimersOK

-----------------------------------------------------------------------------
(* A frame begins.                                                         *)

\* The oldest pending query goes back to the pool.
LEMMA OldestReturns ==
  ASSUME NEW p \in Seq(T11!Disjoints), NEW q \in Seq(T11!Disjoints), q # <<>>,
         OncePooled(p, q), NEW r, r = Append(p, T11!Last(q)), NEW s, s = T11!Front(q)
  PROVE  OncePooled(r, s) /\ \A d : Pooled(p, q, d) => Pooled(r, s, d)
<1> DEFINE k == Len(p) + 1
<1> DEFINE l == Len(q)
<1>1. /\ DOMAIN r = DOMAIN p \union {k} /\ k \notin DOMAIN p
      /\ r[k] = T11!Last(q) /\ \A i \in DOMAIN p : r[i] = p[i]
  <2>1. T11!Last(q) \in T11!Disjoints
    BY FrontAndLast
  <2> QED BY <2>1
<1>2. /\ l \in Nat \ {0} /\ T11!Last(q) = q[l] /\ DOMAIN q = 1 .. l /\ DOMAIN s = 1 .. l - 1
      /\ \A i \in 1 .. l - 1 : s[i] = q[i]
  BY FrontAndLast
<1> HIDE DEF k, l
<1>3. /\ l \in DOMAIN q /\ DOMAIN s = DOMAIN q \ {l} /\ \A i \in DOMAIN s : s[i] = q[i]
  BY <1>2
<1>4. r[k] = q[l]
  BY <1>1, <1>2
<1>5. OncePooled(r, s)
  <2>1. \A i, j \in DOMAIN r : r[i] = r[j] => i = j
    BY <1>1, <1>3, <1>4 DEF OncePooled
  <2>2. \A i, j \in DOMAIN s : s[i] = s[j] => i = j
    BY <1>3 DEF OncePooled
  <2>3. \A i \in DOMAIN r, j \in DOMAIN s : r[i] # s[j]
    BY <1>1, <1>3, <1>4 DEF OncePooled
  <2> QED BY <2>1, <2>2, <2>3 DEF OncePooled
<1>6. ASSUME NEW d, Pooled(p, q, d) PROVE Pooled(r, s, d)
  <2>1. CASE \E i \in DOMAIN p : p[i] = d
    BY <1>1, <2>1 DEF Pooled
  <2>2. CASE \E i \in DOMAIN q : q[i] = d
    BY <1>1, <1>3, <1>4, <2>2 DEF Pooled
  <2> QED BY <1>6, <2>1, <2>2 DEF Pooled
<1> QED BY <1>5, <1>6

\* An element in front of others.
LEMMA InFront ==
  ASSUME NEW S, NEW x \in S, NEW q \in Seq(S), NEW s, s = <<x>> \o q
  PROVE  /\ s \in Seq(S) /\ s # <<>> /\ Len(s) = Len(q) + 1 /\ DOMAIN s = 1 .. Len(q) + 1
         /\ s[1] = x /\ \A i \in 2 .. Len(q) + 1 : s[i] = q[i - 1]
<1>1. <<x>> \in Seq(S) /\ Len(<<x>>) = 1 /\ <<x>>[1] = x /\ Len(q) \in Nat
  OBVIOUS
<1>2. s \in Seq(S) /\ Len(s) = Len(q) + 1
  BY <1>1
<1>3. s[1] = x /\ \A i \in 2 .. Len(q) + 1 : s[i] = q[i - 1]
  BY <1>1
<1> QED BY <1>1, <1>2, <1>3

\* The last query of the pool becomes the newest that is pending.
LEMMA NextTaken ==
  ASSUME NEW p \in Seq(T11!Disjoints), NEW q \in Seq(T11!Disjoints), p # <<>>,
         OncePooled(p, q), NEW r, r = T11!Front(p), NEW s, s = <<T11!Last(p)>> \o q
  PROVE  /\ OncePooled(r, s) /\ \A d : Pooled(p, q, d) => Pooled(r, s, d)
         /\ s # <<>> /\ s[1] = T11!Last(p) /\ s \in Seq(T11!Disjoints)
         /\ \A i \in DOMAIN r : i \in DOMAIN p /\ r[i] = p[i]
<1> DEFINE k == Len(p)
<1> DEFINE l == Len(q)
<1>1. /\ k \in Nat \ {0} /\ T11!Last(p) = p[k] /\ DOMAIN p = 1 .. k /\ DOMAIN r = 1 .. k - 1
      /\ \A i \in 1 .. k - 1 : r[i] = p[i]
      /\ T11!Last(p) \in T11!Disjoints
  BY FrontAndLast
<1>2. PICK x \in T11!Disjoints : x = T11!Last(p)
  BY <1>1
<1>3. s = <<x>> \o q /\ q \in Seq(T11!Disjoints)
  BY <1>2
<1>4. /\ s \in Seq(T11!Disjoints) /\ s # <<>> /\ DOMAIN s = 1 .. Len(q) + 1
      /\ s[1] = x /\ \A i \in 2 .. Len(q) + 1 : s[i] = q[i - 1]
  BY <1>2, <1>3, InFront
<1>5. /\ s \in Seq(T11!Disjoints) /\ s[1] = x /\ s # <<>>
      /\ DOMAIN s = 1 .. l + 1 /\ \A i \in 2 .. l + 1 : s[i] = q[i - 1]
  BY <1>4
<1>6. l \in Nat /\ DOMAIN q = 1 .. l
  OBVIOUS
<1> HIDE DEF k, l
<1>7. \A i \in DOMAIN s : (i = 1 /\ s[i] = x) \/ (i # 1 /\ i - 1 \in DOMAIN q /\ s[i] = q[i - 1])
  BY <1>5, <1>6
<1>8. \A i \in DOMAIN q : i + 1 \in DOMAIN s /\ s[i + 1] = q[i]
  BY <1>5, <1>6
<1>9. k \in DOMAIN p /\ p[k] = x /\ DOMAIN r = DOMAIN p \ {k} /\ \A i \in DOMAIN r : r[i] = p[i]
  BY <1>1, <1>2
<1>10. 1 \in DOMAIN s /\ s[1] = x
  BY <1>5, <1>6
<1>11. OncePooled(r, s)
  <2>1. \A i, j \in DOMAIN r : r[i] = r[j] => i = j
    BY <1>9 DEF OncePooled
  <2>2. ASSUME NEW i \in DOMAIN s, NEW j \in DOMAIN s, s[i] = s[j] PROVE i = j
    <3>1. i - 1 = j - 1 => i = j
      BY <1>5, <1>6
    <3>2. i # 1 /\ j # 1 => i - 1 = j - 1
      BY <1>7, <2>2 DEF OncePooled
    <3>3. i = 1 <=> j = 1
      BY <1>7, <1>9, <2>2 DEF OncePooled
    <3> QED BY <3>1, <3>2, <3>3
  <2>3. \A i \in DOMAIN r, j \in DOMAIN s : r[i] # s[j]
    BY <1>7, <1>9 DEF OncePooled
  <2> QED BY <2>1, <2>2, <2>3 DEF OncePooled
<1>12. ASSUME NEW d, Pooled(p, q, d) PROVE Pooled(r, s, d)
  <2>1. CASE \E i \in DOMAIN p : p[i] = d
    BY <1>9, <1>10, <2>1 DEF Pooled
  <2>2. CASE \E i \in DOMAIN q : q[i] = d
    BY <1>8, <2>2 DEF Pooled
  <2> QED BY <1>12, <2>1, <2>2 DEF Pooled
<1> QED BY <1>2, <1>5, <1>9, <1>11, <1>12

\* What Begin finds in the pool, each once, none in use by the GPU.
LEMMA UnusedOK ==
  ASSUME TimersOK, T11!BeginFrame
  PROVE  /\ OncePooled(Unused, Left)
         /\ \A d : Pooled(pool, pend, d) => Pooled(Unused, Left, d)
         /\ \A i \in DOMAIN Unused : Unused[i] \in T11!Disjoints /\ Untouched(Unused[i])
<1>1. TimerTypes /\ pool \in Seq(T11!Disjoints) /\ pend \in Seq(T11!Disjoints)
  BY DEF TimersOK, TimerTypes
<1>2. OncePooled(pool, pend) /\ \A i \in DOMAIN pool : Untouched(pool[i])
  BY DEF TimersOK, PlacesOK, PoolOK, FrameOK
<1>3. CASE T11!Ready = {}
  BY <1>1, <1>2, <1>3 DEF Unused, Left
<1>4. CASE T11!Ready # {}
  <2>1. /\ pend # <<>> /\ Untouched(T11!Last(pend)) /\ T11!Last(pend) \in T11!Disjoints
    BY <1>1, <1>4, ReadyIs
  <2>2. PICK r, s : r = Append(pool, T11!Last(pend)) /\ s = T11!Front(pend)
    OBVIOUS
  <2>3. OncePooled(r, s) /\ \A d : Pooled(pool, pend, d) => Pooled(r, s, d)
    BY ONLY <1>1, <1>2, <2>1, <2>2, OldestReturns
  <2>4. Unused = r /\ Left = s
    BY <1>4, <2>2 DEF Unused, Left
  <2>5. \A i \in DOMAIN r : r[i] = T11!Last(pend) \/ (i \in DOMAIN pool /\ r[i] = pool[i])
    BY <1>1, <2>1, <2>2
  <2>6. \A i \in DOMAIN pool : pool[i] \in T11!Disjoints
    BY <1>1
  <2>7. \A i \in DOMAIN r : r[i] \in T11!Disjoints /\ Untouched(r[i])
    BY <1>2, <2>1, <2>5, <2>6
  <2> QED BY <2>3, <2>4, <2>7
<1> QED BY <1>3, <1>4

\* The pairs noted under the oldest query go back to their stacks.
LEMMA PairsReturned ==
  ASSUME TimersOK, T11!BeginFrame
  PROVE  /\ free' \in [Counters -> Seq(T11!PairIds)]
         /\ waiting' \in [Counters -> [T11!Disjoints -> Seq(Waits)]]
         /\ \A c \in Counters : PairsIn(free'[c], waiting'[c], made[c])
         /\ \A c \in Counters \ ready :
               free'[c] = <<>> /\ \A d \in T11!Disjoints : waiting'[c][d] = <<>>
         /\ \A c \in Counters : \A d \in T11!Disjoints :
               waiting'[c][d] = <<>> \/ waiting'[c][d] = waiting[c][d]
<1> USE TimerBounds
<1>1. TimerTypes
  BY DEF TimersOK
<1>2. /\ free \in [Counters -> Seq(T11!PairIds)] /\ made \in [Counters -> 0 .. MaxQueryPairs]
      /\ waiting \in [Counters -> [T11!Disjoints -> Seq(Waits)]]
      /\ live \subseteq Counters
  BY <1>1 DEF TimerTypes
<1>3. \A c \in Counters : PairsIn(free[c], waiting[c], made[c])
  BY DEF TimersOK, PlacesOK, PairOK
<1>4. \A c \in Counters \ ready : free[c] = <<>> /\ \A d \in T11!Disjoints : waiting[c][d] = <<>>
  BY DEF TimersOK, EmptiedOK
<1>5. CASE T11!Ready = {}
  <2>1. free' = free /\ waiting' = waiting
    BY <1>1, <1>5, PairsReturn
  <2> QED BY <1>2, <1>3, <1>4, <2>1
<1>6. CASE T11!Ready # {}
  <2>1. PICK o \in T11!Disjoints : o = T11!Last(pend)
    BY <1>1, <1>6, ReadyIs
  <2>2. /\ \A c \in Counters \ live : free'[c] = free[c] /\ waiting'[c] = waiting[c]
        /\ \A c \in live :
              free'[c] = free[c] \o PairsAt(waiting[c], o) /\ waiting'[c] = Without(waiting[c], o)
        /\ DOMAIN free' = Counters /\ DOMAIN waiting' = Counters
        /\ free' = [c \in Counters |-> free'[c]] /\ waiting' = [c \in Counters |-> waiting'[c]]
    <3>1. /\ \A c \in Counters \ live : free'[c] = free[c] /\ waiting'[c] = waiting[c]
          /\ \A c \in live :
                free'[c] = free[c] \o PairsAt(waiting[c], o) /\ waiting'[c] = Without(waiting[c], o)
          /\ DOMAIN free' = Counters /\ DOMAIN waiting' = Counters
      BY <1>1, <1>6, <2>1, PairsReturn
    <3>2. free' = [c \in Counters |-> free'[c]] /\ waiting' = [c \in Counters |-> waiting'[c]]
      BY DEF T11!BeginFrame
    <3> QED BY ONLY <3>1, <3>2
  <2>3. ASSUME NEW c \in Counters
        PROVE  /\ PairsIn(free'[c], waiting'[c], made[c]) /\ free'[c] \in Seq(T11!PairIds)
               /\ waiting'[c] \in [T11!Disjoints -> Seq(Waits)]
               /\ c \notin ready =>
                     free'[c] = <<>> /\ \A d \in T11!Disjoints : waiting'[c][d] = <<>>
               /\ \A d \in T11!Disjoints :
                     waiting'[c][d] = <<>> \/ waiting'[c][d] = waiting[c][d]
    <3>1. PICK f, w, n : f = free[c] /\ w = waiting[c] /\ n = made[c]
      OBVIOUS
    <3>2. /\ f \in Seq(T11!PairIds) /\ w \in [T11!Disjoints -> Seq(Waits)] /\ n \in Nat
          /\ PairsIn(f, w, n)
      BY <1>2, <1>3, <3>1
    <3>3. CASE c \notin live
      <4>1. free'[c] = f /\ waiting'[c] = w
        BY <2>2, <3>1, <3>3
      <4> QED BY <1>4, <3>1, <3>2, <4>1
    <3>4. CASE c \in live
      <4>1. PICK b : b = PairsAt(w, o)
        OBVIOUS
      <4>2. PICK g : g = f \o PairsAt(w, o)
        OBVIOUS
      <4>3. PICK v : v = Without(w, o)
        OBVIOUS
      <4>4. free'[c] = g
        BY <2>2, <3>1, <3>4, <4>2
      <4>5. waiting'[c] = v
        BY <2>2, <3>1, <3>4, <4>3
      <4>6. PairsIn(g, v, n) /\ g \in Seq(T11!PairIds) /\ v \in [T11!Disjoints -> Seq(Waits)]
        BY ONLY <2>1, <3>2, <4>2, <4>3, PairsBack
      <4>7. \A d \in T11!Disjoints : v[d] = <<>> \/ v[d] = w[d]
        BY <4>3 DEF Without
      <4>8. ASSUME c \notin ready
            PROVE  g = <<>> /\ \A d \in T11!Disjoints : v[d] = <<>>
        <5>1. f = <<>> /\ \A d \in T11!Disjoints : w[d] = <<>>
          BY <1>4, <3>1, <4>8
        <5>2. b \in Seq(T11!PairIds) /\ b = <<>>
          <6>1. DOMAIN w[o] = {}
            BY <5>1
          <6>2. b = [i \in {} |-> w[o][i].pair]
            BY <4>1, <6>1 DEF PairsAt
          <6>3. b = <<>>
            BY ONLY <6>2
          <6> QED BY ONLY <6>3
        <5>3. g = f \o b
          BY <4>1, <4>2
        <5>4. g = <<>>
          BY ONLY <5>1, <5>2, <5>3
        <5> QED BY <4>7, <5>1, <5>4
      <4> QED BY <3>1, <4>4, <4>5, <4>6, <4>7, <4>8
    <3> QED BY <3>3, <3>4
  <2>4. free' \in [Counters -> Seq(T11!PairIds)]
    BY <2>2, <2>3, Zenon
  <2>5. waiting' \in [Counters -> [T11!Disjoints -> Seq(Waits)]]
    BY <2>2, <2>3, Zenon
  <2> QED BY <2>3, <2>4, <2>5
<1> QED BY <1>5, <1>6

LEMMA BeginFrameKeeps ==
  ASSUME TimersOK, T11!BeginFrame PROVE TimersOK'
<1> USE TimerBounds
<1>1. /\ TimerTypes /\ context /\ supported /\ current = T11!None
      /\ UNCHANGED <<context, supported, live, ready, made, open, serial, gpu>>
  BY DEF TimersOK, T11!BeginFrame
<1>2. PICK next : Begins(next)
  BY <1>1, FrameBegins
<1>3. PICK u, l : u = Unused /\ l = Left
  OBVIOUS
<1>4. u \in Seq(T11!Disjoints) /\ l \in Seq(T11!Disjoints)
  BY <1>1, <1>3, UnusedIs
<1>5. /\ OncePooled(u, l)
      /\ \A d \in T11!Disjoints : Pooled(u, l, d)
      /\ \A i \in DOMAIN u : u[i] \in T11!Disjoints /\ Untouched(u[i])
  <2>1. \A d \in T11!Disjoints : Pooled(pool, pend, d)
    BY <1>1 DEF TimersOK, PlacesOK, PoolOK
  <2> QED BY <1>3, <2>1, UnusedOK
<1>6. /\ current' = next
      /\ disjoint' = [c \in Counters |-> IF c \in live THEN next ELSE disjoint[c]]
  BY <1>2 DEF Begins
<1>7. CASE u = <<>> /\ next = T11!None /\ pool' = <<>> /\ pend' = l /\ stamp' = stamp
  <2>1. OncePooled(pool', pend') /\ \A d \in T11!Disjoints : Pooled(pool', pend', d)
    BY <1>5, <1>7
  <2>2. pool' \in Seq(T11!Disjoints) /\ pend' \in Seq(T11!Disjoints)
    BY <1>4, <1>7
  <2>3. stamp' \in [T11!Queries -> Nat]
    BY <1>1, <1>7 DEF TimerTypes
  <2>4. FrameOK'
    <3>1. DOMAIN pool' = {} /\ current' = T11!None
      BY <1>6, <1>7
    <3> QED BY ONLY <3>1 DEF FrameOK
  <2>5. next \in {T11!None} \union T11!Disjoints
    BY <1>7
  <2> QED
    <3>1. disjoint' \in [Counters -> {T11!None} \union T11!Disjoints]
      BY <1>1, <1>6, <2>5, Zenon DEF TimerTypes
    <3>2. TimerTypes'
      BY <1>1, <1>6, <2>2, <2>3, <2>5, <3>1, PairsReturned DEF TimerTypes
    <3>3. \A c \in Counters \ live' : disjoint'[c] = T11!None
      BY <1>1, <1>6 DEF TimersOK, EmptiedOK
    <3>4. \A c \in Counters \ ready' : made'[c] = 0
      BY <1>1 DEF TimersOK, EmptiedOK
    <3>5. EmptiedOK'
      BY <1>1, <3>3, <3>4, PairsReturned DEF EmptiedOK
    <3>6. PlacesOK'
      BY <1>1, <2>1, PairsReturned DEF PlacesOK, PoolOK, PairOK
    <3> QED BY <2>4, <3>2, <3>5, <3>6 DEF TimersOK
<1>8. CASE /\ u # <<>> /\ next = T11!Last(u) /\ next \in T11!Disjoints
           /\ pool' = T11!Front(u) /\ pend' = <<next>> \o l
           /\ stamp' = [stamp EXCEPT ![T11!FrameQuery(next)] = 0]
  <2>1. PICK r, s : r = T11!Front(u) /\ s = <<T11!Last(u)>> \o l
    OBVIOUS
  <2>2. pool' = r /\ pend' = s
    BY <1>8, <2>1
  <2>3. /\ OncePooled(r, s) /\ \A d : Pooled(u, l, d) => Pooled(r, s, d)
        /\ s # <<>> /\ s[1] = T11!Last(u) /\ s \in Seq(T11!Disjoints)
        /\ \A i \in DOMAIN r : i \in DOMAIN u /\ r[i] = u[i]
    BY ONLY <1>4, <1>5, <1>8, <2>1, NextTaken
  <2>4. OncePooled(pool', pend') /\ \A d \in T11!Disjoints : Pooled(pool', pend', d)
    BY <1>5, <2>2, <2>3
  <2>5. pool' \in Seq(T11!Disjoints) /\ pend' \in Seq(T11!Disjoints)
    BY <1>4, <1>8, <2>1, <2>2, <2>3, FrontAndLast
  <2>6. PICK q : q = T11!FrameQuery(next)
    OBVIOUS
  <2>7. q \in T11!Queries /\ stamp \in [T11!Queries -> Nat]
    BY <1>1, <1>8, <2>6, QueriesAre DEF TimerTypes
  <2>8. stamp' = [stamp EXCEPT ![q] = 0]
    BY <1>8, <2>6
  <2>9. stamp' \in [T11!Queries -> Nat] /\ stamp'[q] = 0
    BY ONLY <2>7, <2>8
  <2>10. Untouched(next)
    <3>1. Len(u) \in DOMAIN u /\ next = u[Len(u)]
      <4>1. u # <<>> /\ next = T11!Last(u)
        BY <1>8
      <4>2. Len(u) \in Nat \ {0} /\ T11!Last(u) = u[Len(u)] /\ DOMAIN u = 1 .. Len(u)
        BY <1>4, <4>1, FrontAndLast
      <4>3. Len(u) \in 1 .. Len(u)
        BY <4>2
      <4> QED BY ONLY <4>1, <4>2, <4>3
    <3>2. PICK k \in DOMAIN u : next = u[k]
      BY <3>1
    <3>3. Untouched(u[k])
      BY <1>5
    <3> QED BY ONLY <3>2, <3>3
  <2>11. disjoint' \in [Counters -> {T11!None} \union T11!Disjoints]
    BY <1>1, <1>6, <1>8, Zenon DEF TimerTypes
  <2>12. \A c \in Counters \ live : disjoint[c] = T11!None
    BY DEF TimersOK, EmptiedOK
  <2>13. \A c \in Counters : disjoint'[c] \in {T11!None, next}
    BY <1>6, <2>12
  <2>14. \A d : Untouched(d)' <=> Untouched(d)
    BY <1>1, UntouchedSame
  <2>15. FrameOK'
    <3>1. \A i \in DOMAIN r : Untouched(r[i])'
      BY <1>5, <2>3, <2>14
    <3>2. s # <<>> /\ s[1] = next
      BY <1>8, <2>3
    <3>3. Untouched(next)' /\ stamp'[T11!FrameQuery(next)] = 0
      BY <2>6, <2>9, <2>10, <2>14
    <3> QED BY ONLY <1>6, <2>2, <2>13, <3>1, <3>2, <3>3 DEF FrameOK, Untouched
  <2>16. TimerTypes'
    BY <1>1, <1>6, <1>8, <2>5, <2>9, <2>11, PairsReturned DEF TimerTypes
  <2>17. \A c \in Counters \ live' : disjoint'[c] = T11!None
    BY <1>1, <1>6, <2>12
  <2>18. \A c \in Counters \ ready' : made'[c] = 0
    BY <1>1 DEF TimersOK, EmptiedOK
  <2>19. EmptiedOK'
    BY <1>1, <2>17, <2>18, PairsReturned DEF EmptiedOK
  <2>20. PlacesOK'
    BY <1>1, <2>4, PairsReturned DEF PlacesOK, PoolOK, PairOK
  <2> QED BY <2>15, <2>16, <2>19, <2>20 DEF TimersOK
<1> QED BY <1>2, <1>3, <1>7, <1>8 DEF Begins

-----------------------------------------------------------------------------
(* Places, at every step.                                                  *)

LEMMA TimersSame ==
  ASSUME TimersOK, UNCHANGED vars11 PROVE TimersOK'
<1>1. UNCHANGED <<context, supported, pool, pend, current, live, ready, disjoint, free,
                  made, waiting, open, serial, gpu, stamp>>
  BY DEF vars11
<1>2. TimerTypes' /\ EmptiedOK' /\ FrameOK'
  BY <1>1 DEF TimersOK, TimerTypes, EmptiedOK, FrameOK, Untouched
<1>3. PlacesOK'
  BY <1>1, PoolSame, PairsSame DEF TimersOK, PlacesOK
<1> QED BY <1>2, <1>3 DEF TimersOK

LEMMA TimersStart == ASSUME T11!Init PROVE TimersOK
<1> USE TimerBounds
<1>1. /\ context = TRUE /\ supported = TRUE
      /\ pool = [d \in T11!Disjoints |-> d] /\ pend = <<>> /\ current = T11!None
      /\ live = {} /\ ready = {}
      /\ disjoint = [c \in Counters |-> T11!None]
      /\ free = [c \in Counters |-> <<>>]
      /\ made = [c \in Counters |-> 0]
      /\ waiting = [c \in Counters |-> [d \in T11!Disjoints |-> <<>>]]
      /\ open = {} /\ serial = 0
      /\ gpu = <<>> /\ stamp = [q \in T11!Queries |-> 0]
  BY DEF T11!Init
<1>2. \A c \in Counters : /\ free[c] = <<>> /\ made[c] = 0 /\ disjoint[c] = T11!None
                          /\ \A d \in T11!Disjoints : waiting[c][d] = <<>>
  BY <1>1
<1>3. /\ pool \in Seq(T11!Disjoints) /\ DOMAIN pool = T11!Disjoints
      /\ \A i \in T11!Disjoints : pool[i] = i
  <2>1. pool \in [1 .. BufferSize -> T11!Disjoints]
    BY <1>1
  <2> QED BY <1>1, <2>1
<1>4. TimerTypes
  <2>1. <<>> \in Seq(T11!PairIds) /\ <<>> \in Seq(Waits)
    OBVIOUS
  <2>2. free \in [Counters -> Seq(T11!PairIds)]
    BY <1>1, <2>1, Zenon
  <2>3. waiting \in [Counters -> [T11!Disjoints -> Seq(Waits)]]
    BY <1>1, <2>1, Zenon
  <2>4. made \in [Counters -> 0 .. MaxQueryPairs]
    BY <1>1
  <2>5. /\ stamp \in [T11!Queries -> Nat]
        /\ disjoint \in [Counters -> {T11!None} \union T11!Disjoints]
    BY <1>1
  <2>6. pend \in Seq(T11!Disjoints) /\ gpu \in Seq(Commands11)
    BY <1>1
  <2> QED BY <1>1, <1>3, <2>2, <2>3, <2>4, <2>5, <2>6 DEF TimerTypes
<1>5. EmptiedOK
  BY <1>1, <1>2 DEF EmptiedOK
<1>6. PlacesOK
  <2>1. DOMAIN pend = {}
    BY <1>1
  <2>2. PoolOK
    BY <1>3, <2>1 DEF PoolOK, OncePooled, Pooled
  <2>3. ASSUME NEW c \in Counters PROVE PairOK(c)
    <3>1. PairsIn(<<>>, waiting[c], 0)
      BY <1>2, PairsEmpty
    <3> QED BY <1>2, <3>1 DEF PairOK
  <2> QED BY <2>2, <2>3 DEF PlacesOK
<1>7. FrameOK
  <2>1. DOMAIN gpu = {}
    BY <1>1
  <2> QED BY <1>1, <2>1 DEF FrameOK, Untouched
<1> QED BY <1>4, <1>5, <1>6, <1>7 DEF TimersOK

LEMMA TimersStep == ASSUME TimersOK, T11!Next PROVE TimersOK'
<1>1. CASE \E c \in Counters : T11!CreateCounter(c)
  BY <1>1, CreateCounterKeeps
<1>2. CASE \E c \in Counters : T11!DestroyCounter(c)
  BY <1>2, DestroyCounterKeeps
<1>3. CASE \E c \in Counters : T11!BeginScope(c)
  BY <1>3, BeginScopeKeeps
<1>4. CASE \E c \in Counters : T11!CreateQueryFails(c)
  BY <1>4, CreateQueryFailsKeeps
<1>5. CASE \E o \in open : T11!EndScope(o)
  BY <1>5, EndScopeKeeps
<1>6. CASE T11!PlainFrame
  <2>1. UNCHANGED vars11
    BY <1>6 DEF T11!PlainFrame, T11!vars, T11!poolVars, T11!counterVars, T11!gpuVars, vars11
  <2> QED BY <2>1, TimersSame
<1> QED BY <1>1, <1>2, <1>3, <1>4, <1>5, <1>6, BeginFrameKeeps, EndFrameKeeps,
           DeviceResetKeeps, InitFromDeviceKeeps, ExecuteKeeps DEF T11!Next

\* What the invariant says of places is what the property says.
LEMMA InOnePlace == ASSUME TimersOK PROVE T11!QueriesAreInOnePlace
<1> USE TimerBounds
<1>1. /\ pool \in Seq(T11!Disjoints) /\ pend \in Seq(T11!Disjoints) /\ live \subseteq Counters
      /\ OncePooled(pool, pend)
      /\ supported /\ context => \A d \in T11!Disjoints : Pooled(pool, pend, d)
  BY DEF TimersOK, TimerTypes, PlacesOK, PoolOK
<1>2. PICK n, m, q : n = Len(pool) /\ m = Len(pend) /\ q = pool \o pend
  OBVIOUS
<1>3. /\ n \in Nat /\ m \in Nat /\ DOMAIN pool = 1 .. n /\ DOMAIN pend = 1 .. m
      /\ DOMAIN q = 1 .. n + m
      /\ \A i \in 1 .. n : q[i] = pool[i]
      /\ \A i \in 1 .. m : q[n + i] = pend[i]
  <2> DEFINE D == T11!Disjoints
  <2>1. pool \in Seq(D) /\ pend \in Seq(D)
    BY <1>1
  <2> HIDE DEF D
  <2> QED BY ONLY <2>1, <1>2
<1>4. \A i \in DOMAIN q : \/ i \in DOMAIN pool /\ q[i] = pool[i]
                          \/ i \notin DOMAIN pool /\ i - n \in DOMAIN pend /\ q[i] = pend[i - n]
  <2> SUFFICES ASSUME NEW i \in DOMAIN q, i \notin DOMAIN pool
               PROVE  i - n \in DOMAIN pend /\ q[i] = pend[i - n]
    BY <1>3
  <2>1. i - n \in 1 .. m /\ n + (i - n) = i
    BY <1>3
  <2> QED BY <1>3, <2>1
<1>5. ASSUME NEW i \in DOMAIN q, NEW j \in DOMAIN q, q[i] = q[j] PROVE i = j
  <2>1. i \in DOMAIN pool /\ j \in DOMAIN pool => i = j
    BY <1>1, <1>4, <1>5 DEF OncePooled
  <2>2. ASSUME i \notin DOMAIN pool, j \notin DOMAIN pool PROVE i - n = j - n
    <3>1. PICK x \in DOMAIN pend, y \in DOMAIN pend : x = i - n /\ y = j - n /\ pend[x] = pend[y]
      BY <1>4, <1>5, <2>2
    <3> QED BY <1>1, <3>1 DEF OncePooled
  <2>3. ~(i \in DOMAIN pool /\ j \notin DOMAIN pool)
    BY <1>1, <1>4, <1>5 DEF OncePooled
  <2>4. ~(j \in DOMAIN pool /\ i \notin DOMAIN pool)
    BY <1>1, <1>4, <1>5 DEF OncePooled
  <2>5. i - n = j - n => i = j
    BY <1>3
  <2> QED BY <2>1, <2>2, <2>3, <2>4, <2>5
<1>6. T11!IsInjective(pool \o pend)
  BY <1>2, <1>5 DEF T11!IsInjective
<1>7. ASSUME supported /\ context PROVE T11!Range(pool \o pend) = T11!Disjoints
  <2>1. ASSUME NEW d \in T11!Disjoints PROVE \E i \in DOMAIN q : q[i] = d
    <3>1. Pooled(pool, pend, d)
      BY <1>1, <1>7
    <3>2. CASE \E i \in DOMAIN pool : pool[i] = d
      BY <1>3, <3>2
    <3>3. CASE \E i \in DOMAIN pend : pend[i] = d
      <4>1. PICK i \in DOMAIN pend : pend[i] = d
        BY <3>3
      <4>2. n + i \in DOMAIN q /\ q[n + i] = d
        BY <1>3, <4>1
      <4> QED BY <4>2
    <3> QED BY <3>1, <3>2, <3>3 DEF Pooled
  <2>2. \A i \in DOMAIN q : q[i] \in T11!Disjoints
    <3>1. \A i \in DOMAIN pool : pool[i] \in T11!Disjoints
      BY <1>1
    <3>2. \A i \in DOMAIN pend : pend[i] \in T11!Disjoints
      BY <1>1
    <3> QED BY <1>4, <3>1, <3>2
  <2>3. {q[i] : i \in DOMAIN q} = T11!Disjoints
    BY <2>1, <2>2
  <2> QED BY <1>2, <2>3 DEF T11!Range
<1>8. ASSUME NEW c \in live
      PROVE  LET stacks == [d \in {T11!None} \union T11!Disjoints |->
                              IF d = T11!None THEN free[c] ELSE T11!PairsOf(c, d)]
             IN /\ UNION {T11!Range(stacks[d]) : d \in DOMAIN stacks} = 1 .. made[c]
                /\ \A d, e \in DOMAIN stacks :
                     \A i \in DOMAIN stacks[d], j \in DOMAIN stacks[e] :
                        stacks[d][i] = stacks[e][j] => d = e /\ i = j
  <2> DEFINE stacks == [d \in {T11!None} \union T11!Disjoints |->
                          IF d = T11!None THEN free[c] ELSE T11!PairsOf(c, d)]
  <2>1. PICK f, w, k : f = free[c] /\ w = waiting[c] /\ k = made[c]
    OBVIOUS
  <2>2. PairsIn(f, w, k)
    BY <1>1, <2>1 DEF TimersOK, PlacesOK, PairOK
  <2>3. \A d \in T11!Disjoints : d # T11!None
    OBVIOUS
  <2>4. /\ DOMAIN stacks = {T11!None} \union T11!Disjoints
        /\ stacks[T11!None] = f
        /\ \A d \in T11!Disjoints : stacks[d] = PairsAt(w, d)
    BY <2>1, <2>3, Zenon DEF T11!PairsOf, PairsAt
  <2>5. \A d \in T11!Disjoints : /\ DOMAIN stacks[d] = DOMAIN w[d]
                                 /\ \A i \in DOMAIN w[d] : stacks[d][i] = w[d][i].pair
    <3>1. \A d \in T11!Disjoints : /\ DOMAIN PairsAt(w, d) = DOMAIN w[d]
                                   /\ \A i \in DOMAIN w[d] : PairsAt(w, d)[i] = w[d][i].pair
      BY DEF PairsAt
    <3> HIDE DEF stacks
    <3> QED BY <2>4, <3>1
  <2> HIDE DEF stacks
  <2>6. ASSUME NEW d \in DOMAIN stacks, NEW e \in DOMAIN stacks,
               NEW i \in DOMAIN stacks[d], NEW j \in DOMAIN stacks[e],
               stacks[d][i] = stacks[e][j]
        PROVE  d = e /\ i = j
    <3>1. CASE d = T11!None /\ e = T11!None
      BY <2>2, <2>4, <2>6, <3>1 DEF PairsIn
    <3>2. CASE d = T11!None /\ e # T11!None
      <4>1. e \in T11!Disjoints /\ j \in DOMAIN w[e] /\ stacks[e][j] = w[e][j].pair
        BY <2>4, <2>5, <3>2
      <4>2. i \in DOMAIN f /\ f[i] = w[e][j].pair
        BY <2>4, <2>6, <3>2, <4>1
      <4> QED BY <2>2, <4>1, <4>2 DEF PairsIn
    <3>3. CASE d # T11!None /\ e = T11!None
      <4>1. d \in T11!Disjoints /\ i \in DOMAIN w[d] /\ stacks[d][i] = w[d][i].pair
        BY <2>4, <2>5, <3>3
      <4>2. j \in DOMAIN f /\ f[j] = w[d][i].pair
        BY <2>4, <2>6, <3>3, <4>1
      <4> QED BY <2>2, <4>1, <4>2 DEF PairsIn
    <3>4. CASE d # T11!None /\ e # T11!None
      <4>1. /\ d \in T11!Disjoints /\ i \in DOMAIN w[d] /\ stacks[d][i] = w[d][i].pair
            /\ e \in T11!Disjoints /\ j \in DOMAIN w[e] /\ stacks[e][j] = w[e][j].pair
        BY <2>4, <2>5, <3>4
      <4>2. w[d][i].pair = w[e][j].pair
        BY <2>6, <4>1
      <4> QED BY ONLY <2>2, <4>1, <4>2 DEF PairsIn
    <3> QED BY <3>1, <3>2, <3>3, <3>4
  <2>7. UNION {T11!Range(stacks[d]) : d \in DOMAIN stacks} = 1 .. k
    <3>1. ASSUME NEW p \in 1 .. k
          PROVE  \E d \in DOMAIN stacks : \E i \in DOMAIN stacks[d] : stacks[d][i] = p
      <4>1. CASE \E i \in DOMAIN f : f[i] = p
        BY <2>4, <4>1
      <4>2. CASE \E d \in T11!Disjoints : \E j \in DOMAIN w[d] : w[d][j].pair = p
        BY <2>4, <2>5, <4>2
      <4> QED BY <2>2, <4>1, <4>2 DEF PairsIn
    <3>2. ASSUME NEW d \in DOMAIN stacks, NEW i \in DOMAIN stacks[d]
          PROVE  stacks[d][i] \in 1 .. k
      <4>1. CASE d = T11!None
        BY <2>2, <2>4, <4>1 DEF PairsIn
      <4>2. CASE d # T11!None
        <5>1. d \in T11!Disjoints /\ i \in DOMAIN w[d] /\ stacks[d][i] = w[d][i].pair
          BY <2>4, <2>5, <4>2
        <5> QED BY <2>2, <5>1 DEF PairsIn
      <4> QED BY <4>1, <4>2
    <3> QED BY <3>1, <3>2 DEF T11!Range
  <2> QED BY <2>1, <2>6, <2>7 DEF stacks
<1> QED BY <1>6, <1>7, <1>8 DEF T11!QueriesAreInOnePlace

-----------------------------------------------------------------------------
(* What the queries carry, where no scope outlives its frame.              *)

\* Another command decides what its own query carries, and no other.
LEMMA CarriesAppend ==
  ASSUME NEW g \in Seq(Commands11), NEW x \in Commands11, NEW h, h = Append(g, x), NEW st
  PROVE  /\ Carries(h, st, x.query, x.by)
         /\ \A q, v : Carries(g, st, q, v) /\ x.query # q => Carries(h, st, q, v)
<1> DEFINE n == Len(g) + 1
<1>1. /\ n \in Nat /\ DOMAIN g = 1 .. n - 1 /\ DOMAIN h = 1 .. n /\ h[n] = x
      /\ \A i \in 1 .. n - 1 : h[i] = g[i]
  OBVIOUS
<1> HIDE DEF n
<1>2. Carries(h, st, x.query, x.by)
  <2>1. n \in DOMAIN h /\ \A j \in DOMAIN h : ~(j > n)
    BY <1>1
  <2> QED BY <1>1, <2>1 DEF Carries
<1>3. ASSUME NEW q, NEW v, Carries(g, st, q, v), x.query # q PROVE Carries(h, st, q, v)
  <2>1. \A j \in DOMAIN h : (j \in DOMAIN g /\ h[j] = g[j]) \/ h[j] = x
    BY <1>1
  <2>2. \A j \in DOMAIN g : j \in DOMAIN h /\ h[j] = g[j]
    BY <1>1
  <2>3. CASE \E i \in DOMAIN g : /\ g[i].query = q /\ g[i].by = v
                                 /\ \A j \in DOMAIN g : j > i => g[j].query # q
    <3>1. PICK i \in DOMAIN g : /\ g[i].query = q /\ g[i].by = v
                                /\ \A j \in DOMAIN g : j > i => g[j].query # q
      BY <2>3
    <3>2. i \in DOMAIN h /\ h[i].query = q /\ h[i].by = v
      BY <2>2, <3>1
    <3>3. \A j \in DOMAIN h : j > i => h[j].query # q
      BY <1>3, <2>1, <3>1
    <3> QED BY <3>2, <3>3 DEF Carries
  <2>4. CASE st[q] = v /\ \A j \in DOMAIN g : g[j].query # q
    <3>1. \A j \in DOMAIN h : h[j].query # q
      BY <1>3, <2>1, <2>4
    <3> QED BY <2>4, <3>1 DEF Carries
  <2> QED BY <1>3, <2>3, <2>4 DEF Carries
<1> QED BY <1>2, <1>3

\* The GPU executes what decides.
LEMMA CarriesTail ==
  ASSUME NEW g \in Seq(Commands11), g # <<>>, NEW h, h = Tail(g), NEW x, x = Head(g),
         NEW st, NEW su, NEW q, q = x.query => su[q] = x.by, q # x.query => su[q] = st[q],
         NEW v, Carries(g, st, q, v)
  PROVE  Carries(h, su, q, v)
<1> DEFINE n == Len(g)
<1>1. /\ n \in Nat \ {0} /\ DOMAIN g = 1 .. n /\ DOMAIN h = 1 .. n - 1 /\ g[1] = x
      /\ \A i \in 1 .. n - 1 : h[i] = g[i + 1]
  OBVIOUS
<1>2. (q = x.query => su[q] = x.by) /\ (q # x.query => su[q] = st[q])
  OBVIOUS
<1> HIDE DEF n
<1>3. \A j \in DOMAIN h : j + 1 \in DOMAIN g /\ h[j] = g[j + 1] /\ j + 1 > 1
  BY <1>1
<1>4. CASE st[q] = v /\ \A j \in DOMAIN g : g[j].query # q
  <2>1. 1 \in DOMAIN g
    BY <1>1
  <2>2. q # x.query
    BY <1>1, <1>4, <2>1
  <2>3. \A j \in DOMAIN h : h[j].query # q
    BY <1>3, <1>4
  <2> QED BY <1>2, <1>4, <2>2, <2>3 DEF Carries
<1>5. CASE \E i \in DOMAIN g : /\ g[i].query = q /\ g[i].by = v
                               /\ \A j \in DOMAIN g : j > i => g[j].query # q
  <2>1. PICK i \in DOMAIN g : /\ g[i].query = q /\ g[i].by = v
                              /\ \A j \in DOMAIN g : j > i => g[j].query # q
    BY <1>5
  <2>2. CASE i = 1
    <3>1. \A j \in DOMAIN h : h[j].query # q
      BY <1>3, <2>1, <2>2
    <3>2. su[q] = v
      BY <1>1, <1>2, <2>1, <2>2
    <3> QED BY <3>1, <3>2 DEF Carries
  <2>3. CASE i # 1
    <3>1. i - 1 \in DOMAIN h /\ h[i - 1] = g[i]
      <4>1. i \in 1 .. n
        BY <1>1
      <4>2. i - 1 \in 1 .. n - 1 /\ (i - 1) + 1 = i
        BY <1>1, <2>3, <4>1
      <4> QED BY <1>1, <4>2
    <3>2. \A j \in DOMAIN h : j > i - 1 => h[j].query # q
      <4> SUFFICES ASSUME NEW j \in DOMAIN h, j > i - 1 PROVE h[j].query # q
        OBVIOUS
      <4>1. j + 1 > i
        BY <1>1
      <4> QED BY <1>3, <2>1, <4>1
    <3>3. h[i - 1].query = q /\ h[i - 1].by = v
      BY <2>1, <3>1
    <3> QED BY <3>1, <3>2, <3>3 DEF Carries
  <2> QED BY <2>2, <2>3
<1> QED BY <1>4, <1>5 DEF Carries

\* A sample that is noted, with the queries of its pair.
LEMMA NotedIs ==
  ASSUME TimersOK, NEW c \in Counters, NEW d \in T11!Disjoints, NEW i \in DOMAIN waiting[c][d]
  PROVE  /\ waiting[c][d][i] \in Waits /\ waiting[c][d][i].pair \in T11!PairIds /\ c \in ready
         /\ <<c, waiting[c][d][i].pair, "begin">> \in T11!Queries
         /\ <<c, waiting[c][d][i].pair, "end">> \in T11!Queries
<1>1. waiting[c][d] \in Seq(Waits)
  BY DEF TimersOK, TimerTypes
<1>2. waiting[c][d][i] \in Waits
  BY <1>1
<1>3. waiting[c][d][i].pair \in T11!PairIds
  BY <1>2 DEF Waits
<1>4. c \in ready
  <2>1. waiting[c][d] # <<>>
    OBVIOUS
  <2> QED BY <2>1 DEF TimersOK, EmptiedOK
<1> QED BY <1>2, <1>3, <1>4, QueriesAre DEF Parts

\* What is said of one sample.
StampOK(c, p, v) ==
    /\ Carries(gpu, stamp, <<c, p, "begin">>, v)
    /\ Held11(c, p) \/ Carries(gpu, stamp, <<c, p, "end">>, v)

\* A step after which fewer are noted and no query of a pair has been touched.
LEMMA FewerNoted ==
  ASSUME TimersOK, ScopesInFrame,
         \A c \in Counters : \A d \in T11!Disjoints :
            waiting'[c][d] = <<>> \/ waiting'[c][d] = waiting[c][d],
         \A c \in Counters : \A d \in T11!Disjoints : \A i \in DOMAIN waiting[c][d] :
            waiting'[c][d] # <<>> /\ StampOK(c, waiting[c][d][i].pair, waiting[c][d][i].serial)
               => StampOK(c, waiting[c][d][i].pair, waiting[c][d][i].serial)'
  PROVE  StampsOK'
<1> SUFFICES ASSUME NEW c \in Counters, NEW d \in T11!Disjoints, NEW i \in DOMAIN waiting'[c][d]
             PROVE  StampOK(c, waiting[c][d][i].pair, waiting[c][d][i].serial)'
  BY DEF StampsOK, StampOK
<1>1. waiting'[c][d] # <<>> /\ waiting'[c][d] = waiting[c][d] /\ i \in DOMAIN waiting[c][d]
  OBVIOUS
<1>2. PICK p, v : p = waiting[c][d][i].pair /\ v = waiting[c][d][i].serial
  OBVIOUS
<1>3. StampOK(c, p, v)
  BY <1>1, <1>2 DEF ScopesInFrame, StampsOK, StampOK
<1>4. StampOK(c, p, v)'
  BY <1>1, <1>2, <1>3
<1> QED BY <1>1, <1>2, <1>4


\* Neither the GPU nor a scope moves.
LEMMA StampSame ==
  ASSUME gpu' = gpu, stamp' = stamp, open' = open,
         NEW c, NEW p, NEW v, StampOK(c, p, v)
  PROVE  StampOK(c, p, v)'
BY DEF StampOK, Carries, Held11

\* A command for another query.
LEMMA StampAppended ==
  ASSUME TimersOK, NEW y \in Commands11, gpu' = Append(gpu, y), stamp' = stamp,
         NEW c, NEW p, NEW v, StampOK(c, p, v),
         y.query # <<c, p, "begin">>, y.query # <<c, p, "end">>,
         Held11(c, p) => Held11(c, p)'
  PROVE  StampOK(c, p, v)'
<1>1. gpu \in Seq(Commands11)
  BY DEF TimersOK, TimerTypes
<1>2. \A q, u : Carries(gpu, stamp, q, u) /\ y.query # q => Carries(gpu', stamp, q, u)
  BY <1>1, CarriesAppend
<1>3. \A q, u : Carries(gpu, stamp, q, u) /\ y.query # q => Carries(gpu, stamp, q, u)'
  BY <1>2 DEF Carries
<1>4. Carries(gpu, stamp, <<c, p, "begin">>, v)'
  BY <1>3 DEF StampOK
<1>5. Held11(c, p)' \/ Carries(gpu, stamp, <<c, p, "end">>, v)'
  BY <1>3 DEF StampOK
<1> QED BY <1>4, <1>5 DEF StampOK

LEMMA CreateCounterScopes ==
  ASSUME TimersOK, ScopesInFrame, NEW c \in Counters, T11!CreateCounter(c)
  PROVE  ScopesInFrame'
<1>1. /\ c \notin live /\ live' = live \union {c} /\ ready' = ready \union {c}
      /\ UNCHANGED <<current, waiting, open, gpu, stamp>>
  BY DEF T11!CreateCounter, T11!poolVars, T11!gpuVars
<1>2. OpenOK'
  BY <1>1 DEF ScopesInFrame, OpenOK
<1>3. StampsOK'
  BY <1>1, FewerNoted, StampSame
<1> QED BY <1>2, <1>3 DEF ScopesInFrame

\* Of the counters that are reset nothing is noted any more.
LEMMA ResetScopes ==
  ASSUME TimersOK, ScopesInFrame, NEW cs \in SUBSET Counters, T11!ResetCounters(cs)
  PROVE  \A c \in Counters : \A d \in T11!Disjoints :
            waiting'[c][d] = <<>> \/ waiting'[c][d] = waiting[c][d]
<1>1. TimerTypes
  BY DEF TimersOK
<1> QED BY <1>1, ResetIs

LEMMA DestroyCounterScopes ==
  ASSUME TimersOK, ScopesInFrame, NEW c \in Counters, T11!DestroyCounter(c)
  PROVE  ScopesInFrame'
<1>1. /\ \A o \in open : o.counter # c
      /\ live' = live \ {c} /\ T11!ResetCounters({c})
      /\ UNCHANGED <<current, open, gpu, stamp>>
  BY DEF T11!DestroyCounter, T11!poolVars, T11!gpuVars
<1>2. /\ ready' = ready \ {c} /\ \A b \in Counters \ {c} : waiting'[b] = waiting[b]
  <2>1. TimerTypes /\ {c} \in SUBSET Counters
    BY DEF TimersOK
  <2> QED BY <1>1, <2>1, ResetIs
<1>3. OpenOK'
  <2>1. \A o \in open : o.counter \in Counters
    BY DEF TimersOK, TimerTypes
  <2> QED BY <1>1, <1>2, <2>1 DEF ScopesInFrame, OpenOK
<1>4. StampsOK'
  <2>1. \A b \in Counters : \A d \in T11!Disjoints :
            waiting'[b][d] = <<>> \/ waiting'[b][d] = waiting[b][d]
    BY <1>1, ResetScopes
  <2> QED BY <1>1, <2>1, FewerNoted, StampSame
<1> QED BY <1>3, <1>4 DEF ScopesInFrame

LEMMA CreateQueryFailsScopes ==
  ASSUME TimersOK, ScopesInFrame, NEW c \in Counters, T11!CreateQueryFails(c)
  PROVE  ScopesInFrame'
<1>1. T11!ResetCounters({c}) /\ UNCHANGED <<current, live, open, gpu, stamp>>
  BY DEF T11!CreateQueryFails, T11!poolVars, T11!gpuVars
<1>2. /\ ready' = ready \ {c} /\ \A b \in Counters \ {c} : waiting'[b] = waiting[b]
  <2>1. TimerTypes /\ {c} \in SUBSET Counters
    BY DEF TimersOK
  <2> QED BY <1>1, <2>1, ResetIs
<1>3. OpenOK'
  <2>1. \A o \in open : o.counter \in Counters
    BY DEF TimersOK, TimerTypes
  <2> QED BY <1>1, <1>2, <2>1 DEF ScopesInFrame, OpenOK
<1>4. StampsOK'
  <2>1. \A b \in Counters : \A d \in T11!Disjoints :
            waiting'[b][d] = <<>> \/ waiting'[b][d] = waiting[b][d]
    BY <1>1, ResetScopes
  <2> QED BY <1>1, <2>1, FewerNoted, StampSame
<1> QED BY <1>3, <1>4 DEF ScopesInFrame

\* With no scope open there is nothing to say of the scopes.
LEMMA NoneOpen ==
  ASSUME open' = {} PROVE OpenOK'
BY DEF OpenOK

LEMMA DeviceResetScopes ==
  ASSUME TimersOK, ScopesInFrame, T11!DeviceReset PROVE ScopesInFrame'
<1>1. open = {} /\ open' = open /\ T11!ResetCounters(live)
  BY DEF T11!DeviceReset
<1>2. \A c \in Counters : \A d \in T11!Disjoints : waiting'[c][d] = <<>>
  <2>1. TimerTypes /\ live \in SUBSET Counters /\ ready \subseteq live
    BY DEF TimersOK, TimerTypes
  <2>2. \A c \in live : \A d \in T11!Disjoints : waiting'[c][d] = <<>>
    BY <1>1, <2>1, ResetIs
  <2>3. \A c \in Counters \ live : waiting'[c] = waiting[c]
    BY <1>1, <2>1, ResetIs
  <2>4. \A c \in Counters \ live : \A d \in T11!Disjoints : waiting[c][d] = <<>>
    BY <2>1 DEF TimersOK, EmptiedOK
  <2> QED BY <2>2, <2>3, <2>4
<1>3. StampsOK'
  BY <1>2, FewerNoted
<1> QED BY <1>1, <1>3, NoneOpen DEF ScopesInFrame

LEMMA InitFromDeviceScopes ==
  ASSUME TimersOK, ScopesInFrame, T11!InitFromDevice PROVE ScopesInFrame'
<1>1. ~context /\ UNCHANGED <<waiting, open, gpu, stamp>>
  BY DEF T11!InitFromDevice, T11!gpuVars
<1>2. open = {}
  BY <1>1 DEF TimersOK, EmptiedOK
<1>3. StampsOK'
  BY <1>1, FewerNoted, StampSame
<1> QED BY <1>1, <1>2, <1>3, NoneOpen DEF ScopesInFrame

LEMMA ScopesSame ==
  ASSUME TimersOK, ScopesInFrame, UNCHANGED vars11 PROVE ScopesInFrame'
<1>1. UNCHANGED <<current, live, ready, waiting, open, gpu, stamp>>
  BY DEF vars11
<1>2. OpenOK'
  BY <1>1 DEF ScopesInFrame, OpenOK
<1>3. StampsOK'
  BY <1>1, FewerNoted, StampSame
<1> QED BY <1>2, <1>3 DEF ScopesInFrame

LEMMA EndFrameScopes ==
  ASSUME TimersOK, ScopesInFrame, ~Late, T11!EndFrame PROVE ScopesInFrame'
<1>1. TimerTypes
  BY DEF TimersOK
<1>2. PICK y : y = [query |-> T11!FrameQuery(current), by |-> 1]
  OBVIOUS
<1>3. /\ current # T11!None /\ gpu' = Append(gpu, y) /\ open = {}
      /\ UNCHANGED <<waiting, open, stamp>>
  BY <1>2 DEF T11!EndFrame, T11!Issue, T11!counterVars
<1>4. current \in T11!Disjoints
  BY <1>1, <1>3 DEF TimerTypes
<1>5. y \in Commands11 /\ y.query = T11!FrameQuery(current)
  <2>1. T11!FrameQuery(current) \in T11!Queries
    BY <1>4, QueriesAre
  <2> QED BY <1>2, <2>1 DEF Commands11
<1>6. \A c, p : y.query # <<c, p, "begin">> /\ y.query # <<c, p, "end">>
  BY <1>4, <1>5, QueriesAre DEF Parts
<1>7. \A c, p : Held11(c, p) => Held11(c, p)'
  BY <1>3 DEF Held11
<1>8. \A c, p, v : StampOK(c, p, v) => StampOK(c, p, v)'
  BY <1>3, <1>5, <1>6, <1>7, StampAppended
<1>9. StampsOK'
  BY <1>3, <1>8, FewerNoted
<1> QED BY <1>3, <1>9, NoneOpen DEF ScopesInFrame

\* Begin clears no query but that of the frame.
LEMMA BeginFrameScopes ==
  ASSUME TimersOK, ScopesInFrame, ~Late, T11!BeginFrame PROVE ScopesInFrame'
<1>1. TimerTypes
  BY DEF TimersOK
<1>2. open = {} /\ open' = open /\ gpu' = gpu
  BY DEF T11!BeginFrame
<1>3. PICK next : Begins(next)
  BY <1>1, FrameBegins
<1>4. \A c \in Counters : \A d \in T11!Disjoints :
         waiting'[c][d] = <<>> \/ waiting'[c][d] = waiting[c][d]
  BY PairsReturned
<1>5. ASSUME NEW c \in Counters, NEW p \in T11!PairIds, NEW part \in Parts
      PROVE  stamp'[<<c, p, part>>] = stamp[<<c, p, part>>]
  <2>1. PICK q : q = <<c, p, part>>
    OBVIOUS
  <2>2. q \in T11!Queries /\ \A d \in T11!Disjoints : q # T11!FrameQuery(d)
    BY <1>5, <2>1, QueriesAre
  <2>3. CASE stamp' = stamp
    BY <2>3
  <2>4. CASE next \in T11!Disjoints /\ stamp' = [stamp EXCEPT ![T11!FrameQuery(next)] = 0]
    <3>1. PICK r : r = T11!FrameQuery(next)
      OBVIOUS
    <3>2. q # r /\ stamp' = [stamp EXCEPT ![r] = 0] /\ DOMAIN stamp = T11!Queries
      BY <1>1, <2>2, <2>4, <3>1 DEF TimerTypes
    <3>3. stamp'[q] = stamp[q]
      BY ONLY <2>2, <3>2
    <3> QED BY <2>1, <3>3
  <2> QED BY <1>3, <2>3, <2>4 DEF Begins
<1>6. ASSUME NEW c \in Counters, NEW p \in T11!PairIds, NEW v, StampOK(c, p, v)
      PROVE  StampOK(c, p, v)'
  <2>1. ASSUME NEW part \in Parts, Carries(gpu, stamp, <<c, p, part>>, v)
        PROVE  Carries(gpu, stamp, <<c, p, part>>, v)'
    <3>1. PICK q : q = <<c, p, part>>
      OBVIOUS
    <3>2. stamp'[q] = stamp[q]
      BY <1>5, <2>1, <3>1
    <3>3. Carries(gpu, stamp, q, v)
      BY <2>1, <3>1
    <3>4. Carries(gpu, stamp, q, v)'
      BY ONLY <1>2, <3>2, <3>3 DEF Carries
    <3> QED BY <3>1, <3>4
  <2>2. Carries(gpu, stamp, <<c, p, "begin">>, v)'
    BY <1>6, <2>1 DEF StampOK, Parts
  <2>3. Carries(gpu, stamp, <<c, p, "end">>, v)'
    <3>1. ~Held11(c, p)
      BY <1>2 DEF Held11
    <3>2. Carries(gpu, stamp, <<c, p, "end">>, v)
      BY <1>6, <3>1 DEF StampOK
    <3> QED BY <2>1, <3>2 DEF Parts
  <2> QED BY <2>2, <2>3 DEF StampOK
<1>7. StampsOK'
  <2>1. \A c \in Counters : \A d \in T11!Disjoints : \A i \in DOMAIN waiting[c][d] :
            waiting[c][d][i].pair \in T11!PairIds
    BY NotedIs
  <2> QED BY <1>4, <1>6, <2>1, FewerNoted
<1> QED BY <1>2, <1>7, NoneOpen DEF ScopesInFrame

LEMMA ExecuteScopes ==
  ASSUME TimersOK, ScopesInFrame, T11!Execute PROVE ScopesInFrame'
<1>1. TimerTypes
  BY DEF TimersOK
<1>2. PICK x : x = Head(gpu)
  OBVIOUS
<1>3. /\ gpu # <<>> /\ gpu' = Tail(gpu) /\ stamp' = [stamp EXCEPT ![x.query] = x.by]
      /\ UNCHANGED <<current, live, ready, waiting, open>>
  BY <1>2 DEF T11!Execute, T11!poolVars, T11!counterVars
<1>4. ASSUME NEW q \in T11!Queries, NEW v, Carries(gpu, stamp, q, v)
      PROVE  Carries(gpu, stamp, q, v)'
  <2>1. gpu \in Seq(Commands11) /\ stamp \in [T11!Queries -> Nat]
    BY <1>1 DEF TimerTypes
  <2>2. PICK g, h, st, su : g = gpu /\ h = gpu' /\ st = stamp /\ su = stamp'
    OBVIOUS
  <2>3. (q = x.query => su[q] = x.by) /\ (q # x.query => su[q] = st[q])
    BY <1>3, <1>4, <2>1, <2>2
  <2>4. Carries(h, su, q, v)
    <3>1. g \in Seq(Commands11) /\ g # <<>> /\ h = Tail(g) /\ x = Head(g) /\ Carries(g, st, q, v)
      BY <1>2, <1>3, <1>4, <2>1, <2>2
    <3> QED BY ONLY <2>3, <3>1, CarriesTail
  <2> QED BY <2>2, <2>4 DEF Carries
<1>5. ASSUME NEW c \in Counters, NEW p \in T11!PairIds, NEW v, StampOK(c, p, v)
      PROVE  StampOK(c, p, v)'
  <2>1. <<c, p, "begin">> \in T11!Queries /\ <<c, p, "end">> \in T11!Queries
    BY QueriesAre DEF Parts
  <2>2. Held11(c, p)' <=> Held11(c, p)
    BY <1>3 DEF Held11
  <2>3. Carries(gpu, stamp, <<c, p, "begin">>, v)'
    BY <1>4, <1>5, <2>1 DEF StampOK
  <2>4. Held11(c, p)' \/ Carries(gpu, stamp, <<c, p, "end">>, v)'
    BY <1>4, <1>5, <2>1, <2>2 DEF StampOK
  <2> QED BY <2>3, <2>4 DEF StampOK
<1>6. StampsOK'
  <2>1. \A c \in Counters : \A d \in T11!Disjoints : \A i \in DOMAIN waiting[c][d] :
            waiting[c][d][i].pair \in T11!PairIds
    BY NotedIs
  <2> QED BY <1>3, <1>5, <2>1, FewerNoted
<1>7. OpenOK'
  BY <1>3 DEF ScopesInFrame, OpenOK
<1> QED BY <1>6, <1>7 DEF ScopesInFrame

LEMMA TimerScopesStart == ASSUME T11!Init PROVE ScopesInFrame
<1>1. open = {} /\ waiting = [c \in Counters |-> [d \in T11!Disjoints |-> <<>>]]
  BY DEF T11!Init
<1>2. \A c \in Counters : \A d \in T11!Disjoints : waiting[c][d] = <<>>
  BY <1>1
<1>3. StampsOK
  BY <1>2 DEF StampsOK
<1>4. OpenOK
  BY <1>1 DEF OpenOK
<1> QED BY <1>3, <1>4 DEF ScopesInFrame

\* A scope that ends is the one its sample was noted by.
LEMMA EndScopeScopes ==
  ASSUME TimersOK, ScopesInFrame, NEW o \in open, T11!EndScope(o) PROVE ScopesInFrame'
<1> USE TimerBounds
<1>1. TimerTypes
  BY DEF TimersOK
<1>2. PICK y : y = [query |-> <<o.counter, o.pair, "end">>, by |-> o.serial]
  OBVIOUS
<1>3. /\ gpu' = Append(gpu, y) /\ open' = open \ {o}
      /\ UNCHANGED <<current, live, ready, waiting, stamp>>
  BY <1>2 DEF T11!EndScope, T11!Issue, T11!poolVars, T11!counterVars
<1>4. o.counter \in Counters /\ o.pair \in T11!PairIds /\ o.serial \in Nat \ {0}
  BY <1>1 DEF TimerTypes
<1>5. /\ y \in Commands11 /\ y.query = <<o.counter, o.pair, "end">>
      /\ y.by = o.serial
  <2>1. <<o.counter, o.pair, "end">> \in T11!Queries
    BY <1>4, QueriesAre DEF Parts
  <2> QED BY <1>2, <1>4, <2>1 DEF Commands11
<1>6. OpenOK'
  BY <1>3 DEF ScopesInFrame, OpenOK
<1>7. \A c, p : y.query # <<c, p, "begin">>
  BY <1>5
<1>8. ASSUME NEW c \in Counters, NEW d \in T11!Disjoints, NEW i \in DOMAIN waiting[c][d],
             NEW p, NEW v, p = waiting[c][d][i].pair, v = waiting[c][d][i].serial,
             StampOK(c, p, v)
      PROVE  StampOK(c, p, v)'
  <2>1. CASE c = o.counter /\ p = o.pair
    <3>1. c \in ready
      BY <1>8, NotedIs
    <3>2. current \in T11!Disjoints
      BY <1>1, <1>4 DEF ScopesInFrame, OpenOK, TimerTypes
    <3>3. PICK k \in DOMAIN waiting[c][current] :
             waiting[c][current][k] = [pair |-> o.pair, serial |-> o.serial]
      BY <2>1, <3>1 DEF ScopesInFrame, OpenOK
    <3>4. waiting[c][d][i].pair = waiting[c][current][k].pair
      BY <1>8, <2>1, <3>3
    <3>5. PairsIn(free[c], waiting[c], made[c])
      BY <1>8 DEF TimersOK, PlacesOK, PairOK
    <3>6. d = current /\ i = k
      BY ONLY <1>8, <3>2, <3>3, <3>4, <3>5, d \in T11!Disjoints,
              i \in DOMAIN waiting[c][d] DEF PairsIn
    <3>7. v = o.serial
      BY <1>8, <3>3, <3>6
    <3>8. gpu \in Seq(Commands11)
      BY <1>1 DEF TimerTypes
    <3>9. PICK g, h : g = gpu /\ h = gpu'
      OBVIOUS
    <3>10. /\ Carries(h, stamp, y.query, y.by)
           /\ \A q, u : Carries(g, stamp, q, u) /\ y.query # q => Carries(h, stamp, q, u)
      BY <1>3, <1>5, <3>8, <3>9, CarriesAppend
    <3>11. Carries(h, stamp, <<c, p, "end">>, v)
      BY <1>5, <2>1, <3>7, <3>10
    <3>12. Carries(h, stamp, <<c, p, "begin">>, v)
      BY <1>7, <1>8, <3>9, <3>10 DEF StampOK
    <3>13. Carries(gpu, stamp, <<c, p, "end">>, v)' /\ Carries(gpu, stamp, <<c, p, "begin">>, v)'
      BY <1>3, <3>9, <3>11, <3>12 DEF Carries
    <3> QED BY <3>13 DEF StampOK
  <2>2. CASE ~(c = o.counter /\ p = o.pair)
    <3>1. y.query # <<c, p, "end">>
      BY <1>5, <2>2
    <3>2. Held11(c, p) => Held11(c, p)'
      BY <1>3, <2>2 DEF Held11
    <3> QED BY <1>3, <1>5, <1>7, <1>8, <3>1, <3>2, StampAppended
  <2> QED BY <2>1, <2>2
<1>9. StampsOK'
  <2>1. \A c \in Counters : \A d \in T11!Disjoints : \A i \in DOMAIN waiting[c][d] :
           StampOK(c, waiting[c][d][i].pair, waiting[c][d][i].serial)
              => StampOK(c, waiting[c][d][i].pair, waiting[c][d][i].serial)'
    <3> SUFFICES ASSUME NEW c \in Counters, NEW d \in T11!Disjoints,
                        NEW i \in DOMAIN waiting[c][d],
                        StampOK(c, waiting[c][d][i].pair, waiting[c][d][i].serial)
                 PROVE  StampOK(c, waiting[c][d][i].pair, waiting[c][d][i].serial)'
      OBVIOUS
    <3>1. PICK p, v : p = waiting[c][d][i].pair /\ v = waiting[c][d][i].serial
      OBVIOUS
    <3>2. StampOK(c, p, v)
      BY <3>1
    <3>3. StampOK(c, p, v)'
      BY <1>8, <3>1, <3>2
    <3>4. p = waiting'[c][d][i].pair /\ v = waiting'[c][d][i].serial
      BY <1>3, <3>1
    <3> QED BY <3>3, <3>4
  <2> QED BY <1>3, <2>1, FewerNoted
<1> QED BY <1>6, <1>9 DEF ScopesInFrame

\* A scope that begins notes its sample under the query of this frame, with a
\* pair that is noted nowhere else.
LEMMA BeginScopeScopes ==
  ASSUME TimersOK, ScopesInFrame, ~Late, NEW c \in Counters, T11!BeginScope(c)
  PROVE  ScopesInFrame'
<1> USE TimerBounds
<1>1. TimerTypes
  BY DEF TimersOK
<1>2. PICK p, g, m : NotesPair(c, p, g, m) /\ T11!Measures(c)
  BY <1>1, ScopeBegins
<1>3. PICK x : x = [pair |-> p, serial |-> serial + 1]
  OBVIOUS
<1>4. PICK y : y = [query |-> <<c, p, "begin">>, by |-> serial + 1]
  OBVIOUS
<1>5. current \in T11!Disjoints /\ disjoint[c] = current
  <2>1. current # T11!None /\ disjoint[c] # T11!None
    BY <1>2 DEF T11!Measures
  <2>2. current \in T11!Disjoints
    BY <1>1, <2>1 DEF TimerTypes
  <2> QED BY <2>1, <2>2 DEF TimersOK, FrameOK
<1>6. PICK d : d = current
  OBVIOUS
<1>7. /\ c \in ready /\ p \in T11!PairIds /\ gpu' = Append(gpu, y)
      /\ open' = open \union {[counter |-> c, pair |-> p, serial |-> serial + 1]}
      /\ UNCHANGED <<current, live, ready, stamp>>
  BY <1>2, <1>4 DEF NotesPair
<1>8. waiting' = [waiting EXCEPT ![c] = [waiting[c] EXCEPT ![d] = Append(waiting[c][d], x)]]
  BY <1>2, <1>3, <1>5, <1>6 DEF NotesPair
<1>9. serial \in Nat /\ x \in Waits /\ x.pair = p /\ x.serial = serial + 1
  BY <1>1, <1>3, <1>7 DEF TimerTypes, Waits
<1>10. y \in Commands11 /\ y.query = <<c, p, "begin">> /\ y.by = serial + 1
  <2>1. <<c, p, "begin">> \in T11!Queries
    BY <1>7, QueriesAre DEF Parts
  <2> QED BY <1>4, <1>9, <2>1 DEF Commands11
<1>11. PICK s, n : s = waiting[c][d] /\ n = Len(s) + 1
  OBVIOUS
<1>12. s \in Seq(Waits) /\ d \in T11!Disjoints
  BY <1>1, <1>5, <1>6, <1>11 DEF TimerTypes
<1>13. PICK r : r = Append(s, x)
  OBVIOUS
<1>14. /\ n \in Nat \ {0} /\ DOMAIN s = 1 .. n - 1 /\ DOMAIN r = 1 .. n
       /\ r[n] = x /\ \A i \in 1 .. n - 1 : r[i] = s[i]
  BY <1>9, <1>11, <1>12, <1>13
<1>15. /\ waiting'[c][d] = r
       /\ \A b \in Counters, e \in T11!Disjoints :
             b # c \/ e # d => waiting'[b][e] = waiting[b][e]
  <2>1. PICK w : w = waiting[c]
    OBVIOUS
  <2>2. w \in [T11!Disjoints -> Seq(Waits)] /\ DOMAIN waiting = Counters
    BY <1>1, <2>1 DEF TimerTypes
  <2>3. PICK v : v = [w EXCEPT ![d] = r]
    OBVIOUS
  <2>4. waiting' = [waiting EXCEPT ![c] = v]
    BY <1>8, <1>11, <1>13, <2>1, <2>3
  <2>5. waiting'[c] = v /\ \A b \in Counters \ {c} : waiting'[b] = waiting[b]
    BY <2>2, <2>4
  <2>6. v[d] = r /\ \A e \in T11!Disjoints \ {d} : v[e] = w[e]
    BY <1>12, <2>2, <2>3
  <2> QED BY <2>1, <2>5, <2>6
<1>16. PairsIn(free'[c], waiting'[c], made'[c])
  BY BeginScopeKeeps DEF TimersOK, PlacesOK, PairOK
<1>17. PICK w : w = waiting'[c]
  OBVIOUS
<1>18. n \in DOMAIN w[d] /\ w[d][n].pair = p /\ w[d][n] = x
  BY <1>9, <1>14, <1>15, <1>17
<1>19. ASSUME NEW e \in T11!Disjoints, NEW i \in DOMAIN w[e], w[e][i].pair = p
       PROVE  e = d /\ i = n
  BY <1>12, <1>16, <1>17, <1>18, <1>19 DEF PairsIn
<1>20. PICK h, k : h = gpu /\ k = gpu'
  OBVIOUS
<1>21. /\ Carries(k, stamp, y.query, y.by)
       /\ \A q, u : Carries(h, stamp, q, u) /\ y.query # q => Carries(k, stamp, q, u)
  <2>1. gpu \in Seq(Commands11)
    BY <1>1 DEF TimerTypes
  <2> QED BY <1>7, <1>10, <1>20, <2>1, CarriesAppend
<1>22. ASSUME NEW b \in Counters, NEW e \in T11!Disjoints, NEW i \in DOMAIN waiting[b][e]
       PROVE  i \in DOMAIN waiting'[b][e] /\ waiting'[b][e][i] = waiting[b][e][i]
  <2>1. CASE b = c /\ e = d
    BY <1>11, <1>14, <1>15, <2>1
  <2>2. CASE b # c \/ e # d
    BY <1>15, <2>2
  <2> QED BY <2>1, <2>2
<1>23. OpenOK'
  <2>1. current' # T11!None
    BY <1>5, <1>7
  <2>2. \A o \in open' : o.counter \in live'
    BY <1>1, <1>7 DEF ScopesInFrame, OpenOK, TimerTypes
  <2>3. ASSUME NEW o \in open', o.counter \in ready'
        PROVE  \E i \in DOMAIN waiting'[o.counter][d] :
                  waiting'[o.counter][d][i] = [pair |-> o.pair, serial |-> o.serial]
    <3>1. CASE o \in open
      <4>1. o.counter \in Counters
        BY <1>1, <3>1 DEF TimerTypes
      <4>2. PICK i \in DOMAIN waiting[o.counter][d] :
               waiting[o.counter][d][i] = [pair |-> o.pair, serial |-> o.serial]
        BY <1>6, <1>7, <2>3, <3>1 DEF ScopesInFrame, OpenOK
      <4> QED BY <1>12, <1>22, <4>1, <4>2
    <3>2. CASE o = [counter |-> c, pair |-> p, serial |-> serial + 1]
      <4>1. o.counter = c /\ o.pair = p /\ o.serial = serial + 1
        BY <3>2
      <4> QED BY <1>3, <1>17, <1>18, <4>1
    <3> QED BY <1>7, <3>1, <3>2
  <2> QED BY <1>6, <1>7, <2>1, <2>2, <2>3 DEF OpenOK
<1>24. ASSUME NEW b \in Counters, NEW e \in T11!Disjoints, NEW i \in DOMAIN waiting'[b][e],
              NEW q, NEW v, q = waiting'[b][e][i].pair, v = waiting'[b][e][i].serial
       PROVE  StampOK(b, q, v)'
  <2>1. CASE b = c /\ q = p
    <3>1. e = d /\ i = n
      BY <1>17, <1>19, <1>24, <2>1
    <3>2. v = serial + 1
      BY <1>9, <1>17, <1>18, <1>24, <2>1, <3>1
    <3>3. Carries(k, stamp, <<b, q, "begin">>, v)
      BY <1>10, <1>21, <2>1, <3>2
    <3>4. Carries(gpu, stamp, <<b, q, "begin">>, v)'
      BY <1>7, <1>20, <3>3 DEF Carries
    <3>5. Held11(b, q)'
      <4>1. PICK o \in open' : o = [counter |-> c, pair |-> p, serial |-> serial + 1]
        BY <1>7
      <4>2. o.counter = c /\ o.pair = p
        BY <4>1
      <4> QED BY <2>1, <4>2 DEF Held11
    <3> QED BY <3>4, <3>5 DEF StampOK
  <2>2. CASE ~(b = c /\ q = p)
    <3>1. i \in DOMAIN waiting[b][e] /\ waiting'[b][e][i] = waiting[b][e][i]
      <4>1. CASE b = c /\ e = d
        <5>1. i \in 1 .. n /\ i # n
          BY <1>14, <1>15, <1>18, <1>17, <1>24, <2>2, <4>1
        <5>2. i \in 1 .. n - 1
          BY <1>14, <5>1
        <5> QED BY <1>11, <1>14, <1>15, <4>1, <5>2
      <4>2. CASE b # c \/ e # d
        BY <1>15, <4>2
      <4> QED BY <4>1, <4>2
    <3>2. StampOK(b, q, v)
      BY <1>24, <3>1 DEF ScopesInFrame, StampsOK, StampOK
    <3>3. y.query # <<b, q, "begin">> /\ y.query # <<b, q, "end">>
      BY <1>10, <2>2
    <3>4. Held11(b, q) => Held11(b, q)'
      BY <1>7 DEF Held11
    <3> QED BY <1>7, <1>10, <3>2, <3>3, <3>4, StampAppended
  <2> QED BY <2>1, <2>2
<1>25. StampsOK'
  BY <1>24 DEF StampsOK, StampOK
<1> QED BY <1>23, <1>25 DEF ScopesInFrame

LEMMA TimerScopesStep ==
  ASSUME TimersOK, ScopesInFrame, ~Late, T11!Next PROVE ScopesInFrame'
<1>1. CASE \E c \in Counters : T11!CreateCounter(c)
  BY <1>1, CreateCounterScopes
<1>2. CASE \E c \in Counters : T11!DestroyCounter(c)
  BY <1>2, DestroyCounterScopes
<1>3. CASE \E c \in Counters : T11!BeginScope(c)
  BY <1>3, BeginScopeScopes
<1>4. CASE \E c \in Counters : T11!CreateQueryFails(c)
  BY <1>4, CreateQueryFailsScopes
<1>5. CASE \E o \in open : T11!EndScope(o)
  BY <1>5, EndScopeScopes
<1>6. CASE T11!PlainFrame
  <2>1. UNCHANGED vars11
    BY <1>6 DEF T11!PlainFrame, T11!vars, T11!poolVars, T11!counterVars, T11!gpuVars, vars11
  <2> QED BY <2>1, ScopesSame
<1> QED BY <1>1, <1>2, <1>3, <1>4, <1>5, <1>6, BeginFrameScopes, EndFrameScopes,
           DeviceResetScopes, InitFromDeviceScopes, ExecuteScopes DEF T11!Next

\* A scope that is open is of this frame, whose query has no data; so a sample
\* that can be read has both its queries from the scope that noted it.
LEMMA SamplesBelong ==
  ASSUME TimersOK, ScopesInFrame PROVE T11!SamplesBelongToTheirScope
<1>1. TimerTypes
  BY DEF TimersOK
<1> SUFFICES ASSUME NEW c \in live, NEW d \in T11!Ready, NEW i \in DOMAIN waiting[c][d],
                    NEW p, NEW v, p = waiting[c][d][i].pair, v = waiting[c][d][i].serial,
                    T11!HasData(<<c, p, "begin">>), T11!HasData(<<c, p, "end">>)
             PROVE  stamp[<<c, p, "begin">>] = v /\ stamp[<<c, p, "end">>] = v
  BY DEF T11!SamplesBelongToTheirScope
<1>2. c \in Counters /\ d \in T11!Disjoints /\ stamp[T11!FrameQuery(d)] # 0
  BY <1>1, ReadyIs DEF TimerTypes
<1>3. c \in ready
  BY <1>2, NotedIs
<1>4. ~Held11(c, p)
  <2> SUFFICES ASSUME NEW o \in open, o.counter = c, o.pair = p PROVE FALSE
    BY DEF Held11
  <2>1. current # T11!None
    BY DEF ScopesInFrame, OpenOK
  <2>2. current \in T11!Disjoints /\ stamp[T11!FrameQuery(current)] = 0
    BY <1>1, <2>1 DEF TimersOK, FrameOK, TimerTypes
  <2>3. PICK k \in DOMAIN waiting[c][current] :
           waiting[c][current][k] = [pair |-> o.pair, serial |-> o.serial]
    BY <1>3 DEF ScopesInFrame, OpenOK
  <2>4. waiting[c][d][i].pair = waiting[c][current][k].pair
    BY <2>3
  <2>5. PairsIn(free[c], waiting[c], made[c])
    BY <1>2 DEF TimersOK, PlacesOK, PairOK
  <2>6. d = current
    BY <1>2, <2>2, <2>3, <2>4, <2>5 DEF PairsIn
  <2> QED BY <1>2, <2>2, <2>6
<1>5. StampOK(c, p, v)
  BY <1>2 DEF ScopesInFrame, StampsOK, StampOK
<1>6. ASSUME NEW q, T11!HasData(q), Carries(gpu, stamp, q, v) PROVE stamp[q] = v
  BY <1>6 DEF T11!HasData, Carries
<1> QED BY <1>4, <1>5, <1>6 DEF StampOK

LEMMA TimerTypeOK == ASSUME TimersOK PROVE T11!TypeOK
<1>1. TimerTypes
  BY DEF TimersOK
<1>2. T11!Range(pool) \subseteq T11!Disjoints /\ T11!Range(pend) \subseteq T11!Disjoints
  BY <1>1 DEF TimerTypes, T11!Range
<1>3. ASSUME NEW c \in Counters PROVE T11!Range(free[c]) \subseteq 1 .. made[c]
  <2>1. PairsIn(free[c], waiting[c], made[c])
    BY DEF TimersOK, PlacesOK, PairOK
  <2> QED BY <2>1 DEF PairsIn, T11!Range
<1> QED BY <1>1, <1>2, <1>3 DEF TimerTypes, T11!TypeOK

-----------------------------------------------------------------------------
(* The theorems.                                                           *)

\* The host chooses one of the two back ends.
LEMMA ChosenAPI == ASSUME BackendsInit PROVE api \in APIs
<1>1. \A n \in 1 .. 2 : 1 \in 1 .. n
  OBVIOUS
<1>2. PICK supports \in UNION {[1 .. n -> APIs] : n \in 1 .. 2},
           preference \in APIs \union {""} : api = SelectGraphicsAPI(supports, preference)
  BY DEF BackendsInit
<1>3. PICK n \in 1 .. 2 : supports \in [1 .. n -> APIs]
  OBVIOUS
<1>4. 1 \in 1 .. n /\ DOMAIN supports = 1 .. n
  BY <1>1, <1>3, Zenon
<1>5. \A i \in DOMAIN supports : supports[i] \in APIs
  BY <1>3, <1>4, Zenon
<1> QED BY <1>2, <1>4, <1>5, Zenon DEF SelectGraphicsAPI

\* The inductive invariant: what is known of the queues, the fences, the slots and
\* the samples of the Direct3D 12 back end holds throughout, on either back end.
THEOREM FramesInvariant == BackendsSpec => [](FramesOK /\ api \in APIs)
<1>1. BackendsInit => FramesOK /\ api \in APIs
  BY FramesInit, ChosenAPI DEF BackendsInit
<1>2. /\ FramesOK /\ api \in APIs
      /\ [BackendsNext]_<<api, vars, vars11>>
      => (FramesOK /\ api \in APIs)'
  <2> SUFFICES ASSUME FramesOK, api \in APIs, [BackendsNext]_<<api, vars, vars11>>
               PROVE  (FramesOK /\ api \in APIs)'
    OBVIOUS
  <2>1. api' = api /\ (Next \/ UNCHANGED vars)
    BY DEF BackendsNext
  <2> QED BY <2>1, FramesStep, FramesStutter
<1> QED BY <1>1, <1>2, PTL DEF BackendsSpec

\* From the entry to RTDraw on, the GPU has done with the frame that used the slot
\* before (MGDF.idl:2473), and with everything when the back buffers are released:
\* RTWaitForFrame, D3D12FrameState::PreviousFence and RTWaitForGpuIdle suffice, for
\* any number of frames in flight.
THEOREM MemoryIsIdle == BackendsSpec => []ReusedMemoryIsIdle
<1>1. FramesOK /\ api \in APIs => ReusedMemoryIsIdle
  BY FramesOKGives DEF ReusedMemoryIsIdle, FramesTypeOK
<1> QED BY <1>1, FramesInvariant, PTL

\* Both timestamps of a sample D3D12CounterManager::BeginFrame records were written
\* in one recording of the list, in the sample's frame: the part of SamplesAreWhole
\* that is about Direct3D 12.
THEOREM RecordedWhole == BackendsSpec => []RecordedSamplesAreWhole
<1>1. FramesOK => RecordedSamplesAreWhole
  BY DEF FramesOK
<1> QED BY <1>1, FramesInvariant, PTL

\* The inductive invariant of the counters under Direct3D 11: their types, what a
\* reset leaves, every query in one place, and what the GPU has not got to.
THEOREM TimersInvariant == BackendsSpec => []TimersOK
<1>1. BackendsInit => TimersOK
  BY TimersStart, Zenon DEF BackendsInit
<1>2. TimersOK /\ [BackendsNext]_<<api, vars, vars11>> => TimersOK'
  <2> SUFFICES ASSUME TimersOK, [BackendsNext]_<<api, vars, vars11>> PROVE TimersOK'
    OBVIOUS
  <2>1. T11!Next \/ UNCHANGED vars11
    BY DEF BackendsNext
  <2> QED BY <2>1, TimersStep, TimersSame
<1> QED BY <1>1, <1>2, PTL DEF BackendsSpec

\* No disjoint query and no pair of Timer::Begin and GPUPerformanceCounter is lost
\* or given out twice, for any number of either, also when a module keeps a scope
\* longer than its frame: the part of SamplesAreWhole that is about the pool and
\* the stacks.
THEOREM QueriesInOnePlace == BackendsSpec => []T11!QueriesAreInOnePlace
<1>1. TimersOK => T11!QueriesAreInOnePlace
  BY InOnePlace
<1> QED BY <1>1, TimersInvariant, PTL

\* While a module ends its scopes in the frame they began in, the queries of a
\* sample that is noted were, or will be, ended last by the scope that noted it.
THEOREM ScopesInvariant ==
  ASSUME ~Late PROVE BackendsSpec => [](TimersOK /\ ScopesInFrame)
<1>1. BackendsInit => TimersOK /\ ScopesInFrame
  BY TimersStart, TimerScopesStart, Zenon DEF BackendsInit
<1>2. TimersOK /\ ScopesInFrame /\ [BackendsNext]_<<api, vars, vars11>>
      => (TimersOK /\ ScopesInFrame)'
  <2> SUFFICES ASSUME TimersOK, ScopesInFrame, [BackendsNext]_<<api, vars, vars11>>
               PROVE  (TimersOK /\ ScopesInFrame)'
    OBVIOUS
  <2>1. T11!Next \/ UNCHANGED vars11
    BY DEF BackendsNext
  <2> QED BY <2>1, TimersStep, TimersSame, TimerScopesStep, ScopesSame
<1> QED BY <1>1, <1>2, PTL DEF BackendsSpec

\* A sample that is recorded under either back end was measured by the scope that
\* asked for it, and no query is lost or given out twice.  Timer::End forces no
\* open scope to end, so the samples of a module that keeps one are not covered.
THEOREM SamplesWhole == ASSUME ~Late PROVE BackendsSpec => []SamplesAreWhole
<1>1. FramesOK /\ TimersOK /\ ScopesInFrame => SamplesAreWhole
  BY InOnePlace, SamplesBelong, TimerTypeOK DEF SamplesAreWhole, FramesOK
<1>2. BackendsSpec => [](TimersOK /\ ScopesInFrame)
  BY ScopesInvariant
<1> QED BY <1>1, <1>2, FramesInvariant, PTL
=============================================================================
