--------------------------- MODULE ServicesProofs ---------------------------
(***************************************************************************)
(* Theorems about the services of module Services: the files, the keyboard *)
(* and mouse, the gamepads, the log and the statistics.  They share no     *)
(* state, so each has an inductive invariant of its own, which the steps   *)
(* of the others leave as it is.  The sounds and their streams, of a       *)
(* module beside them, come last.                                          *)
(***************************************************************************)
EXTENDS Services, SoundManager, FiniteSetTheorems, SequenceTheorems, TLAPS

-----------------------------------------------------------------------------
(* The files.                                                              *)

FileObjects ==
    [path : Paths \cup {F!Root}, folder : BOOLEAN, refs : Nat,
     reader : Streams \cup {F!Null}, writer : Streams \cup {F!Null}]

FileStreams ==
    [of : Files \cup {F!Null}, mode : {"read", "write"},
     stage : {"none", "open", "closed", "cleaned"}]

FilesTypeOK ==
    /\ object \in [Files -> FileObjects]
    /\ users \in [Files -> Nat]
    /\ stream \in [Streams -> FileStreams]

\* The streams that keep a file alive.
StreamsOf(f) == {s \in Streams : stream[s].of = f}

\* The references to a file are those of its users and of its streams.
RefsOK == \A f \in Files : object[f].refs = users[f] + Cardinality(StreamsOf(f))

\* A stream has a file until it is freed.
StreamsOK == \A s \in Streams : stream[s].of = F!Null <=> stream[s].stage = "none"

\* A file's pointers are to streams of its own, of the right kind, that have
\* not cleaned up.
PointersOK ==
    \A f \in Files :
        /\ object[f].reader # F!Null =>
               /\ stream[object[f].reader].of = f
               /\ stream[object[f].reader].mode = "read"
               /\ stream[object[f].reader].stage \in {"open", "closed"}
        /\ object[f].writer # F!Null =>
               /\ stream[object[f].writer].of = f
               /\ stream[object[f].writer].mode = "write"
               /\ stream[object[f].writer].stage \in {"open", "closed"}

FilesOK == FilesTypeOK /\ RefsOK /\ StreamsOK /\ PointersOK

-----------------------------------------------------------------------------
(* The keyboard and the mouse.                                             *)

PendingKeys ==
    [down : [AllKeys -> 0..2], downs : Seq(AllKeys), presses : Seq(AllKeys)]

Mice == [down : 0..2, click : BOOLEAN, dx : Int]

InputTypeOK ==
    /\ pending \in PendingKeys /\ Len(pending.downs) < ListSize
    /\ mouse \in Mice
    /\ clearing \in {"no", "pending", "current"}
    /\ last \in [Keys \cup {Button} -> {"none", "down", "up"}]
    /\ wrapped \in BOOLEAN

\* While the input is cleared no event has been handled since.
ClearingOK == clearing # "no" => \A c \in Keys \cup {Button} : last[c] = "none"

\* The release of a key is in the list that the next update reads, or in what
\* an update has read and not written, or has been taken.
ReleaseOK(k) ==
    last[k] = "up" =>
        /\ Idle => \/ pending.down[k] = 2 /\ k \in ToSet(pending.downs)
                   \/ pending.down[k] = 0 /\ ~shown.key[k]
        /\ ~Idle => IF k \in reading.keys THEN ~reading.key[k] ELSE ~shown.key[k]

ButtonOK ==
    last[Button] = "up" =>
        /\ Idle => mouse.down = 2 \/ (mouse.down = 0 /\ ~shown.button)
        /\ ~Idle => IF reading.buttons THEN ~reading.button ELSE ~shown.button

InputOK ==
    /\ InputTypeOK /\ ClearingOK /\ ButtonOK
    /\ ~wrapped => \A k \in Keys : ReleaseOK(k)

-----------------------------------------------------------------------------
(* The gamepads.                                                           *)

PadsTypeOK ==
    /\ connected \subseteq Pads
    /\ pad \in [Pads -> [isConnected : BOOLEAN, down : BOOLEAN, press : 0..2]]
    /\ checkPc \in {"head", "walk", "exited"}

\* What either thread has still to do is to pads that only it moves.
WalksOK ==
    /\ simWalk \subseteq connected \ {simLost}
    /\ simLost \in connected \cup {NoPad}
    /\ checkWalk \subseteq disconnected \ {checkFound}
    /\ checkFound \in disconnected \cup {NoPad}
    /\ checkPc # "walk" => checkWalk = {} /\ checkFound = NoPad

PadsOK == PadsTypeOK /\ PadsAreInOneSet /\ WalksOK

-----------------------------------------------------------------------------
(* The log and the statistics.                                             *)

LogOK == L!TypeOK /\ L!EveryEntryIsInOnePlace

\* The flush thread holds statistics only while it sends, and nothing is left
\* with a network that runs.
StatsOK ==
    /\ S!TypeOK /\ S!StatisticsKeepTheirOrder
    /\ ~enabled => pc = "none"
    /\ pc # "send" => tmp = <<>>
    /\ network => queued = <<>>

-----------------------------------------------------------------------------
(* What is in a sequence.                                                  *)

\* An element that is appended is in the sequence, with those before it.
LEMMA AppendSet ==
    ASSUME NEW Elems, NEW seq \in Seq(Elems), NEW elt \in Elems
    PROVE ToSet(Append(seq, elt)) = ToSet(seq) \cup {elt}
<1> DEFINE a == Append(seq, elt)
<1>1. /\ DOMAIN a = 1 .. Len(seq) + 1 /\ DOMAIN seq = 1 .. Len(seq)
      /\ \A i \in 1 .. Len(seq) : a[i] = seq[i]
      /\ a[Len(seq) + 1] = elt /\ Len(seq) \in Nat
    BY AppendProperties
<1>2. ASSUME NEW x \in ToSet(a) PROVE x \in ToSet(seq) \cup {elt}
    <2>1. PICK i \in 1 .. Len(seq) + 1 : a[i] = x BY <1>1 DEF ToSet
    <2>2. i = Len(seq) + 1 \/ i \in 1 .. Len(seq) BY <1>1
    <2> QED BY <1>1, <2>1, <2>2 DEF ToSet
<1>3. ASSUME NEW x \in ToSet(seq) PROVE x \in ToSet(a)
    <2>1. PICK i \in 1 .. Len(seq) : seq[i] = x BY <1>1 DEF ToSet
    <2>2. i \in 1 .. Len(seq) + 1 BY <1>1
    <2> QED BY <1>1, <2>1, <2>2 DEF ToSet
<1>4. elt \in ToSet(a)
    <2>1. Len(seq) + 1 \in 1 .. Len(seq) + 1 BY <1>1
    <2> QED BY <1>1, <2>1 DEF ToSet
<1> QED BY <1>2, <1>3, <1>4

\* The first element is in the sequence, with those after it.
LEMMA TailSet ==
    ASSUME NEW Elems, NEW seq \in Seq(Elems), seq # <<>>
    PROVE /\ Head(seq) \in Elems /\ Tail(seq) \in Seq(Elems)
          /\ Len(seq) \in Nat /\ Len(Tail(seq)) + 1 = Len(seq)
          /\ ToSet(seq) = {Head(seq)} \cup ToSet(Tail(seq))
<1> DEFINE t == Tail(seq)
<1>1. /\ Head(seq) \in Elems /\ t \in Seq(Elems) /\ Head(seq) = seq[1]
      /\ Len(seq) \in Nat /\ Len(seq) > 0 /\ Len(t) = Len(seq) - 1
      /\ DOMAIN seq = 1 .. Len(seq) /\ DOMAIN t = 1 .. Len(t)
      /\ \A i \in 1 .. Len(t) : t[i] = seq[i + 1]
    OBVIOUS
<1>2. ASSUME NEW x \in ToSet(seq) PROVE x \in {Head(seq)} \cup ToSet(t)
    <2>1. PICK i \in 1 .. Len(seq) : seq[i] = x BY <1>1 DEF ToSet
    <2>2. CASE i = 1 BY <1>1, <2>1, <2>2
    <2>3. CASE i # 1
        <3>1. i - 1 \in 1 .. Len(t) /\ i = (i - 1) + 1 BY <1>1, <2>3
        <3> QED BY <1>1, <2>1, <3>1 DEF ToSet
    <2> QED BY <2>2, <2>3
<1>3. ASSUME NEW x \in ToSet(t) PROVE x \in ToSet(seq)
    <2>1. PICK i \in 1 .. Len(t) : t[i] = x BY <1>1 DEF ToSet
    <2>2. i + 1 \in 1 .. Len(seq) BY <1>1
    <2> QED BY <1>1, <2>1, <2>2 DEF ToSet
<1>4. Head(seq) \in ToSet(seq)
    <2>1. 1 \in 1 .. Len(seq) BY <1>1
    <2> QED BY <1>1, <2>1 DEF ToSet
<1> QED BY <1>1, <1>2, <1>3, <1>4

\* What is in two sequences is in the one that is put together from them.
LEMMA ConcatSet ==
    ASSUME NEW Elems, NEW s \in Seq(Elems), NEW t \in Seq(Elems)
    PROVE ToSet(s \o t) = ToSet(s) \cup ToSet(t)
<1>1. /\ Len(s) \in Nat /\ Len(t) \in Nat /\ DOMAIN (s \o t) = 1 .. Len(s) + Len(t)
      /\ DOMAIN s = 1 .. Len(s) /\ DOMAIN t = 1 .. Len(t)
      /\ \A i \in 1 .. Len(s) + Len(t) :
             (s \o t)[i] = IF i <= Len(s) THEN s[i] ELSE t[i - Len(s)]
    BY ConcatProperties
<1>2. ASSUME NEW x \in ToSet(s \o t) PROVE x \in ToSet(s) \cup ToSet(t)
    <2>1. PICK i \in 1 .. Len(s) + Len(t) : (s \o t)[i] = x BY <1>1 DEF ToSet
    <2>2. CASE i <= Len(s)
        <3>1. i \in 1 .. Len(s) BY <1>1, <2>2
        <3> QED BY <1>1, <2>1, <2>2, <3>1 DEF ToSet
    <2>3. CASE ~(i <= Len(s))
        <3>1. i - Len(s) \in 1 .. Len(t) BY <1>1, <2>3
        <3> QED BY <1>1, <2>1, <2>3, <3>1 DEF ToSet
    <2> QED BY <2>2, <2>3
<1>3. ASSUME NEW x \in ToSet(s) PROVE x \in ToSet(s \o t)
    <2>1. PICK i \in 1 .. Len(s) : s[i] = x BY <1>1 DEF ToSet
    <2>2. i \in 1 .. Len(s) + Len(t) /\ i <= Len(s) BY <1>1
    <2> QED BY <1>1, <2>1, <2>2 DEF ToSet
<1>4. ASSUME NEW x \in ToSet(t) PROVE x \in ToSet(s \o t)
    <2>1. PICK i \in 1 .. Len(t) : t[i] = x BY <1>1 DEF ToSet
    <2>2. /\ i + Len(s) \in 1 .. Len(s) + Len(t) /\ ~(i + Len(s) <= Len(s))
          /\ (i + Len(s)) - Len(s) = i
        BY <1>1
    <2> QED BY <1>1, <2>1, <2>2 DEF ToSet
<1> QED BY <1>2, <1>3, <1>4

-----------------------------------------------------------------------------
(* The steps of the files.                                                 *)

\* The streams of a file can be counted.
LEMMA StreamsCount ==
    ASSUME NEW f
    PROVE /\ IsFiniteSet(StreamsOf(f))
          /\ Cardinality(StreamsOf(f)) \in Nat
          /\ Cardinality(StreamsOf(f)) = 0 <=> StreamsOf(f) = {}
<1>1. StreamsOf(f) \subseteq Streams BY DEF StreamsOf
<1>2. IsFiniteSet(StreamsOf(f)) BY <1>1, FS_Subset, ServicesAssumption
<1> QED BY <1>2, FS_CardinalityType, FS_EmptySet

\* No file is open at first.
LEMMA FilesStart == F!FilesInit => FilesOK
<1> SUFFICES ASSUME F!FilesInit PROVE FilesOK OBVIOUS
<1> USE DEF F!FilesInit
<1>1. F!Root \in Paths \cup {F!Root} /\ F!Null \in Streams \cup {F!Null}
      /\ F!Null \in Files \cup {F!Null} /\ F!Null \notin Files
    BY ServicesAssumption DEF F!Null
<1>2. FilesTypeOK BY <1>1 DEF FilesTypeOK, FileObjects, FileStreams, F!NoFile, F!NoStream
<1>3. ASSUME NEW f \in Files PROVE StreamsOf(f) = {}
    BY <1>1 DEF StreamsOf, F!NoStream
<1>4. ASSUME NEW f \in Files
      PROVE object[f].refs = users[f] + Cardinality(StreamsOf(f))
    <2>1. object[f].refs = 0 /\ users[f] = 0 BY DEF F!NoFile
    <2>2. Cardinality(StreamsOf(f)) = 0 BY <1>3, FS_EmptySet
    <2> QED BY <2>1, <2>2
<1>5. StreamsOK /\ PointersOK BY DEF StreamsOK, PointersOK, F!NoFile, F!NoStream
<1> QED BY <1>2, <1>4, <1>5 DEF FilesOK, RefsOK

\* A step that opens and closes nothing may change the references users hold,
\* each by as much as the count of the file's, and what is at a path.
LEMMA UsersStep ==
    ASSUME FilesOK, UNCHANGED stream, FilesTypeOK',
           \A f \in Files : /\ object'[f].reader = object[f].reader
                            /\ object'[f].writer = object[f].writer
                            /\ object'[f].refs + users[f] = object[f].refs + users'[f]
    PROVE FilesOK'
<1> USE DEF FilesOK
<1>1. ASSUME NEW f \in Files
      PROVE object'[f].refs = users'[f] + Cardinality(StreamsOf(f))
    <2>1. object[f].refs = users[f] + Cardinality(StreamsOf(f)) BY DEF RefsOK
    <2>2. /\ object[f].refs \in Nat /\ users[f] \in Nat
          /\ object'[f].refs \in Nat /\ users'[f] \in Nat
        BY DEF FilesTypeOK, FileObjects
    <2> QED BY <2>1, <2>2, StreamsCount
<1>2. \A f : StreamsOf(f)' = StreamsOf(f) BY DEF StreamsOf
<1>3. RefsOK' BY <1>1, <1>2 DEF RefsOK
<1>4. StreamsOK' BY DEF StreamsOK
<1>5. PointersOK' BY DEF PointersOK
<1> QED BY <1>3, <1>4, <1>5

\* The operations on objects and paths.
LEMMA ObjectsStep ==
    ASSUME FilesOK, NEW f \in Files,
           \/ F!AddRef(f) \/ F!Release(f) \/ F!CreateFolder(f) \/ F!Delete(f)
           \/ \E g \in Files : F!MoveTo(f, g) \/ F!CopyTo(f, g)
    PROVE FilesOK'
<1>0. /\ object[f] \in FileObjects /\ users[f] \in Nat
      /\ object[f].refs = users[f] + Cardinality(StreamsOf(f))
      /\ Cardinality(StreamsOf(f)) \in Nat
    BY StreamsCount DEF FilesOK, FilesTypeOK, RefsOK
<1>1. CASE F!AddRef(f)
    <2> USE <1>1 DEF F!AddRef
    <2>1. object' = [object EXCEPT ![f].refs = object[f].refs + 1]
          /\ users' = [users EXCEPT ![f] = users[f] + 1] /\ stream' = stream
        OBVIOUS
    <2>2. FilesTypeOK' BY <1>0, <2>1 DEF FilesOK, FilesTypeOK, FileObjects
    <2> QED BY SMTT(30), <1>0, <2>1, <2>2, UsersStep DEF FilesOK, FilesTypeOK, FileObjects
<1>2. CASE F!Release(f)
    <2> USE <1>2 DEF F!Release, F!Released
    <2>1. object' = [object EXCEPT ![f].refs = object[f].refs - 1]
          /\ users' = [users EXCEPT ![f] = users[f] - 1] /\ stream' = stream
          /\ users[f] > 0
        OBVIOUS
    <2>2. FilesTypeOK' BY <1>0, <2>1 DEF FilesOK, FilesTypeOK, FileObjects
    <2> QED BY <1>0, <2>1, <2>2, UsersStep DEF FilesOK, FilesTypeOK, FileObjects
<1>3. CASE F!CreateFolder(f)
    <2>1. object' = [object EXCEPT ![f].folder = TRUE]
          /\ users' = users /\ stream' = stream
        BY <1>3 DEF F!CreateFolder
    <2>2. FilesTypeOK' BY <1>0, <2>1 DEF FilesOK, FilesTypeOK, FileObjects
    <2> QED BY <1>0, <2>1, <2>2, UsersStep DEF FilesOK, FilesTypeOK, FileObjects
<1>4. CASE F!Delete(f) \/ \E g \in Files : F!MoveTo(f, g) \/ F!CopyTo(f, g)
    <2>1. object' = object /\ users' = users /\ stream' = stream
        BY <1>4 DEF F!Delete, F!MoveTo, F!CopyTo
    <2>2. FilesTypeOK' BY <2>1 DEF FilesOK, FilesTypeOK
    <2> QED BY <2>1, <2>2, UsersStep DEF FilesOK, FilesTypeOK, FileObjects
<1> QED BY <1>1, <1>2, <1>3, <1>4

\* A new object takes the place of one that nothing refers to.
LEMMA GetFileStep ==
    ASSUME FilesOK, NEW f \in Files, NEW p \in Paths \cup {F!Root}, F!GetFile(f, p)
    PROVE FilesOK'
<1> USE DEF FilesOK
<1>0. ~(object[f].refs > 0) /\ stream' = stream /\ users' = [users EXCEPT ![f] = 1]
    BY DEF F!GetFile, F!Alive
<1>1. PICK b \in BOOLEAN :
        object' = [object EXCEPT ![f] = [path |-> p, folder |-> b, refs |-> 1,
                                         reader |-> F!Null, writer |-> F!Null]]
    BY DEF F!GetFile
<1>2. /\ object[f].refs \in Nat /\ users[f] \in Nat
      /\ object[f].refs = users[f] + Cardinality(StreamsOf(f))
    BY DEF FilesTypeOK, FileObjects, RefsOK
<1>3. Cardinality(StreamsOf(f)) = 0 BY <1>0, <1>2, StreamsCount
<1>4. FilesTypeOK' BY <1>0, <1>1 DEF FilesTypeOK, FileObjects
<1>5. \A g : StreamsOf(g)' = StreamsOf(g) BY <1>0 DEF StreamsOf
<1>6. ASSUME NEW g \in Files PROVE object'[g].refs = users'[g] + Cardinality(StreamsOf(g))
    <2>1. CASE g = f BY <1>0, <1>1, <1>3, <2>1 DEF FilesTypeOK
    <2>2. CASE g # f BY <1>0, <1>1, <2>2 DEF FilesTypeOK, RefsOK
    <2> QED BY <2>1, <2>2
<1>7. RefsOK' BY <1>5, <1>6 DEF RefsOK
<1>8. StreamsOK' BY <1>0 DEF StreamsOK
<1>9. ASSUME NEW g \in Files
      PROVE /\ object'[g].reader \in {object[g].reader, F!Null}
            /\ object'[g].writer \in {object[g].writer, F!Null}
    <2>1. CASE g = f BY <1>1, <2>1 DEF FilesTypeOK
    <2>2. CASE g # f BY <1>1, <2>2 DEF FilesTypeOK
    <2> QED BY <2>1, <2>2
<1>10. PointersOK' BY <1>0, <1>9 DEF PointersOK
<1> QED BY <1>4, <1>7, <1>8, <1>10

\* The streams of a file when a stream is opened on it, or freed.
LEMMA StreamsOfStep ==
    ASSUME FilesTypeOK, NEW s \in Streams, NEW r \in FileStreams,
           stream' = [stream EXCEPT ![s] = r], NEW g
    PROVE StreamsOf(g)' = IF r.of = g THEN StreamsOf(g) \cup {s} ELSE StreamsOf(g) \ {s}
<1> SUFFICES ASSUME NEW t \in Streams
             PROVE stream'[t].of = g
                   <=> IF r.of = g THEN t \in StreamsOf(g) \cup {s}
                       ELSE t \in StreamsOf(g) \ {s}
    BY DEF StreamsOf
<1>1. stream'[t] = IF t = s THEN r ELSE stream[t] BY DEF FilesTypeOK
<1> QED BY <1>1 DEF StreamsOf

\* A stream that is opened keeps its file, which has no such stream yet.
LEMMA OpenStep ==
    ASSUME FilesOK, NEW f \in Files, NEW s \in Streams, F!Open(f, s) \/ F!OpenWrite(f, s)
    PROVE FilesOK'
<1> USE DEF FilesOK
<1>1. PICK m \in {"read", "write"} :
        /\ stream' = [stream EXCEPT ![s] = [of |-> f, mode |-> m, stage |-> "open"]]
        /\ m = "read" => object' = [object EXCEPT ![f].reader = s,
                                                  ![f].refs = object[f].refs + 1]
        /\ m = "write" => object' = [object EXCEPT ![f].writer = s,
                                                   ![f].refs = object[f].refs + 1]
        /\ users' = users
        /\ stream[s].stage = "none"
    <2>1. CASE F!Open(f, s) BY <2>1 DEF F!Open, F!Kept
    <2>2. CASE F!OpenWrite(f, s) BY <2>2 DEF F!OpenWrite, F!Kept
    <2> QED BY <2>1, <2>2
<1> DEFINE r == [of |-> f, mode |-> m, stage |-> "open"]
<1>2. /\ r \in FileStreams /\ r.of = f /\ r.stage = "open" /\ r.mode = m
      /\ s # F!Null /\ f # F!Null
    BY ServicesAssumption DEF FileStreams, F!Null
<1>3. stream[s].of = F!Null BY <1>1 DEF StreamsOK
<1>4. \A g \in Files : /\ object'[g].refs = IF g = f THEN object[g].refs + 1
                                            ELSE object[g].refs
                       /\ object'[g].reader = IF g = f /\ m = "read" THEN s
                                              ELSE object[g].reader
                       /\ object'[g].writer = IF g = f /\ m = "write" THEN s
                                              ELSE object[g].writer
    <2>1. CASE m = "read" BY <1>1, <2>1 DEF FilesTypeOK, FileObjects
    <2>2. CASE m = "write" BY <1>1, <2>2 DEF FilesTypeOK, FileObjects
    <2> QED BY <2>1, <2>2
<1>5. FilesTypeOK'
    <2>1. stream' \in [Streams -> FileStreams] /\ users' \in [Files -> Nat]
        BY <1>1, <1>2 DEF FilesTypeOK
    <2>2. object' \in [Files -> FileObjects]
        <3>1. CASE m = "read" BY <1>1, <3>1 DEF FilesTypeOK, FileObjects
        <3>2. CASE m = "write" BY <1>1, <3>2 DEF FilesTypeOK, FileObjects
        <3> QED BY <3>1, <3>2
    <2> QED BY <2>1, <2>2 DEF FilesTypeOK
<1>6. \A g : StreamsOf(g)' = IF f = g THEN StreamsOf(g) \cup {s}
                             ELSE StreamsOf(g) \ {s}
    BY ZenonT(40), <1>1, <1>2, StreamsOfStep
<1>7. ASSUME NEW g \in Files
      PROVE object'[g].refs = users'[g] + Cardinality(StreamsOf(g)')
    <2>1. s \notin StreamsOf(g) BY <1>2, <1>3, ServicesAssumption DEF StreamsOf, F!Null
    <2>2. /\ object[g].refs = users[g] + Cardinality(StreamsOf(g))
          /\ object[g].refs \in Nat /\ users[g] \in Nat
        BY DEF RefsOK, FilesTypeOK, FileObjects
    <2>3. CASE g = f
        <3>1. Cardinality(StreamsOf(g) \cup {s}) = Cardinality(StreamsOf(g)) + 1
            BY <2>1, StreamsCount, FS_AddElement
        <3>2. Cardinality(StreamsOf(g)') = Cardinality(StreamsOf(g)) + 1
            BY <1>6, <2>3, <3>1
        <3>3. object'[g].refs = object[g].refs + 1 /\ users'[g] = users[g]
            BY <1>1, <1>4, <2>3
        <3>4. Cardinality(StreamsOf(g)) \in Nat BY StreamsCount
        <3> QED BY <2>2, <3>2, <3>3, <3>4
    <2>4. CASE g # f
        <3>1. StreamsOf(g)' = StreamsOf(g) BY <1>6, <2>1, <2>4
        <3> QED BY <1>1, <1>4, <2>2, <2>4, <3>1
    <2> QED BY <2>3, <2>4
<1>8. RefsOK' BY <1>7 DEF RefsOK
<1>9. \A t \in Streams : stream'[t] = IF t = s THEN r ELSE stream[t]
    BY <1>1 DEF FilesTypeOK
<1>10. StreamsOK' BY <1>2, <1>9 DEF StreamsOK
<1>11. ASSUME NEW g \in Files
       PROVE /\ object'[g].reader # F!Null =>
                    /\ stream'[object'[g].reader].of = g
                    /\ stream'[object'[g].reader].mode = "read"
                    /\ stream'[object'[g].reader].stage \in {"open", "closed"}
             /\ object'[g].writer # F!Null =>
                    /\ stream'[object'[g].writer].of = g
                    /\ stream'[object'[g].writer].mode = "write"
                    /\ stream'[object'[g].writer].stage \in {"open", "closed"}
    <2>1. object[g] \in FileObjects BY DEF FilesTypeOK
    <2>2. object[g].reader # F!Null => object[g].reader # s
        BY <1>1 DEF PointersOK
    <2>3. object[g].writer # F!Null => object[g].writer # s
        BY <1>1 DEF PointersOK
    <2>4. ASSUME object'[g].reader # F!Null
          PROVE /\ stream'[object'[g].reader].of = g
                /\ stream'[object'[g].reader].mode = "read"
                /\ stream'[object'[g].reader].stage \in {"open", "closed"}
        <3>1. CASE g = f /\ m = "read" BY <1>2, <1>4, <1>9, <3>1
        <3>2. CASE ~(g = f /\ m = "read")
            BY <1>4, <1>9, <2>1, <2>2, <2>4, <3>2 DEF PointersOK, FileObjects
        <3> QED BY <3>1, <3>2
    <2>5. ASSUME object'[g].writer # F!Null
          PROVE /\ stream'[object'[g].writer].of = g
                /\ stream'[object'[g].writer].mode = "write"
                /\ stream'[object'[g].writer].stage \in {"open", "closed"}
        <3>1. CASE g = f /\ m = "write" BY <1>2, <1>4, <1>9, <3>1
        <3>2. CASE ~(g = f /\ m = "write")
            BY <1>4, <1>9, <2>1, <2>3, <2>5, <3>2 DEF PointersOK, FileObjects
        <3> QED BY <3>1, <3>2
    <2> QED BY <2>4, <2>5
<1>12. PointersOK' BY <1>11 DEF PointersOK
<1> QED BY <1>5, <1>8, <1>10, <1>12

\* The destructor of a stream lets its file go only when no pointer of the
\* file's is to it any more.
LEMMA CloseStep ==
    ASSUME FilesOK, NEW s \in Streams, F!CloseStream(s) \/ F!CleanUp(s)
    PROVE FilesOK'
<1> USE DEF FilesOK
<1> DEFINE f == stream[s].of
<1>1. /\ f \in Files /\ f # F!Null /\ stream[s].mode \in {"read", "write"}
      /\ stream[s] \in FileStreams
    BY ServicesAssumption
       DEF F!CloseStream, F!CleanUp, StreamsOK, FilesTypeOK, FileStreams, F!Null
<1>2. PICK e \in {"closed", "cleaned"} :
        /\ stream' = [stream EXCEPT ![s].stage = e]
        /\ stream[s].stage \in {"open", "closed"}
        /\ e = "closed" => object' = object
        /\ e = "cleaned" /\ stream[s].mode = "read" =>
               object' = [object EXCEPT ![f].reader = F!Null]
        /\ e = "cleaned" /\ stream[s].mode = "write" =>
               object' = [object EXCEPT ![f].writer = F!Null]
        /\ users' = users
    <2>1. CASE F!CloseStream(s) BY <2>1 DEF F!CloseStream
    <2>2. CASE F!CleanUp(s) BY <1>1, <2>2 DEF F!CleanUp
    <2> QED BY <2>1, <2>2
<1>3. \A g \in Files :
        /\ object'[g].refs = object[g].refs
        /\ object'[g].reader = IF g = f /\ e = "cleaned" /\ stream[s].mode = "read"
                               THEN F!Null ELSE object[g].reader
        /\ object'[g].writer = IF g = f /\ e = "cleaned" /\ stream[s].mode = "write"
                               THEN F!Null ELSE object[g].writer
    <2>1. CASE e = "closed" BY <1>2, <2>1
    <2>2. CASE e = "cleaned" /\ stream[s].mode = "read"
        BY <1>2, <2>2 DEF FilesTypeOK, FileObjects
    <2>3. CASE e = "cleaned" /\ stream[s].mode = "write"
        BY <1>2, <2>3 DEF FilesTypeOK, FileObjects
    <2> QED BY <1>1, <2>1, <2>2, <2>3
<1>4. FilesTypeOK'
    <2>1. stream' \in [Streams -> FileStreams] /\ users' \in [Files -> Nat]
        BY <1>2 DEF FilesTypeOK, FileStreams
    <2>2. object' \in [Files -> FileObjects]
        <3>1. CASE e = "closed" BY <1>2, <3>1 DEF FilesTypeOK
        <3>2. CASE e = "cleaned" /\ stream[s].mode = "read"
            BY <1>2, <3>2 DEF FilesTypeOK, FileObjects
        <3>3. CASE e = "cleaned" /\ stream[s].mode = "write"
            BY <1>2, <3>3 DEF FilesTypeOK, FileObjects
        <3> QED BY <1>1, <3>1, <3>2, <3>3
    <2> QED BY <2>1, <2>2 DEF FilesTypeOK
<1>5. \A t \in Streams :
        /\ stream'[t].of = stream[t].of /\ stream'[t].mode = stream[t].mode
        /\ stream'[t].stage = IF t = s THEN e ELSE stream[t].stage
    BY <1>2 DEF FilesTypeOK, FileStreams
<1>6. \A g : StreamsOf(g)' = StreamsOf(g) BY <1>5 DEF StreamsOf
<1>7. RefsOK' BY <1>2, <1>3, <1>6 DEF RefsOK
<1>8. StreamsOK' BY <1>1, <1>2, <1>5 DEF StreamsOK
<1>9. ASSUME NEW g \in Files
      PROVE /\ object'[g].reader # F!Null =>
                    /\ stream'[object'[g].reader].of = g
                    /\ stream'[object'[g].reader].mode = "read"
                    /\ stream'[object'[g].reader].stage \in {"open", "closed"}
            /\ object'[g].writer # F!Null =>
                    /\ stream'[object'[g].writer].of = g
                    /\ stream'[object'[g].writer].mode = "write"
                    /\ stream'[object'[g].writer].stage \in {"open", "closed"}
    <2>1. object[g] \in FileObjects BY DEF FilesTypeOK
    <2>2. object'[g].reader \in {object[g].reader, F!Null} BY <1>3
    <2>3. object'[g].writer \in {object[g].writer, F!Null} BY <1>3
    <2>4. ASSUME object'[g].reader # F!Null
          PROVE /\ stream'[object'[g].reader].of = g
                /\ stream'[object'[g].reader].mode = "read"
                /\ stream'[object'[g].reader].stage \in {"open", "closed"}
        <3>1. object'[g].reader = object[g].reader /\ object[g].reader \in Streams
            BY <2>1, <2>2, <2>4 DEF FileObjects
        <3>2. /\ stream[object[g].reader].of = g
              /\ stream[object[g].reader].mode = "read"
              /\ stream[object[g].reader].stage \in {"open", "closed"}
            BY <2>4, <3>1 DEF PointersOK
        <3>3. object[g].reader = s => e = "closed" BY <1>3, <2>4, <3>1, <3>2
        <3> QED BY <1>5, <3>1, <3>2, <3>3
    <2>5. ASSUME object'[g].writer # F!Null
          PROVE /\ stream'[object'[g].writer].of = g
                /\ stream'[object'[g].writer].mode = "write"
                /\ stream'[object'[g].writer].stage \in {"open", "closed"}
        <3>1. object'[g].writer = object[g].writer /\ object[g].writer \in Streams
            BY <2>1, <2>3, <2>5 DEF FileObjects
        <3>2. /\ stream[object[g].writer].of = g
              /\ stream[object[g].writer].mode = "write"
              /\ stream[object[g].writer].stage \in {"open", "closed"}
            BY <2>5, <3>1 DEF PointersOK
        <3>3. object[g].writer = s => e = "closed" BY <1>3, <2>5, <3>1, <3>2
        <3> QED BY <1>5, <3>1, <3>2, <3>3
    <2> QED BY <2>4, <2>5
<1>10. PointersOK' BY <1>9 DEF PointersOK
<1> QED BY <1>4, <1>7, <1>8, <1>10

\* A stream that is freed gives its reference back.
LEMMA FreeStep ==
    ASSUME FilesOK, NEW s \in Streams, F!FreeStream(s)
    PROVE FilesOK'
<1> USE DEF FilesOK
<1> DEFINE f == stream[s].of
           r == [of |-> F!Null, mode |-> "read", stage |-> "none"]
<1>1. /\ stream[s].stage = "cleaned" /\ stream' = [stream EXCEPT ![s] = r]
      /\ object' = [object EXCEPT ![f].refs = object[f].refs - 1]
      /\ users' = users
    BY DEF F!FreeStream, F!Released, F!NoStream
<1>2. f \in Files /\ f # F!Null
    BY <1>1, ServicesAssumption DEF StreamsOK, FilesTypeOK, FileStreams, F!Null
<1>3. r \in FileStreams BY DEF FileStreams
<1>4. \A g : StreamsOf(g)' = IF F!Null = g THEN StreamsOf(g) \cup {s}
                             ELSE StreamsOf(g) \ {s}
    BY ZenonT(40), <1>1, <1>3, StreamsOfStep
<1>5. \A g \in Files : g # F!Null BY ServicesAssumption DEF F!Null
<1>6. ASSUME NEW g \in Files
      PROVE /\ object[g].refs \in Nat /\ users[g] \in Nat
            /\ object[g].refs = users[g] + Cardinality(StreamsOf(g))
    BY DEF RefsOK, FilesTypeOK, FileObjects
<1>7. s \in StreamsOf(f) BY DEF StreamsOf
<1>8. Cardinality(StreamsOf(f)) # 0 BY <1>7, StreamsCount
<1>9. object[f].refs - 1 \in Nat BY <1>2, <1>6, <1>8, StreamsCount
<1>10. FilesTypeOK' BY ZenonT(40), <1>1, <1>3, <1>9 DEF FilesTypeOK, FileObjects
<1>11. \A g \in Files :
        /\ object'[g].refs = IF g = f THEN object[g].refs - 1 ELSE object[g].refs
        /\ object'[g].reader = object[g].reader
        /\ object'[g].writer = object[g].writer
    BY <1>1 DEF FilesTypeOK, FileObjects
<1>12. ASSUME NEW g \in Files
       PROVE object'[g].refs = users'[g] + Cardinality(StreamsOf(g)')
    <2>1. StreamsOf(g)' = StreamsOf(g) \ {s} BY <1>4, <1>5
    <2>2. CASE g = f
        <3>1. Cardinality(StreamsOf(g) \ {s}) = Cardinality(StreamsOf(g)) - 1
            BY <1>7, <2>2, StreamsCount, FS_RemoveElement
        <3>2. Cardinality(StreamsOf(g)) \in Nat BY StreamsCount
        <3> QED BY <1>1, <1>6, <1>11, <2>1, <2>2, <3>1, <3>2
    <2>3. CASE g # f
        <3>1. StreamsOf(g) \ {s} = StreamsOf(g) BY <2>3 DEF StreamsOf
        <3>2. object'[g].refs = object[g].refs /\ users'[g] = users[g]
            BY <1>1, <1>11, <2>3
        <3>3. Cardinality(StreamsOf(g)') = Cardinality(StreamsOf(g)) BY <2>1, <3>1
        <3> QED BY <1>6, <3>2, <3>3
    <2> QED BY <2>2, <2>3
<1>13. RefsOK' BY <1>12 DEF RefsOK
<1>14. \A t \in Streams : stream'[t] = IF t = s THEN r ELSE stream[t]
    BY <1>1 DEF FilesTypeOK
<1>15. StreamsOK' BY <1>14 DEF StreamsOK
<1>16. \A g \in Files : (object[g].reader # s /\ object[g].writer # s) \/ s = F!Null
    BY <1>1 DEF PointersOK
<1>17. s # F!Null BY ServicesAssumption DEF F!Null
<1>18. \A g \in Files : object[g].reader # s /\ object[g].writer # s BY <1>16, <1>17
<1>19. \A g \in Files : /\ object[g].reader # F!Null => object[g].reader \in Streams
                        /\ object[g].writer # F!Null => object[g].writer \in Streams
    BY DEF FilesTypeOK, FileObjects
<1>20. PointersOK' BY <1>11, <1>14, <1>18, <1>19 DEF PointersOK
<1> QED BY <1>10, <1>13, <1>15, <1>20

\* What the files do keeps the invariant.
LEMMA FilesStep == FilesOK /\ F!FilesNext => FilesOK'
<1> SUFFICES ASSUME FilesOK, F!FilesNext PROVE FilesOK' OBVIOUS
<1>1. CASE \E f \in Files : F!AddRef(f) \/ F!Release(f) \/ F!CreateFolder(f) \/ F!Delete(f)
    BY <1>1, ObjectsStep
<1>2. CASE \E f, g \in Files : F!MoveTo(f, g) \/ F!CopyTo(f, g)
    BY <1>2, ObjectsStep
<1>3. CASE \E f \in Files : \E p \in Paths \cup {F!Root} : F!GetFile(f, p)
    BY <1>3, GetFileStep
<1>4. CASE \E f, g \in Files : F!GetParent(f, g)
    <2>1. PICK g \in Files : F!GetFile(g, F!Root) BY <1>4 DEF F!GetParent
    <2> QED BY <2>1, GetFileStep
<1>5. CASE \E f \in Files, s \in Streams : F!Open(f, s) \/ F!OpenWrite(f, s)
    BY <1>5, OpenStep
<1>6. CASE \E s \in Streams : F!CloseStream(s) \/ F!CleanUp(s)
    BY <1>6, CloseStep
<1>7. CASE \E s \in Streams : F!FreeStream(s) BY <1>7, FreeStep
<1> QED BY <1>1, <1>2, <1>3, <1>4, <1>5, <1>6, <1>7 DEF F!FilesNext

\* The files' invariant, which the steps of the other services keep: in every
\* reachable state the count of a file's references is that of its users and
\* streams, and its pointers are to open streams of its own.
THEOREM FilesInvariant == Spec => []FilesOK
<1>1. Init => FilesOK BY FilesStart DEF Init
<1>2. FilesOK /\ [Next]_vars => FilesOK'
    <2> SUFFICES ASSUME FilesOK, [Next]_vars PROVE FilesOK' OBVIOUS
    <2>1. CASE F!FilesNext BY <2>1, FilesStep
    <2>2. CASE UNCHANGED fileVars
        <3>1. UNCHANGED <<object, users, stream>> BY <2>2 DEF fileVars
        <3> QED BY <3>1 DEF FilesOK, FilesTypeOK, RefsOK, StreamsOf, StreamsOK, PointersOK
    <2> QED BY <2>1, <2>2 DEF Next, vars
<1> QED BY <1>1, <1>2, PTL DEF Spec

\* The files of MGDFDefaultFileBase.hpp: a file object outlives the readers
\* and writers it has opened, whoever releases what first, for any number of
\* objects, streams and paths.
THEOREM FilesOutlive == Spec => []FilesOutliveStreams
<1>1. FilesOK => FilesOutliveStreams
    <2> SUFFICES ASSUME FilesOK PROVE FilesOutliveStreams OBVIOUS
    <2>1. \A f \in Files :
            object[f].refs = users[f] + Cardinality({s \in Streams : stream[s].of = f})
        BY DEF FilesOK, RefsOK, StreamsOf
    <2>2. ASSUME NEW f \in Files, NEW s \in {object[f].reader, object[f].writer} \ {F!Null}
          PROVE stream[s].of = f /\ stream[s].stage \in {"open", "closed"}
        BY DEF FilesOK, PointersOK
    <2>3. \A set : F!Cardinality(set) = Cardinality(set)
        BY DEF F!Cardinality, Cardinality
    <2> QED BY <2>1, <2>2, <2>3 DEF FilesOutliveStreams, F!FilesOutliveStreams
<1> QED BY <1>1, FilesInvariant, PTL

-----------------------------------------------------------------------------
(* The steps of the keyboard and the mouse.                                *)

\* A list of events grows by the event, unless it is full: then it is empty.
LEMMA ListGrows ==
    ASSUME NEW list \in Seq(AllKeys), Len(list) < ListSize, NEW k \in AllKeys
    PROVE /\ Listed(list, k) \in Seq(AllKeys) /\ Len(Listed(list, k)) < ListSize
          /\ \/ Len(list) + 1 = ListSize /\ Listed(list, k) = <<>>
             \/ /\ Len(list) + 1 < ListSize
                /\ Len(Listed(list, k)) = Len(list) + 1
                /\ ToSet(Listed(list, k)) = ToSet(list) \cup {k}
<1>0. ListSize \in Nat /\ ListSize > 2 /\ Len(list) \in Nat BY ServicesAssumption
<1>1. CASE Len(list) + 1 = ListSize BY <1>0, <1>1 DEF Listed
<1>2. CASE Len(list) + 1 # ListSize
    <2>1. Listed(list, k) = Append(list, k) BY <1>2 DEF Listed
    <2>2. ToSet(Append(list, k)) = ToSet(list) \cup {k} BY AppendSet
    <2> QED BY <1>0, <1>2, <2>1, <2>2
<1> QED BY <1>1, <1>2

\* A key event that is handled is in the list of events, with all that were in
\* it, unless the list was full.
LEMMA KeyListed ==
    ASSUME NEW p \in PendingKeys, Len(p.downs) < ListSize, NEW k \in Keys,
           NEW what \in {"down", "up"}
    PROVE /\ Typed(p, k, what) \in PendingKeys
          /\ Len(Typed(p, k, what).downs) < ListSize
          /\ \A j \in Keys \ {k} : Typed(p, k, what).down[j] = p.down[j]
          /\ what = "up" => Typed(p, k, what).down[k] = 2
          /\ \/ Len(Typed(p, k, what).downs) < Len(p.downs)
             \/ /\ ToSet(p.downs) \subseteq ToSet(Typed(p, k, what).downs)
                /\ what = "up" => k \in ToSet(Typed(p, k, what).downs)
<1> DEFINE q == Make(p, k)
<1>0. /\ ListSize \in Nat /\ ListSize > 2
      /\ Len(p.downs) \in Nat /\ k \in AllKeys /\ Keys \subseteq AllKeys
      /\ p.downs \in Seq(AllKeys) /\ p.presses \in Seq(AllKeys)
      /\ p.down \in [AllKeys -> 0..2]
    BY ServicesAssumption DEF PendingKeys, AllKeys
<1>1. PICK l \in Seq(AllKeys) :
        /\ l = Listed(p.downs, k) /\ Len(l) < ListSize
        /\ \/ Len(p.downs) + 1 = ListSize /\ l = <<>>
           \/ Len(l) = Len(p.downs) + 1 /\ ToSet(l) = ToSet(p.downs) \cup {k}
    BY <1>0, ListGrows
<1>2. /\ q \in PendingKeys /\ Len(q.downs) < ListSize
      /\ q.down[k] = 1
      /\ \A j \in Keys \ {k} : q.down[j] = p.down[j]
      /\ \/ Len(p.downs) + 1 = ListSize /\ q.downs = <<>>
         \/ /\ Len(q.downs) \in {Len(p.downs), Len(p.downs) + 1}
            /\ ToSet(p.downs) \subseteq ToSet(q.downs)
    <2>1. CASE p.down[k] = 1 BY <1>0, <2>1 DEF Make
    <2>2. CASE p.down[k] # 1
        <3>1. q = [p EXCEPT !.down[k] = 1, !.downs = l] BY <1>1, <2>2 DEF Make
        <3>2. /\ q.down = [p.down EXCEPT ![k] = 1] /\ q.downs = l
              /\ q.presses = p.presses
            BY <3>1 DEF PendingKeys
        <3>3. q.down \in [AllKeys -> 0..2] BY <1>0, <3>2
        <3>4. q = [down |-> q.down, downs |-> q.downs, presses |-> q.presses]
            BY <3>1 DEF PendingKeys
        <3>5. q \in PendingKeys BY <1>0, <3>2, <3>3, <3>4 DEF PendingKeys
        <3>6. q.down[k] = 1 /\ \A j \in Keys \ {k} : q.down[j] = p.down[j]
            BY <1>0, <3>2
        <3>7. \/ Len(p.downs) + 1 = ListSize /\ q.downs = <<>>
              \/ /\ Len(q.downs) \in {Len(p.downs), Len(p.downs) + 1}
                 /\ ToSet(p.downs) \subseteq ToSet(q.downs)
            BY <1>1, <3>2
        <3> QED BY <1>1, <3>2, <3>5, <3>6, <3>7
    <2> QED BY <2>1, <2>2
<1>3. CASE what = "down"
    <2>1. Typed(p, k, what) = q BY <1>3 DEF Typed
    <2>2. \/ Len(q.downs) < Len(p.downs)
          \/ ToSet(p.downs) \subseteq ToSet(q.downs)
        <3>1. CASE Len(p.downs) + 1 = ListSize /\ q.downs = <<>>
            <4>1. Len(q.downs) = 0 BY <3>1
            <4> QED BY <1>0, <3>1, <4>1
        <3> QED BY <1>2, <3>1
    <2> QED BY <1>2, <1>3, <2>1, <2>2
<1>4. CASE what = "up"
    <2> DEFINE r == Typed(p, k, what)
    <2>1. r = [down |-> [q.down EXCEPT ![k] = 2], downs |-> Listed(q.downs, k),
               presses |-> Listed(q.presses, k)]
        BY <1>2, <1>4 DEF Typed, Break
    <2>2. PICK m \in Seq(AllKeys) :
            /\ m = Listed(q.downs, k) /\ Len(m) < ListSize
            /\ \/ Len(q.downs) + 1 = ListSize /\ m = <<>>
               \/ Len(m) = Len(q.downs) + 1 /\ ToSet(m) = ToSet(q.downs) \cup {k}
        BY <1>0, <1>2, ListGrows DEF PendingKeys
    <2>3. Listed(q.presses, k) \in Seq(AllKeys)
        BY <1>0, <1>2 DEF Listed, PendingKeys
    <2>4. [q.down EXCEPT ![k] = 2] \in [AllKeys -> 0..2] BY <1>0, <1>2 DEF PendingKeys
    <2>5. r \in PendingKeys /\ r.downs = m BY <2>1, <2>2, <2>3, <2>4 DEF PendingKeys
    <2>6. r.down[k] = 2 /\ \A j \in Keys \ {k} : r.down[j] = p.down[j]
        BY <1>0, <1>2, <2>1 DEF PendingKeys
    <2>7. Len(q.downs) \in Nat /\ Len(<<>>) = 0 BY <1>2 DEF PendingKeys
    <2>8. Len(m) < Len(p.downs)
          \/ (ToSet(p.downs) \subseteq ToSet(m) /\ k \in ToSet(m))
        <3>1. CASE Len(q.downs) + 1 = ListSize /\ m = <<>>
            BY <1>0, <1>2, <2>7, <3>1
        <3>2. CASE Len(m) = Len(q.downs) + 1 /\ ToSet(m) = ToSet(q.downs) \cup {k}
            BY <1>0, <1>2, <2>7, <3>2
        <3> QED BY <2>2, <3>1, <3>2
    <2> QED BY <1>4, <2>2, <2>5, <2>6, <2>8
<1> QED BY <1>3, <1>4

\* Nothing is pending at first.
LEMMA InputStart == InputInit => InputOK
<1> SUFFICES ASSUME InputInit PROVE InputOK OBVIOUS
<1> USE DEF InputInit
<1>1. /\ NothingPending \in PendingKeys /\ Len(NothingPending.downs) < ListSize
      /\ NoMouse \in Mice
    BY ServicesAssumption DEF NothingPending, PendingKeys, NoKeys, NoMouse, Mice
<1>2. InputTypeOK
    <2>1. last \in [Keys \cup {Button} -> {"none", "down", "up"}] OBVIOUS
    <2> QED BY <1>1, <2>1 DEF InputTypeOK
<1>3. \A c \in Keys \cup {Button} : last[c] = "none" OBVIOUS
<1> QED BY <1>2, <1>3 DEF InputOK, ClearingOK, ButtonOK, ReleaseOK

\* The main thread's keyboard events.
LEMMA KeyStep ==
    ASSUME InputOK, NEW k \in Keys, NEW what \in {"down", "up"}, HandleKey(k, what)
    PROVE InputOK'
<1> USE DEF InputOK
<1>0. /\ clearing = "no" /\ Idle
      /\ wrapped' = (wrapped \/ Len(pending'.downs) < Len(pending.downs))
      /\ last' = [last EXCEPT ![k] = what]
      /\ mouse' = mouse /\ shown' = shown /\ reading' = reading /\ clearing' = clearing
    BY DEF HandleKey
<1>1. PICK q \in PendingKeys :
        /\ pending' = q
        /\ Len(q.downs) < ListSize
        /\ \A j \in Keys \ {k} : q.down[j] = pending.down[j]
        /\ what = "up" => q.down[k] = 2
        /\ \/ Len(q.downs) < Len(pending.downs)
           \/ /\ ToSet(pending.downs) \subseteq ToSet(q.downs)
              /\ what = "up" => k \in ToSet(q.downs)
    <2>1. pending \in PendingKeys /\ Len(pending.downs) < ListSize BY DEF InputTypeOK
    <2>2. pending' = Typed(pending, k, what) BY DEF HandleKey
    <2> DEFINE q == Typed(pending, k, what)
    <2>3. /\ q \in PendingKeys
          /\ Len(q.downs) < ListSize
          /\ \A j \in Keys \ {k} : q.down[j] = pending.down[j]
          /\ what = "up" => q.down[k] = 2
          /\ \/ Len(q.downs) < Len(pending.downs)
             \/ /\ ToSet(pending.downs) \subseteq ToSet(q.downs)
                /\ what = "up" => k \in ToSet(q.downs)
        BY <2>1, KeyListed
    <2> HIDE DEF q
    <2>4. pending' = q BY <2>2 DEF q
    <2> QED BY <2>3, <2>4
<1>2. \A c \in Keys \cup {Button} : last'[c] = IF c = k THEN what ELSE last[c]
    BY <1>0 DEF InputTypeOK
<1>3. InputTypeOK' BY <1>0, <1>1, <1>2 DEF InputTypeOK
<1>4. Idle' /\ ClearingOK' BY <1>0 DEF Idle, ClearingOK
<1>5. k # Button BY ServicesAssumption DEF Button
<1>6. ButtonOK' BY <1>0, <1>2, <1>4, <1>5 DEF ButtonOK
<1>7. ASSUME ~wrapped', NEW j \in Keys, last'[j] = "up"
      PROVE \/ pending'.down[j] = 2 /\ j \in ToSet(pending'.downs)
            \/ pending'.down[j] = 0 /\ ~shown'.key[j]
    <2>1. /\ ~wrapped
          /\ ToSet(pending.downs) \subseteq ToSet(q.downs)
          /\ what = "up" => k \in ToSet(q.downs)
        BY <1>0, <1>1, <1>7
    <2>2. CASE j = k BY <1>1, <1>2, <1>7, <2>1, <2>2
    <2>3. CASE j # k
        <3>1. \/ pending.down[j] = 2 /\ j \in ToSet(pending.downs)
              \/ pending.down[j] = 0 /\ ~shown.key[j]
            BY <1>0, <1>2, <1>7, <2>1, <2>3 DEF ReleaseOK
        <3> QED BY <1>0, <1>1, <2>1, <2>3, <3>1
    <2> QED BY <2>2, <2>3
<1> QED BY <1>3, <1>4, <1>6, <1>7 DEF ReleaseOK

\* The main thread's mouse events.
LEMMA MouseStep ==
    ASSUME InputOK,
           \/ \E what \in {"down", "up"} : HandleButton(what)
           \/ \E d \in {-1, 1} : HandleMotion(d)
    PROVE InputOK'
<1> USE DEF InputOK
<1>1. /\ pending' = pending /\ shown' = shown /\ reading' = reading
      /\ clearing' = clearing /\ wrapped' = wrapped /\ Idle /\ clearing = "no"
    BY DEF HandleButton, HandleMotion
<1>2. PICK what \in {"down", "up"}, b \in BOOLEAN :
        /\ b => /\ mouse'.down = IF what = "down" THEN 1 ELSE 2
                /\ last' = [last EXCEPT ![Button] = what]
        /\ ~b => mouse'.down = mouse.down /\ last' = last
        /\ mouse' \in Mice
    <2>1. CASE \E what \in {"down", "up"} : HandleButton(what)
        <3>1. PICK what \in {"down", "up"} : HandleButton(what) BY <2>1
        <3>2. last' = [last EXCEPT ![Button] = what] BY <3>1 DEF HandleButton
        <3>3. mouse'.down = (IF what = "down" THEN 1 ELSE 2) /\ mouse' \in Mice
            <4>1. mouse \in Mice BY DEF InputTypeOK
            <4>2. CASE what = "down"
                <5>1. mouse' = [mouse EXCEPT !.down = 1] BY <3>1, <4>2 DEF HandleButton
                <5> QED BY <4>1, <4>2, <5>1 DEF Mice
            <4>3. CASE what # "down"
                <5>1. mouse' = [mouse EXCEPT !.down = 2, !.click = TRUE]
                    BY <3>1, <4>3 DEF HandleButton
                <5>2. mouse' = [down |-> 2, click |-> TRUE, dx |-> mouse.dx]
                    BY <4>1, <5>1 DEF Mice
                <5> QED BY <4>1, <4>3, <5>2 DEF Mice
            <4> QED BY <4>2, <4>3
        <3> WITNESS what \in {"down", "up"}, TRUE \in BOOLEAN
        <3> QED BY <3>2, <3>3
    <2>2. CASE \E d \in {-1, 1} : HandleMotion(d)
        <3>1. mouse'.down = mouse.down /\ last' = last /\ mouse' \in Mice
            BY <2>2 DEF HandleMotion, InputTypeOK, Mice
        <3> WITNESS "up" \in {"down", "up"}, FALSE \in BOOLEAN
        <3> QED BY <3>1
    <2> QED BY <2>1, <2>2
<1>3. /\ \A k \in Keys : last'[k] = last[k]
      /\ last' \in [Keys \cup {Button} -> {"none", "down", "up"}]
      /\ last'[Button] = IF b THEN what ELSE last[Button]
    BY <1>2, ServicesAssumption DEF InputTypeOK, Button
<1>4. mouse' \in Mice BY <1>2
<1>5. Idle' /\ ClearingOK' BY <1>1, <1>3 DEF Idle, ClearingOK
<1>6. InputTypeOK' BY <1>1, <1>3, <1>4 DEF InputTypeOK
<1>7. ButtonOK' BY <1>1, <1>2, <1>3, <1>5 DEF ButtonOK
<1>8. ASSUME ~wrapped', NEW k \in Keys PROVE ReleaseOK(k)'
    BY <1>1, <1>3, <1>5, <1>8 DEF ReleaseOK
<1> QED BY <1>5, <1>6, <1>7, <1>8

\* ClearInput: no event is remembered from before it.
LEMMA ClearStep ==
    ASSUME InputOK, Activate \/ ClearPending \/ ClearCurrent
    PROVE InputOK'
<1> USE DEF InputOK
<1>1. wrapped' = wrapped
    BY DEF Activate, ClearPending, ClearCurrent
<1>2. \A c \in Keys \cup {Button} : last'[c] = "none"
    BY DEF Activate, ClearPending, ClearCurrent, ClearingOK, InputTypeOK
<1>3. last' \in [Keys \cup {Button} -> {"none", "down", "up"}]
    BY DEF Activate, ClearPending, ClearCurrent, InputTypeOK
<1>4. clearing' \in {"no", "pending", "current"}
    BY DEF Activate, ClearPending, ClearCurrent
<1>5. mouse' \in Mice
    <2>1. CASE Activate \/ ClearCurrent BY <2>1 DEF Activate, ClearCurrent, InputTypeOK
    <2>2. CASE ClearPending
        <3>1. mouse' = [down |-> 0, click |-> FALSE, dx |-> mouse.dx]
            BY <2>2 DEF ClearPending, NoMouse
        <3> QED BY <3>1 DEF InputTypeOK, Mice
    <2> QED BY <2>1, <2>2
<1>6. pending' \in PendingKeys /\ Len(pending'.downs) < ListSize
    <2>1. CASE Activate \/ ClearCurrent
        BY <2>1 DEF Activate, ClearCurrent, InputTypeOK
    <2>2. CASE ClearPending
        <3> DEFINE zeros(list) == [i \in DOMAIN list |-> 0]
        <3>1. ASSUME NEW list \in Seq(AllKeys)
              PROVE zeros(list) \in Seq(AllKeys) /\ Len(zeros(list)) = Len(list)
            <4>1. zeros(list) = [i \in 1 .. Len(list) |-> 0] OBVIOUS
            <4>2. 0 \in AllKeys /\ Len(list) \in Nat BY DEF AllKeys
            <4>3. zeros(list) \in [1 .. Len(list) -> AllKeys] BY <4>1, <4>2
            <4> QED BY <4>1, <4>2, <4>3
        <3>2. NoKeys \in [AllKeys -> 0..2] BY DEF NoKeys
        <3>3. pending.downs \in Seq(AllKeys) /\ pending.presses \in Seq(AllKeys)
            BY DEF InputTypeOK, PendingKeys
        <3>4. pending' = [down |-> NoKeys, downs |-> zeros(pending.downs),
                          presses |-> zeros(pending.presses)]
            BY <2>2 DEF ClearPending
        <3> HIDE DEF zeros
        <3> QED BY <3>1, <3>2, <3>3, <3>4 DEF InputTypeOK, PendingKeys
    <2> QED BY <2>1, <2>2
<1>7. InputTypeOK' BY <1>1, <1>3, <1>4, <1>5, <1>6 DEF InputTypeOK
<1> QED BY <1>2, <1>7 DEF ClearingOK, ButtonOK, ReleaseOK

\* ProcessSim takes the releases that are pending.
LEMMA ReadStep ==
    ASSUME InputOK, ReadPending
    PROVE InputOK'
<1> USE DEF InputOK
<1>1. /\ pending' = pending /\ mouse' = mouse /\ shown' = shown
      /\ clearing' = clearing /\ last' = last /\ wrapped' = wrapped
      /\ Idle
    BY DEF ReadPending
<1>2. PICK press : reading' =
        [key |-> KeysRead, press |-> press,
         button |-> IF mouse.down # 0 THEN mouse.down = 1 ELSE shown.button,
         click |-> mouse.click, dx |-> mouse.dx,
         keys |-> ToSet(pending.downs), buttons |-> mouse.down # 0]
    BY DEF ReadPending
<1>3. /\ reading'.keys = ToSet(pending.downs)
      /\ reading'.buttons <=> mouse.down # 0
      /\ mouse.down # 0 => (reading'.button <=> mouse.down = 1)
      /\ reading'.key = KeysRead
    BY <1>2
<1>4. ~Idle' BY <1>2 DEF Idle, None
<1>5. InputTypeOK' /\ ClearingOK' BY <1>1 DEF InputTypeOK, ClearingOK
<1>6. ButtonOK'
    <2> SUFFICES ASSUME last'[Button] = "up"
                 PROVE IF reading'.buttons THEN ~reading'.button ELSE ~shown'.button
        BY <1>4 DEF ButtonOK
    <2>1. mouse.down = 2 \/ (mouse.down = 0 /\ ~shown.button) BY <1>1 DEF ButtonOK
    <2> QED BY <1>1, <1>3, <2>1
<1>7. ASSUME ~wrapped', NEW k \in Keys PROVE ReleaseOK(k)'
    <2> SUFFICES ASSUME last'[k] = "up"
                 PROVE IF k \in reading'.keys THEN ~reading'.key[k] ELSE ~shown'.key[k]
        BY <1>4 DEF ReleaseOK
    <2>1. \/ pending.down[k] = 2 /\ k \in ToSet(pending.downs)
          \/ pending.down[k] = 0 /\ ~shown.key[k]
        BY <1>1, <1>7 DEF ReleaseOK
    <2>2. k \in ToSet(pending.downs) => (reading'.key[k] <=> pending.down[k] = 1)
        BY <1>3 DEF KeysRead, AllKeys
    <2> QED BY <1>1, <1>3, <2>1, <2>2
<1> QED BY <1>5, <1>6, <1>7

\* What has been taken reads as up.
LEMMA WriteStep ==
    ASSUME InputOK, WriteShown
    PROVE InputOK'
<1> USE DEF InputOK
<1>1. /\ ~Idle /\ pending' = NothingPending /\ mouse' = NoMouse /\ reading' = None
      /\ clearing' = clearing /\ last' = last /\ wrapped' = wrapped
    BY DEF WriteShown
<1>2. /\ \A k \in AllKeys : shown'.key[k] = IF k \in reading.keys THEN reading.key[k]
                                            ELSE shown.key[k]
      /\ shown'.button = IF reading.buttons THEN reading.button ELSE shown.button
    BY DEF WriteShown
<1>3. Idle' BY <1>1 DEF Idle
<1>4. /\ NothingPending \in PendingKeys /\ Len(NothingPending.downs) < ListSize
      /\ NoMouse \in Mice
    BY ServicesAssumption DEF NothingPending, PendingKeys, NoKeys, NoMouse, Mice
<1>5. InputTypeOK' /\ ClearingOK' BY <1>1, <1>4 DEF InputTypeOK, ClearingOK
<1>6. mouse'.down = 0 /\ \A k \in AllKeys : pending'.down[k] = 0
    BY <1>1 DEF NoMouse, NothingPending, NoKeys
<1>7. ButtonOK' BY <1>1, <1>2, <1>3, <1>6 DEF ButtonOK
<1>8. ASSUME ~wrapped', NEW k \in Keys PROVE ReleaseOK(k)'
    <2>1. k \in AllKeys BY DEF AllKeys
    <2> QED BY <1>1, <1>2, <1>3, <1>6, <1>8, <2>1 DEF ReleaseOK
<1> QED BY <1>5, <1>7, <1>8

\* The invariant of the keyboard and the mouse: a release that was handled is
\* in the list, in what an update has read, or has been taken.
THEOREM InputInvariant == Spec => []InputOK
<1>1. Init => InputOK BY InputStart DEF Init
<1>2. InputOK /\ [Next]_vars => InputOK'
    <2> SUFFICES ASSUME InputOK, [Next]_vars PROVE InputOK' OBVIOUS
    <2>1. CASE InputNext BY <2>1, KeyStep, MouseStep, ClearStep, ReadStep, WriteStep
                         DEF InputNext
    <2>2. CASE UNCHANGED inputVars
        BY <2>2 DEF inputVars, InputOK, InputTypeOK, ClearingOK, ButtonOK, ReleaseOK, Idle
    <2> QED BY <2>1, <2>2 DEF Next, vars
<1> QED BY <1>1, <1>2, PTL DEF Spec

\* The input of XInputManagerComponentImpl.cpp: a key or a button whose release
\* an update has taken reads as up, however the unlocked ClearInput and the
\* updates interleave, for any keyboard and any list long enough to hold an
\* event's press and its release beside another event.
THEOREM TakenReleases == Spec => []ReleasedReadsUp
<1>1. InputOK => ReleasedReadsUp
    BY DEF InputOK, InputTypeOK, ButtonOK, ReleaseOK, ReleasedReadsUp
<1> QED BY <1>1, InputInvariant, PTL

-----------------------------------------------------------------------------
(* The steps of the gamepads.                                              *)

\* All pads are taken to be connected at first.
LEMMA PadsStart == PadsInit => PadsOK
BY DEF PadsInit, PadsOK, PadsTypeOK, PadsAreInOneSet, WalksOK

\* What is plugged in and held may change at any time, and so may the press.
LEMMA WorldStep ==
    ASSUME PadsOK, NEW p \in Pads, Plug(p) \/ Unplug(p) \/ Hold(p) \/ IsButtonPress(p)
    PROVE PadsOK'
<1> USE DEF PadsOK
<1>1. UNCHANGED <<connected, disconnected, simVars, checkVars>>
    BY DEF Plug, Unplug, Hold, IsButtonPress
<1>2. /\ pad' \in [Pads -> [isConnected : BOOLEAN, down : BOOLEAN, press : 0..2]]
      /\ \A q \in Pads : pad'[q].isConnected = pad[q].isConnected
    <2>1. CASE Plug(p) \/ Unplug(p) \/ Hold(p)
        BY <2>1 DEF Plug, Unplug, Hold, PadsTypeOK
    <2>2. CASE IsButtonPress(p)
        <3>1. PICK b : b = IF Pressed(pad[p]) = 2 THEN 0 ELSE Pressed(pad[p]) OBVIOUS
        <3>2. b \in 0..2 BY <3>1 DEF Pressed, PadsTypeOK
        <3>3. pad' = [pad EXCEPT ![p].press = b] BY <2>2, <3>1 DEF IsButtonPress
        <3> QED BY <3>2, <3>3 DEF PadsTypeOK
    <2> QED BY <2>1, <2>2
<1> QED BY <1>1, <1>2 DEF PadsTypeOK, PadsAreInOneSet, WalksOK, simVars, checkVars

\* The sim thread moves only pads that it found in the set of the connected,
\* and nobody else takes them out of it.
LEMMA SimStep == ASSUME PadsOK, Sim PROVE PadsOK'
<1> USE DEF PadsOK
<1>1. CASE ProcessSim
    <2>1. /\ UNCHANGED <<connected, disconnected, pad, simLost, checkVars>>
          /\ simLost = NoPad /\ simWalk' = connected
        BY <1>1 DEF ProcessSim, Reading
    <2>2. connected \subseteq connected \ {NoPad} BY ServicesAssumption DEF PadsTypeOK
    <2> QED BY <2>1, <2>2 DEF checkVars, PadsTypeOK, PadsAreInOneSet, WalksOK
<1>2. CASE \E p \in Pads : ReadPad(p)
    <2>1. PICK p \in Pads : ReadPad(p) BY <1>2
    <2>2. /\ connected' = connected /\ disconnected' = disconnected
          /\ checkPc' = checkPc /\ checkWalk' = checkWalk /\ checkFound' = checkFound
          /\ p \in simWalk /\ simWalk' = simWalk \ {p} /\ simLost = NoPad
          /\ simLost' \in {NoPad, p}
        BY <2>1 DEF ReadPad, checkVars
    <2>3. /\ pad' \in [Pads -> [isConnected : BOOLEAN, down : BOOLEAN, press : 0..2]]
          /\ \A q \in Pads : pad'[q].isConnected = pad[q].isConnected
        <3> DEFINE b == p \in held
        <3>1. b \in BOOLEAN OBVIOUS
        <3>2. pad' = pad \/ pad' = [pad EXCEPT ![p].down = b] BY <2>1 DEF ReadPad
        <3> HIDE DEF b
        <3> QED BY <3>1, <3>2 DEF PadsTypeOK
    <2> QED BY <2>2, <2>3 DEF PadsTypeOK, PadsAreInOneSet, WalksOK
<1>3. CASE LosePad
    <2>1. /\ simLost # NoPad /\ simLost' = NoPad
          /\ disconnected' = disconnected \cup {simLost}
          /\ connected' = connected \ {simLost}
          /\ pad' = [pad EXCEPT ![simLost].isConnected = FALSE]
          /\ simWalk' = simWalk
          /\ checkPc' = checkPc /\ checkWalk' = checkWalk /\ checkFound' = checkFound
        BY <1>3 DEF LosePad, checkVars
    <2>2. simLost \in connected /\ simLost \in Pads
        BY <2>1 DEF WalksOK, PadsTypeOK
    <2>3. /\ pad' \in [Pads -> [isConnected : BOOLEAN, down : BOOLEAN, press : 0..2]]
          /\ \A q \in Pads : pad'[q].isConnected = IF q = simLost THEN FALSE
                                                   ELSE pad[q].isConnected
        BY <2>1, <2>2 DEF PadsTypeOK
    <2>4. PadsTypeOK' BY <2>1, <2>3 DEF PadsTypeOK
    <2>5. PadsAreInOneSet' BY <2>1, <2>2, <2>3 DEF PadsTypeOK, PadsAreInOneSet
    <2>6. WalksOK' BY <2>1, <2>2, ServicesAssumption DEF WalksOK, PadsTypeOK, PadsAreInOneSet
    <2> QED BY <2>4, <2>5, <2>6
<1> QED BY <1>1, <1>2, <1>3 DEF Sim

\* The check thread moves only pads that it found in the other set.
LEMMA CheckStep == ASSUME PadsOK, Check PROVE PadsOK'
<1> USE DEF PadsOK
<1>1. CASE CheckLoops \/ CheckSleeps \/ \E p \in Pads : TryPad(p)
    <2>1. UNCHANGED <<connected, disconnected, pad, simVars>>
        BY <1>1 DEF CheckLoops, CheckSleeps, TryPad
    <2>2. PadsTypeOK' /\ PadsAreInOneSet'
        BY <1>1, <2>1 DEF CheckLoops, CheckSleeps, TryPad, PadsTypeOK, PadsAreInOneSet
    <2>3. CASE CheckLoops
        <3>1. /\ checkPc = "head" /\ checkFound' = checkFound
              /\ checkPc' \in {"walk", "exited"}
              /\ \/ checkWalk' = disconnected /\ checkPc' = "walk"
                 \/ checkWalk' = checkWalk
            BY <2>3 DEF CheckLoops
        <3>2. checkFound = NoPad /\ checkWalk = {} BY <3>1 DEF WalksOK
        <3>3. disconnected \subseteq disconnected \ {NoPad}
            BY ServicesAssumption DEF PadsAreInOneSet
        <3>4. /\ checkWalk' \subseteq disconnected \ {NoPad}
              /\ checkPc' # "walk" => checkWalk' = {}
            BY <3>1, <3>2, <3>3
        <3>5. /\ simWalk' = simWalk /\ simLost' = simLost
              /\ connected' = connected /\ disconnected' = disconnected
            BY <2>1 DEF simVars
        <3>6. checkFound' = NoPad BY <3>1, <3>2
        <3>7. WalksOK' BY <3>4, <3>5, <3>6 DEF WalksOK
        <3> QED BY <2>2, <3>7
    <2>4. CASE CheckSleeps BY <2>1, <2>2, <2>4 DEF CheckSleeps, simVars, WalksOK
    <2>5. CASE \E p \in Pads : TryPad(p)
        <3>1. PICK p \in Pads : TryPad(p) BY <2>5
        <3>2. /\ p \in checkWalk /\ checkWalk' = checkWalk \ {p}
              /\ checkFound = NoPad /\ checkFound' \in {p, NoPad} /\ checkPc' = checkPc
            BY <3>1 DEF TryPad
        <3> QED BY <2>1, <2>2, <3>2 DEF simVars, WalksOK
    <2> QED BY <1>1, <2>3, <2>4, <2>5
<1>2. CASE FindPad
    <2>1. /\ checkFound # NoPad /\ checkFound' = NoPad
          /\ disconnected' = disconnected \ {checkFound}
          /\ connected' = connected \cup {checkFound}
          /\ pad' = [pad EXCEPT ![checkFound].isConnected = TRUE]
          /\ simWalk' = simWalk /\ simLost' = simLost
          /\ checkPc' = checkPc /\ checkWalk' = checkWalk
        BY <1>2 DEF FindPad, StillOut, simVars
    <2>2. checkFound \in disconnected /\ checkFound \in Pads
        BY <2>1 DEF WalksOK, PadsAreInOneSet
    <2>3. /\ pad' \in [Pads -> [isConnected : BOOLEAN, down : BOOLEAN, press : 0..2]]
          /\ \A q \in Pads : pad'[q].isConnected = IF q = checkFound THEN TRUE
                                                   ELSE pad[q].isConnected
        BY <2>1, <2>2 DEF PadsTypeOK
    <2>4. PadsTypeOK' BY <2>1, <2>2, <2>3 DEF PadsTypeOK
    <2>5. PadsAreInOneSet' BY <2>1, <2>2, <2>3 DEF PadsTypeOK, PadsAreInOneSet
    <2>6. WalksOK' BY <2>1, <2>2, ServicesAssumption DEF WalksOK, PadsTypeOK, PadsAreInOneSet
    <2> QED BY <2>4, <2>5, <2>6
<1> QED BY <1>1, <1>2 DEF Check

\* The invariant of the gamepads: the pads that one thread has still to move
\* are in the set it found them in.
THEOREM PadsInvariant == Spec => []PadsOK
<1>1. Init => PadsOK BY PadsStart DEF Init
<1>2. PadsOK /\ [Next]_vars => PadsOK'
    <2> SUFFICES ASSUME PadsOK, [Next]_vars PROVE PadsOK' OBVIOUS
    <2>1. CASE PadsNext
        <3>1. CASE DestructorStarts \/ DestructorJoins
            BY <3>1 DEF DestructorStarts, DestructorJoins, simVars, checkVars,
                        PadsOK, PadsTypeOK, PadsAreInOneSet, WalksOK
        <3> QED BY <2>1, <3>1, WorldStep, SimStep, CheckStep DEF PadsNext
    <2>2. CASE UNCHANGED padVars
        BY <2>2 DEF padVars, simVars, checkVars, PadsOK, PadsTypeOK, PadsAreInOneSet, WalksOK
    <2> QED BY <2>1, <2>2 DEF Next, vars
<1> QED BY <1>1, <1>2, PTL DEF Spec

\* The gamepads of XInputManagerComponentImpl.cpp: every pad is in one of the
\* two sets exactly and says so itself, though two threads move pads from
\* copies of the sets, for any number of pads.
THEOREM PadsInOneSet == Spec => []PadsAreInOneSet
<1>1. PadsOK => PadsAreInOneSet BY DEF PadsOK
<1> QED BY <1>1, PadsInvariant, PTL

-----------------------------------------------------------------------------
(* The steps of the log.                                                   *)

Entries == 1..MaxEntries

\* How many entries are in four sequences, and which.
LEMMA FourPlaces ==
    ASSUME NEW Elems, NEW a \in Seq(Elems), NEW b \in Seq(Elems), NEW c \in Seq(Elems),
           NEW d \in Seq(Elems)
    PROVE /\ Len(a \o b \o c \o d) = Len(a) + Len(b) + Len(c) + Len(d)
          /\ L!ToSet(a \o b \o c \o d) = ToSet(a) \cup ToSet(b) \cup ToSet(c) \cup ToSet(d)
<1>1. a \o b \in Seq(Elems) /\ Len(a \o b) = Len(a) + Len(b)
      /\ ToSet(a \o b) = ToSet(a) \cup ToSet(b)
    BY ConcatProperties, ConcatSet
<1>2. PICK ab \in Seq(Elems) : ab = a \o b BY <1>1
<1>3. ab \o c \in Seq(Elems) /\ Len(ab \o c) = Len(ab) + Len(c)
      /\ ToSet(ab \o c) = ToSet(ab) \cup ToSet(c)
    BY ConcatProperties, ConcatSet
<1>4. PICK abc \in Seq(Elems) : abc = ab \o c BY <1>3
<1>5. Len(abc \o d) = Len(abc) + Len(d)
      /\ ToSet(abc \o d) = ToSet(abc) \cup ToSet(d)
    BY ConcatProperties, ConcatSet
<1>6. \A s : L!ToSet(s) = ToSet(s) BY DEF L!ToSet, ToSet
<1> QED BY <1>1, <1>2, <1>3, <1>4, <1>5, <1>6

\* The four places an entry can be in, as numbers and sets.
LogPlaces ==
    /\ Len(logEvents) + Len(batch) + Len(sync) + Len(file) = logged
    /\ ToSet(logEvents) \cup ToSet(batch) \cup ToSet(sync) \cup ToSet(file) = 1..logged

LogTypeOK ==
    /\ logEvents \in Seq(Entries) /\ batch \in Seq(Entries)
    /\ sync \in Seq(Entries) /\ file \in Seq(Entries)
    /\ logged \in 0..MaxEntries
    /\ logRun \in BOOLEAN /\ syncing \in BOOLEAN
    /\ logPc \in {"head", "check", "asleep", "write", "exited"}
    /\ logLife \in {"alive", "joining", "gone"}
    /\ batch # <<>> => logPc = "write"
    /\ sync # <<>> => syncing

LEMMA LogMeans == LogOK <=> LogTypeOK /\ LogPlaces
<1>1. L!TypeOK <=> LogTypeOK BY DEF L!TypeOK, LogTypeOK, L!Entries, Entries
<1>2. ASSUME LogTypeOK PROVE L!EveryEntryIsInOnePlace <=> LogPlaces
    <2>1. /\ logEvents \in Seq(Entries) /\ batch \in Seq(Entries)
          /\ sync \in Seq(Entries) /\ file \in Seq(Entries)
        BY <1>2 DEF LogTypeOK
    <2>2. /\ Len(logEvents \o batch \o sync \o file)
             = Len(logEvents) + Len(batch) + Len(sync) + Len(file)
          /\ L!ToSet(logEvents \o batch \o sync \o file)
             = ToSet(logEvents) \cup ToSet(batch) \cup ToSet(sync) \cup ToSet(file)
        BY <2>1, FourPlaces
    <2> QED BY <2>2 DEF L!EveryEntryIsInOnePlace, LogPlaces
<1> QED BY <1>1, <1>2 DEF LogOK

LEMMA LogStart == L!Init => LogTypeOK /\ LogPlaces
<1> SUFFICES ASSUME L!Init PROVE LogTypeOK /\ LogPlaces OBVIOUS
<1>1. MaxEntries \in Nat /\ 1..0 = {} BY ServicesAssumption
<1>2. LogTypeOK
    <2>1. <<>> \in Seq(Entries) /\ 0 \in 0..MaxEntries BY <1>1
    <2> QED BY <2>1 DEF L!Init, LogTypeOK
<1>3. LogPlaces BY <1>1 DEF L!Init, LogPlaces, ToSet
<1> QED BY <1>2, <1>3

\* A caller that logs, flushes, or begins or ends the destruction.
LEMMA CallerStep ==
    ASSUME LogTypeOK, LogPlaces,
           L!Log \/ L!Flush \/ L!DestructorStarts \/ L!DestructorJoins
    PROVE LogTypeOK' /\ LogPlaces'
<1>0. /\ batch' = batch /\ sync' = sync /\ file' = file
      /\ syncing' = syncing
    BY DEF L!Log, L!Flush, L!DestructorStarts, L!DestructorJoins
<1>1. /\ logPc' \in {"head", "check", "asleep", "write", "exited"}
      /\ logPc = "write" => logPc' = "write"
    BY DEF LogTypeOK, L!Notify, L!Log, L!Flush, L!DestructorStarts, L!DestructorJoins
<1>2. logRun' \in BOOLEAN /\ logLife' \in {"alive", "joining", "gone"}
    BY DEF LogTypeOK, L!Log, L!Flush, L!DestructorStarts, L!DestructorJoins
<1>3. CASE L!Log
    <2>1. /\ logged \in Nat /\ logged + 1 \in Entries /\ logged + 1 \in 0..MaxEntries
          /\ logged' = logged + 1 /\ logEvents' = Append(logEvents, logged + 1)
          /\ logEvents \in Seq(Entries)
        BY <1>3, ServicesAssumption DEF L!Log, LogTypeOK, Entries
    <2>2. /\ logEvents' \in Seq(Entries) /\ Len(logEvents') = Len(logEvents) + 1
          /\ ToSet(logEvents') = ToSet(logEvents) \cup {logged + 1}
        BY <2>1, AppendProperties, AppendSet
    <2>3. LogTypeOK' BY <1>0, <1>1, <1>2, <2>1, <2>2 DEF LogTypeOK
    <2>4. 1..logged + 1 = (1..logged) \cup {logged + 1} BY <2>1
    <2>5. /\ Len(logEvents) \in Nat /\ Len(batch) \in Nat
          /\ Len(sync) \in Nat /\ Len(file) \in Nat
        BY DEF LogTypeOK
    <2>6. Len(logEvents') + Len(batch) + Len(sync) + Len(file) = logged'
        BY <2>1, <2>2, <2>5 DEF LogPlaces
    <2>7. ToSet(logEvents') \cup ToSet(batch) \cup ToSet(sync) \cup ToSet(file) = 1..logged'
        BY <2>1, <2>2, <2>4 DEF LogPlaces
    <2> QED BY <1>0, <2>3, <2>6, <2>7 DEF LogPlaces
<1>4. CASE L!Flush \/ L!DestructorStarts \/ L!DestructorJoins
    <2>1. logged' = logged /\ logEvents' = logEvents
        BY <1>4 DEF L!Flush, L!DestructorStarts, L!DestructorJoins
    <2> QED BY <1>0, <1>1, <1>2, <2>1 DEF LogTypeOK, LogPlaces
<1> QED BY <1>3, <1>4

\* FlushSync on a caller's thread.
LEMMA SyncStep ==
    ASSUME LogTypeOK, LogPlaces, L!FlushSyncTakes \/ L!FlushSyncWrites
    PROVE LogTypeOK' /\ LogPlaces'
<1>0. /\ batch' = batch /\ logged' = logged /\ logRun' = logRun
      /\ logPc' = logPc /\ logLife' = logLife
    BY DEF L!FlushSyncTakes, L!FlushSyncWrites
<1>1. /\ logEvents \in Seq(Entries) /\ sync \in Seq(Entries) /\ file \in Seq(Entries)
      /\ <<>> \in Seq(Entries) /\ Len(<<>>) = 0 /\ ToSet(<<>>) = {}
      /\ Len(logEvents) \in Nat /\ Len(batch) \in Nat
      /\ Len(sync) \in Nat /\ Len(file) \in Nat
    BY DEF LogTypeOK, ToSet
<1>2. CASE L!FlushSyncTakes
    <2>1. /\ sync = <<>> /\ sync' = logEvents /\ logEvents' = <<>> /\ syncing' = TRUE
          /\ file' = file
        BY <1>2 DEF L!FlushSyncTakes, L!Left, LogTypeOK
    <2>2. LogTypeOK' BY <1>0, <1>1, <2>1 DEF LogTypeOK
    <2> QED BY <1>0, <1>1, <2>1, <2>2 DEF LogPlaces
<1>3. CASE L!FlushSyncWrites
    <2>1. CASE sync = <<>>
        <3>1. syncing' = FALSE /\ sync' = sync /\ file' = file /\ logEvents' = logEvents
            BY <1>3, <2>1 DEF L!FlushSyncWrites
        <3> QED BY <1>0, <1>1, <2>1, <3>1 DEF LogTypeOK, LogPlaces
    <2>2. CASE sync # <<>>
        <3>1. /\ file' = Append(file, Head(sync)) /\ sync' = Tail(sync)
              /\ syncing' = syncing /\ logEvents' = logEvents /\ syncing
            BY <1>3, <2>2 DEF L!FlushSyncWrites
        <3>2. /\ Head(sync) \in Entries /\ sync' \in Seq(Entries)
              /\ Len(sync') + 1 = Len(sync) /\ ToSet(sync) = {Head(sync)} \cup ToSet(sync')
            BY <1>1, <2>2, <3>1, TailSet
        <3>3. /\ file' \in Seq(Entries) /\ Len(file') = Len(file) + 1
              /\ ToSet(file') = ToSet(file) \cup {Head(sync)}
            BY <1>1, <3>1, <3>2, AppendProperties, AppendSet
        <3>4. LogTypeOK' BY <1>0, <3>1, <3>2, <3>3 DEF LogTypeOK
        <3>5. Len(sync') \in Nat BY <3>2
        <3>6. Len(logEvents) + Len(batch) + Len(sync') + Len(file') = logged
            <4>1. Len(logEvents) + Len(batch) + Len(sync) + Len(file) = logged
                BY DEF LogPlaces
            <4>2. Len(sync) = Len(sync') + 1 /\ Len(file') = Len(file) + 1 BY <3>2, <3>3
            <4> QED BY <1>1, <3>5, <4>1, <4>2
        <3>7. ToSet(logEvents) \cup ToSet(batch) \cup ToSet(sync') \cup ToSet(file')
              = 1..logged
            BY <3>2, <3>3 DEF LogPlaces
        <3> QED BY <1>0, <3>1, <3>4, <3>6, <3>7 DEF LogPlaces
    <2> QED BY <2>1, <2>2
<1> QED BY <1>2, <1>3

\* The flush thread.
LEMMA FlushStep ==
    ASSUME LogTypeOK, LogPlaces, L!Worker
    PROVE LogTypeOK' /\ LogPlaces'
<1>0. /\ sync' = sync /\ logged' = logged /\ logRun' = logRun
      /\ syncing' = syncing /\ logLife' = logLife
    BY DEF L!Worker, L!WorkerLoops, L!WorkerChecks, L!WorkerTimesOut, L!WorkerWrites
<1>1. /\ logEvents \in Seq(Entries) /\ batch \in Seq(Entries) /\ file \in Seq(Entries)
      /\ <<>> \in Seq(Entries) /\ Len(<<>>) = 0 /\ ToSet(<<>>) = {}
      /\ Len(logEvents) \in Nat /\ Len(batch) \in Nat
      /\ Len(sync) \in Nat /\ Len(file) \in Nat
    BY DEF LogTypeOK, ToSet
<1>2. CASE /\ logPc # "write" /\ logEvents' = logEvents /\ batch' = batch /\ file' = file
           /\ logPc' \in {"check", "exited", "asleep"}
    <2>1. batch = <<>> BY <1>2 DEF LogTypeOK
    <2> QED BY <1>0, <1>2, <2>1 DEF LogTypeOK, LogPlaces
<1>3. CASE logPc \in {"check", "asleep"} /\ L!Take /\ file' = file
    <2>1. /\ batch = <<>> /\ batch' = logEvents /\ logEvents' = <<>> /\ logPc' = "write"
          /\ file' = file
        BY <1>3 DEF L!Take, L!Left, LogTypeOK
    <2>2. LogTypeOK' BY <1>0, <1>1, <2>1 DEF LogTypeOK
    <2> QED BY <1>0, <1>1, <2>1, <2>2 DEF LogPlaces
<1>4. CASE L!WorkerWrites
    <2>1. CASE batch = <<>>
        <3>1. logPc' = "head" /\ batch' = batch /\ file' = file /\ logEvents' = logEvents
            BY <1>4, <2>1 DEF L!WorkerWrites
        <3> QED BY <1>0, <2>1, <3>1 DEF LogTypeOK, LogPlaces
    <2>2. CASE batch # <<>>
        <3>1. /\ file' = Append(file, Head(batch)) /\ batch' = Tail(batch)
              /\ logPc' = logPc /\ logEvents' = logEvents /\ logPc = "write"
            BY <1>4, <2>2 DEF L!WorkerWrites
        <3>2. /\ Head(batch) \in Entries /\ batch' \in Seq(Entries)
              /\ Len(batch') + 1 = Len(batch)
              /\ ToSet(batch) = {Head(batch)} \cup ToSet(batch')
            BY <1>1, <2>2, <3>1, TailSet
        <3>3. /\ file' \in Seq(Entries) /\ Len(file') = Len(file) + 1
              /\ ToSet(file') = ToSet(file) \cup {Head(batch)}
            BY <1>1, <3>1, <3>2, AppendProperties, AppendSet
        <3>4. LogTypeOK' BY <1>0, <3>1, <3>2, <3>3 DEF LogTypeOK
        <3>5. Len(batch') \in Nat BY <3>2
        <3>6. Len(logEvents) + Len(batch') + Len(sync) + Len(file') = logged
            <4>1. Len(logEvents) + Len(batch) + Len(sync) + Len(file) = logged
                BY DEF LogPlaces
            <4>2. Len(batch) = Len(batch') + 1 /\ Len(file') = Len(file) + 1 BY <3>2, <3>3
            <4> QED BY <1>1, <3>5, <4>1, <4>2
        <3>7. ToSet(logEvents) \cup ToSet(batch') \cup ToSet(sync) \cup ToSet(file')
              = 1..logged
            BY <3>2, <3>3 DEF LogPlaces
        <3> QED BY <1>0, <3>1, <3>4, <3>6, <3>7 DEF LogPlaces
    <2> QED BY <2>1, <2>2
<1>5. CASE L!WorkerLoops BY <1>2, <1>5 DEF L!WorkerLoops
<1>6. CASE L!WorkerChecks BY <1>2, <1>3, <1>6 DEF L!WorkerChecks
<1>7. CASE L!WorkerTimesOut BY <1>3, <1>7 DEF L!WorkerTimesOut
<1> QED BY <1>4, <1>5, <1>6, <1>7 DEF L!Worker

\* The log of MGDFLoggerImpl.cpp: every entry that was logged is in the buffer,
\* taken by one of the two threads that flush, or in the file, and in one of
\* them only, for any number of entries and any size of the buffer.
THEOREM EntriesInOnePlace == Spec => [](L!TypeOK /\ L!EveryEntryIsInOnePlace)
<1>1. Init => LogOK BY LogStart, LogMeans DEF Init
<1>2. LogOK /\ [Next]_vars => LogOK'
    <2> SUFFICES ASSUME LogOK, [Next]_vars PROVE LogOK' OBVIOUS
    <2>1. LogTypeOK /\ LogPlaces BY LogMeans
    <2>2. CASE L!Next
        <3>1. LogTypeOK' /\ LogPlaces' 
          BY <2>1, <2>2, CallerStep, SyncStep, FlushStep DEF L!Next
        <3> QED BY <3>1, LogMeans, PTL
    <2>3. CASE UNCHANGED logVars
        BY <2>3 DEF logVars, LogOK, L!TypeOK, L!EveryEntryIsInOnePlace
    <2> QED BY <2>2, <2>3 DEF Next, vars
<1>3. LogOK <=> L!TypeOK /\ L!EveryEntryIsInOnePlace BY DEF LogOK
<1> QED BY <1>1, <1>2, <1>3, PTL DEF Spec

-----------------------------------------------------------------------------
(* The steps of the statistics.                                            *)

StatTypeOK ==
    /\ enabled \in BOOLEAN /\ run \in BOOLEAN /\ network \in BOOLEAN
    /\ events \in Seq(1..MaxStats) /\ tmp \in Seq(1..MaxStats)
    /\ queued \in Seq(1..MaxStats) /\ posted \in Seq(1..MaxStats)
    /\ pushed \in 0..MaxStats
    /\ owner \in {"free", "worker"}
    /\ pc \in {"none", "lock", "head", "check", "block", "asleep", "send", "exited"}
    /\ host \in {"up", "stopped", "notifying", "joining", "gone"}
    /\ owner = "worker" <=> pc \in {"head", "check", "block"}
    /\ ~enabled => pc = "none"
    /\ pc # "send" => tmp = <<>>
    /\ network => queued = <<>>

StatsInOrder == posted \o queued \o tmp \o events = [i \in 1..pushed |-> i]

LEMMA StatsMean == StatsOK <=> StatTypeOK /\ StatsInOrder
BY DEF StatsOK, StatTypeOK, S!TypeOK, StatsInOrder, S!StatisticsKeepTheirOrder

LEMMA StatsStart == S!Init => StatTypeOK /\ StatsInOrder
<1> SUFFICES ASSUME S!Init PROVE StatTypeOK /\ StatsInOrder OBVIOUS
<1>1. MaxStats \in Nat /\ <<>> \in Seq(1..MaxStats) /\ 0 \in 0..MaxStats
    BY ServicesAssumption
<1>2. StatTypeOK BY <1>1 DEF S!Init, StatTypeOK
<1>3. <<>> \o <<>> \o <<>> \o <<>> = [i \in 1..0 |-> i] OBVIOUS
<1> QED BY <1>2, <1>3 DEF S!Init, StatsInOrder

\* What is appended to the last of two sequences is appended to both.
LEMMA ConcatAppend ==
    ASSUME NEW T, NEW s \in Seq(T), NEW t \in Seq(T), NEW x \in T
    PROVE s \o Append(t, x) = Append(s \o t, x)
<1>1. <<x>> \in Seq(T) /\ s \o t \in Seq(T) BY ConcatProperties
<1>2. s \o Append(t, x) = s \o (t \o <<x>>) BY AppendIsConcat
<1>3. s \o (t \o <<x>>) = (s \o t) \o <<x>> BY <1>1, ConcatAssociative
<1>4. Append(s \o t, x) = (s \o t) \o <<x>> BY <1>1, AppendIsConcat
<1> QED BY <1>2, <1>3, <1>4

\* Statistics are pushed at the end.
LEMMA PushStep ==
    ASSUME StatTypeOK, StatsInOrder, S!Push
    PROVE StatTypeOK' /\ StatsInOrder'
<1>1. /\ pushed \in Nat /\ pushed' = pushed + 1 /\ pushed + 1 \in 1..MaxStats
      /\ pushed' \in 0..MaxStats
      /\ events' = Append(events, pushed + 1) /\ owner = "free" /\ enabled
      /\ tmp' = tmp /\ enabled' = enabled /\ run' = run /\ host' = host
      /\ network' = network /\ queued' = queued /\ posted' = posted
    BY ServicesAssumption DEF S!Push, S!Notify, S!workVars, S!netVars, StatTypeOK
<1>2. \/ pc = "asleep" /\ pc' = "check" /\ owner' = "worker"
      \/ pc' = pc /\ owner' = owner
    BY <1>1 DEF S!Push, S!Notify, S!workVars
<1>3. events' \in Seq(1..MaxStats) BY <1>1, AppendProperties DEF StatTypeOK
<1>4. StatTypeOK' BY <1>1, <1>2, <1>3 DEF StatTypeOK
<1>5. PICK g \in Seq(1..MaxStats) : g = posted \o queued \o tmp
    BY ConcatProperties DEF StatTypeOK
<1>6. g \o Append(events, pushed + 1) = Append(g \o events, pushed + 1)
    BY <1>1, ConcatAppend DEF StatTypeOK
<1>7. Append([i \in 1..pushed |-> i], pushed + 1) = [i \in 1..pushed + 1 |-> i]
    BY <1>1
<1>8. g \o events' = [i \in 1..pushed' |-> i] BY <1>1, <1>5, <1>6, <1>7 DEF StatsInOrder
<1> QED BY <1>1, <1>4, <1>5, <1>8 DEF StatsInOrder

\* The flush thread takes all, and posts all that it has taken or leaves them
\* with the network.
LEMMA TakeStep ==
    ASSUME StatTypeOK, StatsInOrder, pc \in {"check", "asleep"}, S!Take,
           UNCHANGED <<enabled, run, pushed, network, queued, posted, host>>
    PROVE StatTypeOK' /\ StatsInOrder'
<1>1. /\ tmp = <<>> /\ tmp' = events /\ events' = <<>> /\ pc' = "send" /\ owner' = "free"
    BY DEF S!Take, StatTypeOK
<1>2. <<>> \in Seq(1..MaxStats) OBVIOUS
<1>3. StatTypeOK'
    <2>1. enabled BY DEF StatTypeOK
    <2> QED BY <1>1, <1>2, <2>1 DEF StatTypeOK
<1>4. PICK g \in Seq(1..MaxStats) : g = posted \o queued
    BY ConcatProperties DEF StatTypeOK
<1>5. events \in Seq(1..MaxStats) /\ g \o events \in Seq(1..MaxStats)
    BY ConcatProperties DEF StatTypeOK
<1>6. g \o events \o <<>> = g \o <<>> \o events BY <1>5, ConcatEmptySeq
<1> QED BY <1>1, <1>3, <1>4, <1>6 DEF StatsInOrder

LEMMA SendStep ==
    ASSUME StatTypeOK, StatsInOrder, S!WorkerSends
    PROVE StatTypeOK' /\ StatsInOrder'
<1>1. /\ pc = "send" /\ pc' = "lock" /\ tmp' = <<>> /\ enabled' = enabled /\ run' = run
      /\ events' = events /\ pushed' = pushed /\ owner' = owner
      /\ network' = network /\ host' = host
    BY DEF S!WorkerSends
<1>2. /\ posted \in Seq(1..MaxStats) /\ queued \in Seq(1..MaxStats)
      /\ tmp \in Seq(1..MaxStats) /\ <<>> \in Seq(1..MaxStats)
    BY DEF StatTypeOK
<1>3. CASE network
    <2>1. posted' = posted \o tmp /\ queued' = queued /\ queued = <<>>
        BY <1>3 DEF S!WorkerSends, StatTypeOK
    <2>2. posted' \in Seq(1..MaxStats) BY <1>2, <2>1, ConcatProperties
    <2>3. StatTypeOK' BY <1>1, <1>2, <2>1, <2>2 DEF StatTypeOK
    <2>4. posted' \o queued' \o tmp' = posted'
        BY <1>1, <2>1, <2>2, ConcatEmptySeq
    <2>5. posted \o queued \o tmp = posted \o tmp
        BY <1>2, <2>1, ConcatEmptySeq
    <2> QED BY <1>1, <2>1, <2>3, <2>4, <2>5 DEF StatsInOrder
<1>4. CASE ~network
    <2>1. queued' = queued \o tmp /\ posted' = posted BY <1>4 DEF S!WorkerSends
    <2>2. queued' \in Seq(1..MaxStats) BY <1>2, <2>1, ConcatProperties
    <2>3. StatTypeOK' BY <1>1, <1>2, <1>4, <2>1, <2>2 DEF StatTypeOK
    <2>4. posted \o queued' = posted \o queued \o tmp BY <1>2, <2>1, ConcatAssociative
    <2>5. posted \o queued' \in Seq(1..MaxStats) BY <1>2, <2>2, ConcatProperties
    <2>6. posted \o queued' \o <<>> = posted \o queued' BY <2>5, ConcatEmptySeq
    <2> QED BY <1>1, <2>1, <2>3, <2>4, <2>6 DEF StatsInOrder
<1> QED BY <1>3, <1>4

\* Every other step leaves the statistics where they are.
LEMMA StatsStep ==
    ASSUME StatTypeOK, StatsInOrder, S!Next
    PROVE StatTypeOK' /\ StatsInOrder'
<1>1. CASE S!Push BY <1>1, PushStep
<1>2. CASE S!WorkerSends BY <1>2, SendStep
<1>3. CASE S!WorkerTimesOut
    BY <1>3, TakeStep DEF S!WorkerTimesOut, S!netVars
<1>4. CASE S!WorkerChecks
    <2>1. CASE S!Take BY <1>4, <2>1, TakeStep DEF S!WorkerChecks, S!netVars
    <2>2. CASE ~S!Take
        BY <1>4, <2>2 DEF S!WorkerChecks, S!netVars, StatTypeOK, StatsInOrder
    <2> QED BY <2>1, <2>2
<1>5. CASE S!SetRemoteEndpoint \/ S!WorkerLocks \/ S!WorkerLoops \/ S!WorkerSleeps
    <2>1. /\ UNCHANGED <<events, pushed, tmp, network, queued, posted, host>>
          /\ enabled' \in BOOLEAN /\ run' \in BOOLEAN
        BY <1>5 DEF S!SetRemoteEndpoint, S!WorkerLocks, S!WorkerLoops, S!WorkerSleeps,
                    S!netVars, StatTypeOK
    <2>2. /\ owner' \in {"free", "worker"} /\ pc # "send" /\ pc' # "send"
          /\ pc' \in {"none", "lock", "head", "check", "block", "asleep", "exited"}
          /\ owner' = "worker" <=> pc' \in {"head", "check", "block"}
          /\ ~enabled' => pc' = "none"
        BY <1>5 DEF S!SetRemoteEndpoint, S!WorkerLocks, S!WorkerLoops, S!WorkerSleeps,
                    StatTypeOK
    <2>3. /\ events' \in Seq(1..MaxStats) /\ tmp' \in Seq(1..MaxStats)
          /\ queued' \in Seq(1..MaxStats) /\ posted' \in Seq(1..MaxStats)
          /\ pushed' \in 0..MaxStats /\ network' \in BOOLEAN
          /\ host' \in {"up", "stopped", "notifying", "joining", "gone"}
          /\ network' => queued' = <<>>
        BY <2>1 DEF StatTypeOK
    <2>4. tmp' = <<>> BY <2>1, <2>2 DEF StatTypeOK
    <2>5. StatTypeOK' BY <2>1, <2>2, <2>3, <2>4 DEF StatTypeOK
    <2>6. StatsInOrder' BY <2>1 DEF StatsInOrder
    <2> QED BY <2>5, <2>6
<1>6. CASE S!HostStopsNetwork \/ S!DestructorGoesOn
    <2>1. /\ UNCHANGED <<enabled, events, pushed, tmp, queued, posted>>
          /\ run' \in BOOLEAN /\ network' \in BOOLEAN /\ (network' => network)
          /\ host' \in {"up", "stopped", "notifying", "joining", "gone"}
        <3>1. CASE S!HostStopsNetwork
            BY <3>1 DEF S!HostStopsNetwork, S!workVars, StatTypeOK
        <3>2. CASE S!DestructorStarts
            BY <3>2 DEF S!DestructorStarts, S!Stopping, S!workVars, S!netVars, StatTypeOK
        <3>3. CASE S!DestructorNotifies
            BY <3>3 DEF S!DestructorNotifies, S!Notify, S!workVars, S!netVars, StatTypeOK
        <3>4. CASE S!DestructorJoins
            BY <3>4 DEF S!DestructorJoins, S!workVars, S!netVars, StatTypeOK
        <3> QED BY <1>6, <3>1, <3>2, <3>3, <3>4 DEF S!DestructorGoesOn
    <2>2. \/ pc = "asleep" /\ pc' = "check" /\ owner' = "worker"
          \/ pc' = pc /\ owner' = owner
        BY <1>6 DEF S!HostStopsNetwork, S!DestructorGoesOn, S!DestructorStarts,
                    S!DestructorNotifies, S!DestructorJoins, S!Notify, S!workVars
    <2>3. StatsInOrder' BY <2>1 DEF StatsInOrder
    <2>4. /\ events' \in Seq(1..MaxStats) /\ tmp' \in Seq(1..MaxStats)
          /\ queued' \in Seq(1..MaxStats) /\ posted' \in Seq(1..MaxStats)
          /\ pushed' \in 0..MaxStats /\ enabled' \in BOOLEAN
          /\ network' => queued' = <<>>
        BY <2>1 DEF StatTypeOK
    <2>5. /\ pc' \in {"none", "lock", "head", "check", "block", "asleep", "send", "exited"}
          /\ owner' \in {"free", "worker"}
          /\ owner' = "worker" <=> pc' \in {"head", "check", "block"}
          /\ ~enabled' => pc' = "none"
          /\ pc' # "send" => tmp' = <<>>
        BY <2>1, <2>2 DEF StatTypeOK
    <2>6. StatTypeOK' BY <2>1, <2>4, <2>5 DEF StatTypeOK
    <2> QED BY <2>3, <2>6
<1> QED BY <1>1, <1>2, <1>3, <1>4, <1>5, <1>6 DEF S!Next, S!Worker

\* The statistics of MGDFStatisticsManagerImpl.cpp: each that was pushed is in
\* one place, and before all that were pushed later, whatever the flush thread
\* and the destruction of the host do, for any number of statistics.
THEOREM StatisticsInOrder == Spec => [](S!TypeOK /\ S!StatisticsKeepTheirOrder)
<1>1. Init => StatsOK BY StatsStart, StatsMean DEF Init
<1>2. StatsOK /\ [Next]_vars => StatsOK'
    <2> SUFFICES ASSUME StatsOK, [Next]_vars PROVE StatsOK' OBVIOUS
    <2>1. StatTypeOK /\ StatsInOrder BY StatsMean
    <2>2. CASE S!Next
        <3>1. StatTypeOK' /\ StatsInOrder' BY <2>1, <2>2, StatsStep
        <3> QED BY <3>1, StatsMean, PTL
    <2>3. CASE UNCHANGED statVars
        BY <2>3 DEF statVars, StatsOK, S!TypeOK, S!StatisticsKeepTheirOrder
    <2> QED BY <2>2, <2>3 DEF Next, vars
<1>3. StatsOK => S!TypeOK /\ S!StatisticsKeepTheirOrder BY DEF StatsOK
<1> QED BY <1>1, <1>2, <1>3, PTL DEF Spec

-----------------------------------------------------------------------------
(* The sounds.  The invariant says who holds which source.  The mix, the   *)
(* part that Deactivate and Reactivate change, has a predicate of its own, *)
(* MixOK, over a mix that need not be that of a state: so it can be kept   *)
(* through the turns of the loop of PrioritizeSounds, inside of an action. *)
(* Without a source for every open stream the pool is not to be trusted,   *)
(* so that part of it is for ~OpenFails.                                   *)

Mixes ==
    [active : [Sounds -> BOOLEAN], source : [Sounds -> Sources \union {NoSource}],
     start : [Sounds -> BOOLEAN], was : [Sounds -> BOOLEAN],
     free : Seq(Sources), al : [Sources -> {"silent", "playing", "paused"}]]

StreamsMade ==
    [state : {"not_started", "play", "pause", "stop"}, ready : BOOLEAN,
     source : Sources, decoded : 0 .. Chunks, queue : Seq(Nat), done : Nat]

\* What is in the pool of sources, and that it is there once.
Pool(q) == {q[k] : k \in DOMAIN q}
Once(q) == \A j, k \in DOMAIN q : q[j] = q[k] => j = k

\* No source has two users, and those in the pool are not heard.
Alone(m, st) ==
    /\ Once(m.free)
    /\ \A s \in Sounds : m.active[s] => m.source[s] \notin Pool(m.free)
    /\ \A t \in Voices : st[t].ready => st[t].source \notin Pool(m.free)
    /\ \A s, u \in Sounds :
          m.active[s] /\ m.active[u] /\ m.source[s] = m.source[u] => s = u
    /\ \A t, u \in Voices :
          st[t].ready /\ st[u].ready /\ st[t].source = st[u].source => t = u
    /\ \A s \in Sounds, t \in Voices :
          m.active[s] /\ st[t].ready => m.source[s] # st[t].source
    /\ \A i \in Pool(m.free) : m.al[i] # "playing"

\* A loop that was asked for is heard, about to be, or remembered.
Remembered(m, w) ==
    \A s \in Loops : w[s] = "play" =>
        IF m.active[s] THEN m.start[s] \/ m.al[m.source[s]] = "playing" ELSE m.was[s]

MixOK(m, C, st, w) ==
    /\ m \in Mixes
    /\ \A s \in Sounds : m.active[s] => s \in C /\ m.source[s] \in Sources
    /\ ~OpenFails => Alone(m, st) /\ Remembered(m, w)

\* The buffers on a stream's source are the last pieces decoded.
QueueOK(s) ==
    s.ready => /\ s.done <= Len(s.queue) /\ Len(s.queue) <= BufferCount
               /\ \A k \in DOMAIN s.queue :
                     s.queue[k] = s.decoded - Len(s.queue) + k

Opened(st) == {t \in Voices : st[t] # NoStream}

\* A stream that is open has a source and holds the library.
VoicesOK ==
    /\ streams \in [Voices -> StreamsMade \union {NoStream}]
    /\ \A t \in Voices : QueueOK(streams[t])
    /\ library = [refs |-> library.refs, loaded |-> library.loaded]
    /\ library.refs \in Int /\ library.loaded \in BOOLEAN
    /\ ~OpenFails => /\ \A t \in Opened(streams) : streams[t].ready
                     /\ library.refs \in Cardinality(Opened(streams)) .. MaxLibrary
                     /\ Opened(streams) # {} => library.loaded

CountsOK ==
    /\ created \subseteq Sounds
    /\ volume \in [Sounds -> Volumes \union {1}]
    /\ wish \in [Sounds -> {"play", "stop", "pause"}]
    /\ refs = [f \in SoundFiles |-> Cardinality({s \in created : FileOf[s] = f})]

SoundsInv == CountsOK /\ VoicesOK /\ MixOK(mix, created, streams, wish)
-----------------------------------------------------------------------------
(* Pools.                                                                  *)

\* Induction up to n, over a set for want of a predicate: its counterexamples
\* are intervals, of which one is the least.
LEMMA Inductive ==
    ASSUME NEW G, NEW n \in Nat, 0 \in G, \A k \in 0 .. n - 1 : k \in G => k + 1 \in G
    PROVE  \A k \in 0 .. n : k \in G
<1> DEFINE T == {0 .. k : k \in {j \in 0 .. n : j \notin G}}
<1> SUFFICES ASSUME T # {} PROVE FALSE
  OBVIOUS
<1>1. IsWellFoundedOn(StrictSubsetOrdering(Nat), FiniteSubsetsOf(Nat))
  BY FS_StrictSubsetOrderingWellFounded
<1>2. T \subseteq FiniteSubsetsOf(Nat)
  <2> SUFFICES ASSUME NEW k \in 0 .. n PROVE 0 .. k \in FiniteSubsetsOf(Nat)
    OBVIOUS
  <2>1. 0 \in Int /\ k \in Int /\ 0 .. k \in SUBSET Nat
    OBVIOUS
  <2>2. IsFiniteSet(0 .. k)
    BY <2>1, FS_Interval
  <2> QED BY <2>1, <2>2 DEF FiniteSubsetsOf
<1>3. PICK x \in T : \A y \in T : <<y, x>> \notin StrictSubsetOrdering(Nat)
  <2> HIDE DEF T
  <2> QED BY <1>1, <1>2, WFMin
<1>4. PICK k \in 0 .. n : k \notin G /\ x = 0 .. k
  BY <1>3
<1>5. k # 0 /\ k - 1 \in 0 .. n - 1 /\ k - 1 \in 0 .. n /\ k - 1 \notin G
  BY <1>4
<1>6. 0 .. k - 1 \in T
  BY <1>5
<1>7. <<0 .. k - 1, x>> \in StrictSubsetOrdering(Nat)
  <2>1. 0 .. k - 1 \subseteq 0 .. k /\ 0 .. k - 1 # 0 .. k
    <3>1. k \in 0 .. k /\ k \notin 0 .. k - 1
      OBVIOUS
    <3> QED BY <3>1
  <2> QED BY <1>4, <2>1 DEF StrictSubsetOrdering
<1> QED BY <1>3, <1>6, <1>7

\* What is taken is no longer there.
LEMMA PoolTakes ==
    ASSUME NEW X, NEW q \in Seq(X), q # <<>>
    PROVE  /\ Tail(q) \in Seq(X) /\ Head(q) \in X /\ Head(q) \in Pool(q)
           /\ Once(q) => Once(Tail(q)) /\ Pool(Tail(q)) = Pool(q) \ {Head(q)}
<1>1. Len(q) \in Nat \ {0} /\ Len(Tail(q)) = Len(q) - 1 /\ Tail(q) \in Seq(X)
  OBVIOUS
<1>2. DOMAIN q = 1 .. Len(q) /\ DOMAIN Tail(q) = 1 .. Len(q) - 1
  BY <1>1
<1>3. \A k \in 1 .. Len(q) - 1 : Tail(q)[k] = q[k + 1] /\ k + 1 \in 1 .. Len(q)
  BY <1>1
<1>4. Head(q) = q[1] /\ 1 \in 1 .. Len(q)
  BY <1>1
<1>5. ASSUME Once(q) PROVE Once(Tail(q))
  BY <1>2, <1>3, <1>5 DEF Once
<1>6. ASSUME Once(q), NEW x PROVE x \in Pool(Tail(q)) <=> x \in Pool(q) /\ x # Head(q)
  <2>1. ASSUME x \in Pool(Tail(q)) PROVE x \in Pool(q) /\ x # Head(q)
    BY <1>2, <1>3, <1>4, <1>6, <2>1 DEF Pool, Once
  <2>2. ASSUME x \in Pool(q), x # Head(q) PROVE x \in Pool(Tail(q))
    <3>1. PICK k \in 1 .. Len(q) : x = q[k]
      BY <1>2, <2>2 DEF Pool
    <3>2. k - 1 \in 1 .. Len(q) - 1 /\ Tail(q)[k - 1] = x
      BY <1>1, <1>3, <1>4, <2>2, <3>1
    <3> QED BY <1>2, <3>2 DEF Pool
  <2> QED BY <2>1, <2>2
<1> QED BY <1>1, <1>2, <1>4, <1>5, <1>6 DEF Pool

\* What is given back is there besides.
LEMMA PoolGets ==
    ASSUME NEW X, NEW q \in Seq(X), NEW x \in X
    PROVE  /\ <<x>> \o q \in Seq(X) /\ Pool(<<x>> \o q) = Pool(q) \union {x}
           /\ <<x>> \o q # <<>> /\ Head(<<x>> \o q) = x
           /\ Once(q) /\ x \notin Pool(q) => Once(<<x>> \o q)
<1> DEFINE p == <<x>> \o q
<1>1. Len(q) \in Nat /\ p \in Seq(X) /\ Len(p) = Len(q) + 1
  OBVIOUS
<1>2. DOMAIN q = 1 .. Len(q) /\ DOMAIN p = 1 .. Len(q) + 1
  BY <1>1
<1>3. /\ p[1] = x
      /\ \A k \in 1 .. Len(q) + 1 :
            k = 1 \/ (p[k] = q[k - 1] /\ k - 1 \in 1 .. Len(q))
  BY <1>1
<1>4. Pool(p) = Pool(q) \union {x}
  <2>1. ASSUME NEW y \in Pool(q) PROVE y \in Pool(p)
    <3>1. PICK k \in 1 .. Len(q) : y = q[k]
      BY <1>2, <2>1 DEF Pool
    <3>2. k + 1 \in 1 .. Len(q) + 1 /\ p[k + 1] = y
      BY <1>1, <1>3, <3>1
    <3> HIDE DEF p
    <3> QED BY <1>2, <3>2 DEF Pool
  <2>2. x \in Pool(p)
    <3>1. 1 \in 1 .. Len(q) + 1
      BY <1>1
    <3> HIDE DEF p
    <3> QED BY <1>2, <1>3, <3>1 DEF Pool
  <2>3. ASSUME NEW y \in Pool(p) PROVE y \in Pool(q) \union {x}
    <3> HIDE DEF p
    <3> QED BY <1>2, <1>3, <2>3 DEF Pool
  <2> QED BY <2>1, <2>2, <2>3
<1>5. ASSUME Once(q), x \notin Pool(q) PROVE Once(p)
  <2> SUFFICES ASSUME NEW j \in 1 .. Len(q) + 1, NEW k \in 1 .. Len(q) + 1, p[j] = p[k]
               PROVE  j = k
    BY <1>2 DEF Once
  <2>1. \A i \in 1 .. Len(q) : q[i] # x
    BY <1>2, <1>5 DEF Pool
  <2>2. CASE j = 1 \/ k = 1
    BY <1>3, <2>1, <2>2
  <2>3. CASE j # 1 /\ k # 1
    <3>1. q[j - 1] = q[k - 1] /\ j - 1 \in 1 .. Len(q) /\ k - 1 \in 1 .. Len(q)
      BY <1>3, <2>3
    <3>2. j - 1 = k - 1
      BY <1>2, <1>5, <3>1 DEF Once
    <3> QED BY <3>2, <1>1
  <2> QED BY <2>2, <2>3
<1>6. Head(p) = x /\ p # <<>>
  BY <1>1, <1>3
<1> QED BY <1>1, <1>4, <1>5, <1>6

-----------------------------------------------------------------------------
(* What deactivation and reactivation do to the sounds and the pool.       *)

\* A mix of six parts.
MixOf(active, source, start, was, free, al) ==
    [active |-> active, source |-> source, start |-> start, was |-> was,
     free |-> free, al |-> al]

\* A mix is its six parts.
LEMMA Mixed ==
    ASSUME NEW m \in Mixes
    PROVE  /\ m = MixOf(m.active, m.source, m.start, m.was, m.free, m.al)
           /\ m.active \in [Sounds -> BOOLEAN]
           /\ m.source \in [Sounds -> Sources \union {NoSource}]
           /\ m.start \in [Sounds -> BOOLEAN] /\ m.was \in [Sounds -> BOOLEAN]
           /\ m.free \in Seq(Sources)
           /\ m.al \in [Sources -> {"silent", "playing", "paused"}]
BY DEF Mixes, MixOf

LEMMA LoopsAreSounds == Loops \subseteq Sounds
BY SoundAssumption DEF SoundAssumption

\* Deactivate of a sound that has a source.
LEMMA DeactivatedIs ==
    ASSUME NEW m \in Mixes, NEW s \in Sounds, m.active[s]
    PROVE  Deactivated(m, s) =
              MixOf([m.active EXCEPT ![s] = FALSE], m.source,
                    [m.start EXCEPT ![s] = FALSE],
                    [m.was EXCEPT ![s] = Resumes(m, s)],
                    <<m.source[s]>> \o m.free,
                    [m.al EXCEPT ![m.source[s]] = "silent"])
<1>1. PICK active \in [Sounds -> BOOLEAN],
          source \in [Sounds -> Sources \union {NoSource}],
          start \in [Sounds -> BOOLEAN], was \in [Sounds -> BOOLEAN],
          free \in Seq(Sources), al \in [Sources -> {"silent", "playing", "paused"}] :
          m = MixOf(active, source, start, was, free, al)
  BY Mixed
<1>2. PICK b \in BOOLEAN : b = Resumes(m, s)
  BY DEF Resumes
<1>3. [m EXCEPT !.was[s] = b] =
        MixOf(active, source, start, [was EXCEPT ![s] = b], free, al)
  BY <1>1 DEF MixOf
<1> QED BY <1>1, <1>2 DEF Deactivated, Freed, MixOf

\* Deactivate keeps the holders apart: the source goes into the pool, silent,
\* and what a loop was doing into _wasPlaying.
LEMMA Deactivation ==
    ASSUME NEW C,
           NEW st \in [Voices -> StreamsMade \union {NoStream}], NEW w, NEW m,
           MixOK(m, C, st, w), NEW s \in Sounds
    PROVE  /\ MixOK(Deactivated(m, s), C, st, w)
           /\ ~Deactivated(m, s).active[s]
           /\ \A u \in Sounds : Deactivated(m, s).active[u] => m.active[u]
           /\ m.active[s] => Deactivated(m, s).free # <<>>
<1>0. m \in Mixes
  BY DEF MixOK
<1>1. CASE ~m.active[s]
  BY <1>1 DEF Deactivated
<1>2. CASE m.active[s]
  <2> DEFINE d == Deactivated(m, s)
  <2>1. PICK i \in Sources : i = m.source[s]
    BY <1>2 DEF MixOK
  <2>2. PICK b \in BOOLEAN : b = Resumes(m, s)
    BY DEF Resumes
  <2>3. d = MixOf([m.active EXCEPT ![s] = FALSE], m.source, [m.start EXCEPT ![s] = FALSE],
                  [m.was EXCEPT ![s] = b], <<i>> \o m.free, [m.al EXCEPT ![i] = "silent"])
    BY <1>0, <1>2, <2>1, <2>2, DeactivatedIs
  <2>4. /\ d.active = [m.active EXCEPT ![s] = FALSE] /\ d.source = m.source
        /\ d.start = [m.start EXCEPT ![s] = FALSE] /\ d.was = [m.was EXCEPT ![s] = b]
        /\ d.free = <<i>> \o m.free /\ d.al = [m.al EXCEPT ![i] = "silent"]
    BY <2>3 DEF MixOf
  <2> HIDE DEF d
  <2>5. /\ m.active \in [Sounds -> BOOLEAN] /\ m.start \in [Sounds -> BOOLEAN]
        /\ m.source \in [Sounds -> Sources \union {NoSource}]
        /\ m.was \in [Sounds -> BOOLEAN] /\ m.free \in Seq(Sources)
        /\ m.al \in [Sources -> {"silent", "playing", "paused"}]
    BY <1>0, Mixed
  <2>6. /\ d.free \in Seq(Sources) /\ d.free # <<>>
        /\ Pool(d.free) = Pool(m.free) \union {i}
        /\ Once(m.free) /\ i \notin Pool(m.free) => Once(d.free)
    BY <2>4, <2>5, PoolGets
  <2>7. d \in Mixes
    <3>1. /\ d.active \in [Sounds -> BOOLEAN] /\ d.start \in [Sounds -> BOOLEAN]
          /\ d.source \in [Sounds -> Sources \union {NoSource}]
          /\ d.was \in [Sounds -> BOOLEAN]
          /\ d.al \in [Sources -> {"silent", "playing", "paused"}]
      BY <2>4, <2>5
    <3>2. d = MixOf(d.active, d.source, d.start, d.was, d.free, d.al)
      BY <2>3, <2>4 DEF MixOf
    <3> QED BY <2>6, <3>1, <3>2 DEF Mixes, MixOf
  <2>8. /\ ~d.active[s] /\ \A u \in Sounds \ {s} : d.active[u] = m.active[u]
        /\ \A u \in Sounds \ {s} : d.start[u] = m.start[u] /\ d.was[u] = m.was[u]
        /\ d.was[s] = b /\ d.al[i] = "silent"
        /\ \A j \in Sources \ {i} : d.al[j] = m.al[j]
    BY <2>4, <2>5
  <2>9. \A u \in Sounds : d.active[u] => u \in C /\ d.source[u] \in Sources
    BY <2>4, <2>8 DEF MixOK
  <2>10. ASSUME ~OpenFails PROVE Alone(d, st) /\ Remembered(d, w)
    <3>1. Alone(m, st) /\ Remembered(m, w)
      BY <2>10 DEF MixOK
    <3>2. i \notin Pool(m.free)
      BY <1>2, <2>1, <3>1 DEF Alone
    <3>3. \A u \in Sounds \ {s} : m.active[u] => m.source[u] # i /\ m.source[u] \in Sources
      BY <1>2, <2>1, <3>1 DEF Alone, MixOK
    <3>4. \A t \in Voices : st[t].ready => st[t].source # i
      BY <1>2, <2>1, <3>1 DEF Alone
    <3>5. Pool(m.free) \subseteq Sources
      BY <2>5 DEF Pool
    <3>6. Alone(d, st)
      <4>1. Once(d.free)
        BY <2>6, <3>1, <3>2 DEF Alone
      <4>2. \A u \in Sounds : d.active[u] => d.source[u] \notin Pool(d.free)
        BY <2>4, <2>6, <2>8, <3>1, <3>3 DEF Alone
      <4>3. \A t \in Voices : st[t].ready => st[t].source \notin Pool(d.free)
        BY <2>6, <3>1, <3>4 DEF Alone
      <4>4. \A u, v \in Sounds :
               d.active[u] /\ d.active[v] /\ d.source[u] = d.source[v] => u = v
        BY <2>4, <2>8, <3>1 DEF Alone
      <4>5. \A u \in Sounds, t \in Voices :
               d.active[u] /\ st[t].ready => d.source[u] # st[t].source
        BY <2>4, <2>8, <3>1 DEF Alone
      <4>6. \A j \in Pool(d.free) : d.al[j] # "playing"
        BY <2>6, <2>8, <3>1, <3>5 DEF Alone
      <4> QED BY <3>1, <4>1, <4>2, <4>3, <4>4, <4>5, <4>6 DEF Alone
    <3>7. Remembered(d, w)
      <4> SUFFICES ASSUME NEW u \in Loops, w[u] = "play"
                   PROVE  IF d.active[u]
                          THEN d.start[u] \/ d.al[d.source[u]] = "playing" ELSE d.was[u]
        BY DEF Remembered
      <4>1. IF m.active[u] THEN m.start[u] \/ m.al[m.source[u]] = "playing" ELSE m.was[u]
        BY <3>1 DEF Remembered
      <4>2. CASE u = s
        BY <1>2, <2>2, <2>8, <4>1, <4>2 DEF Resumes, IsPlaying
      <4>3. CASE u # s /\ u \in Sounds
        BY <2>4, <2>8, <3>3, <4>1, <4>3
      <4> QED BY <4>2, <4>3, LoopsAreSounds
    <3> QED BY <3>6, <3>7
  <2> QED BY <1>2, <2>6, <2>7, <2>8, <2>9, <2>10 DEF MixOK, d
<1> QED BY <1>1, <1>2

\* Reactivate, whether it fails or not, takes the source from the pool first.
LEMMA Reactivation ==
    ASSUME NEW C, NEW st \in [Voices -> StreamsMade \union {NoStream}],
           NEW w, NEW m, MixOK(m, C, st, w), NEW s \in C, s \in Sounds, ~m.active[s],
           NEW fails, fails \in BOOLEAN
    PROVE  /\ MixOK(Reactivated(m, s, fails), C, st, w)
           /\ \A u \in Sounds : m.active[u] => Reactivated(m, s, fails).active[u]
<1>0. m \in Mixes
  BY DEF MixOK
<1>1. CASE m.free = <<>>
  BY <1>1 DEF Reactivated
<1>2. CASE m.free # <<>>
  <2> DEFINE r == Reactivated(m, s, fails)
  <2>1. /\ m.active \in [Sounds -> BOOLEAN] /\ m.start \in [Sounds -> BOOLEAN]
        /\ m.source \in [Sounds -> Sources \union {NoSource}]
        /\ m.was \in [Sounds -> BOOLEAN] /\ m.free \in Seq(Sources)
        /\ m.al \in [Sources -> {"silent", "playing", "paused"}]
    BY <1>0, Mixed
  <2>2. PICK a, b, i, q : /\ a = ~fails /\ b = (~fails /\ s \in Loops /\ m.was[s])
                          /\ i = Head(m.free) /\ q = Tail(m.free)
    OBVIOUS
  <2>3. PICK a1, s1, t1 : /\ a1 = [m.active EXCEPT ![s] = a]
                          /\ s1 = [m.source EXCEPT ![s] = i]
                          /\ t1 = [m.start EXCEPT ![s] = b]
    OBVIOUS
  <2>4. m = MixOf(m.active, m.source, m.start, m.was, m.free, m.al)
    BY <1>0, Mixed
  <2>5. r = MixOf(a1, s1, t1, m.was, q, m.al)
    <3>1. r = [m EXCEPT !.source[s] = i, !.free = q, !.active[s] = a, !.start[s] = b]
      BY <1>2, <2>2 DEF Reactivated, Taken
    <3>2. PICK active, source, start, was, free, al :
             /\ active = m.active /\ source = m.source /\ start = m.start
             /\ was = m.was /\ free = m.free /\ al = m.al
      OBVIOUS
    <3>3. m = MixOf(active, source, start, was, free, al)
      BY <2>4, <3>2
    <3>4. PICK m1 : m1 = [m EXCEPT !.source[s] = i]
      OBVIOUS
    <3>5. PICK m2 : m2 = [m1 EXCEPT !.free = q]
      OBVIOUS
    <3>6. PICK m3 : m3 = [m2 EXCEPT !.active[s] = a]
      OBVIOUS
    <3>7. m1 = MixOf(active, s1, start, was, free, al)
      BY <2>3, <3>2, <3>3, <3>4 DEF MixOf
    <3>8. m2 = MixOf(active, s1, start, was, q, al)
      BY <3>5, <3>7 DEF MixOf
    <3>9. m3 = MixOf(a1, s1, start, was, q, al)
      BY <2>3, <3>2, <3>6, <3>8 DEF MixOf
    <3>10. [m3 EXCEPT !.start[s] = b] = MixOf(a1, s1, [start EXCEPT ![s] = b], was, q, al)
      BY ONLY <3>9 DEF MixOf
    <3>11. t1 = [start EXCEPT ![s] = b]
      BY <2>3, <3>2
    <3> QED BY <3>1, <3>2, <3>4, <3>5, <3>6, <3>10, <3>11
  <2>6. /\ r.active = a1 /\ r.source = s1 /\ r.start = t1 /\ r.was = m.was
        /\ r.free = q /\ r.al = m.al
    BY <2>5 DEF MixOf
  <2>7. /\ i \in Sources /\ q \in Seq(Sources) /\ i \in Pool(m.free)
        /\ Once(m.free) => Once(q) /\ Pool(q) = Pool(m.free) \ {i}
    BY <1>2, <2>1, <2>2, PoolTakes
  <2>8. a \in BOOLEAN /\ b \in BOOLEAN
    BY <2>1, <2>2
  <2> HIDE DEF r
  <2>9. r \in Mixes
    <3>1. /\ r.active \in [Sounds -> BOOLEAN] /\ r.start \in [Sounds -> BOOLEAN]
          /\ r.source \in [Sounds -> Sources \union {NoSource}]
          /\ r.was \in [Sounds -> BOOLEAN] /\ r.free \in Seq(Sources)
          /\ r.al \in [Sources -> {"silent", "playing", "paused"}]
      BY <2>1, <2>3, <2>7, <2>8, <2>6
    <3>2. r = MixOf(r.active, r.source, r.start, r.was, r.free, r.al)
      BY <2>5, <2>6 DEF MixOf
    <3> QED BY <3>1, <3>2 DEF Mixes, MixOf
  <2>10. /\ r.active[s] = a /\ r.source[s] = i /\ r.start[s] = b
        /\ \A u \in Sounds \ {s} : /\ r.active[u] = m.active[u] /\ r.source[u] = m.source[u]
                                   /\ r.start[u] = m.start[u]
    BY <2>1, <2>3, <2>6
  <2>11. \A u \in Sounds : r.active[u] => u \in C /\ r.source[u] \in Sources
    BY <2>7, <2>10 DEF MixOK
  <2>12. ASSUME ~OpenFails PROVE Alone(r, st) /\ Remembered(r, w)
    <3>1. Alone(m, st) /\ Remembered(m, w)
      BY <2>12 DEF MixOK
    <3>2. Pool(q) = Pool(m.free) \ {i} /\ Once(q)
      BY <2>7, <3>1 DEF Alone
    <3>3. \A u \in Sounds : m.active[u] => m.source[u] # i /\ m.source[u] \notin Pool(q)
      <4>1. \A u \in Sounds : m.active[u] => m.source[u] \notin Pool(m.free)
        BY <3>1 DEF Alone
      <4> QED BY <2>7, <3>2, <4>1
    <3>4. \A t \in Voices : st[t].ready => st[t].source # i /\ st[t].source \notin Pool(q)
      <4>1. \A t \in Voices : st[t].ready => st[t].source \notin Pool(m.free)
        BY <3>1 DEF Alone
      <4> QED BY <2>7, <3>2, <4>1
    <3>5. Alone(r, st)
      <4>1. \A u \in Sounds : r.active[u] => r.source[u] \notin Pool(r.free)
        BY <2>6, <2>10, <3>2, <3>3
      <4>2. \A t \in Voices : st[t].ready => st[t].source \notin Pool(r.free)
        BY <2>6, <3>4
      <4>3. \A u, v \in Sounds :
               r.active[u] /\ r.active[v] /\ r.source[u] = r.source[v] => u = v
        BY <2>10, <3>1, <3>3 DEF Alone
      <4>4. \A u \in Sounds, t \in Voices :
               r.active[u] /\ st[t].ready => r.source[u] # st[t].source
        BY <2>10, <3>1, <3>4 DEF Alone
      <4>5. \A j \in Pool(r.free) : r.al[j] # "playing"
        BY <2>6, <3>1, <3>2 DEF Alone
      <4>6. \A t, u \in Voices :
               st[t].ready /\ st[u].ready /\ st[t].source = st[u].source => t = u
        BY <3>1 DEF Alone
      <4> QED BY <2>6, <3>2, <4>1, <4>2, <4>3, <4>4, <4>5, <4>6 DEF Alone
    <3>6. Remembered(r, w)
      <4> SUFFICES ASSUME NEW u \in Loops, w[u] = "play"
                   PROVE  IF r.active[u]
                          THEN r.start[u] \/ r.al[r.source[u]] = "playing" ELSE r.was[u]
        BY DEF Remembered
      <4>1. IF m.active[u] THEN m.start[u] \/ m.al[m.source[u]] = "playing" ELSE m.was[u]
        BY <3>1 DEF Remembered
      <4>2. CASE u = s
        BY <2>2, <2>6, <2>10, <4>1, <4>2
      <4>3. CASE u # s /\ u \in Sounds
        BY <2>6, <2>10, <4>1, <4>3
      <4> QED BY <4>2, <4>3, LoopsAreSounds
    <3> QED BY <3>5, <3>6
  <2>13. \A u \in Sounds : m.active[u] => r.active[u]
    BY <2>10
  <2> QED BY <2>9, <2>11, <2>12, <2>13 DEF MixOK, r
<1> QED BY <1>1, <1>2

\* What touches neither the holders nor the pool: it starts, stops, remembers.
LEMMA Retuned ==
    ASSUME NEW C, NEW st, NEW w, NEW m, MixOK(m, C, st, w), NEW st1, NEW w1,
           NEW start \in [Sounds -> BOOLEAN], NEW was \in [Sounds -> BOOLEAN],
           NEW al \in [Sources -> {"silent", "playing", "paused"}],
           \A t \in Voices : /\ st1[t].ready = st[t].ready
                             /\ st[t].ready => st1[t].source = st[t].source,
           ~OpenFails => \A j \in Pool(m.free) : al[j] # "playing",
           ~OpenFails => Remembered(MixOf(m.active, m.source, start, was, m.free, al), w1)
    PROVE  MixOK(MixOf(m.active, m.source, start, was, m.free, al), C, st1, w1)
<1> DEFINE r == MixOf(m.active, m.source, start, was, m.free, al)
<1>1. /\ r.active = m.active /\ r.source = m.source /\ r.start = start /\ r.was = was
      /\ r.free = m.free /\ r.al = al
  BY DEF MixOf
<1>2. r \in Mixes
  <2>1. m \in Mixes
    BY DEF MixOK
  <2>2. /\ m.active \in [Sounds -> BOOLEAN] /\ m.free \in Seq(Sources)
        /\ m.source \in [Sounds -> Sources \union {NoSource}]
    BY <2>1, Mixed
  <2> QED BY <2>2 DEF Mixes, MixOf
<1> HIDE DEF r
<1>3. \A u \in Sounds : r.active[u] => u \in C /\ r.source[u] \in Sources
  BY <1>1 DEF MixOK
<1>4. ASSUME ~OpenFails PROVE Alone(r, st1)
  <2>1. Alone(m, st)
    BY <1>4 DEF MixOK
  <2> QED BY <1>1, <1>4, <2>1 DEF Alone
<1> QED BY <1>2, <1>3, <1>4 DEF MixOK, r

-----------------------------------------------------------------------------
(* The loop of PrioritizeSounds.                                           *)

\* A turn of the loop, for the sound s.
Turn(m, x, i, s, failing) ==
    IF Requiring(m, i) > 0 THEN Deactivated(x, s)
    ELSE IF x.active[s] THEN x ELSE Reactivated(x, s, s \in failing)

\* A turn deactivates a sound, reactivates one or leaves it.
LEMMA TurnKeepsMix ==
    ASSUME created \subseteq Sounds,
           NEW st \in [Voices -> StreamsMade \union {NoStream}], NEW w,
           NEW m, NEW x, MixOK(x, created, st, w), NEW i, NEW s \in created, NEW failing
    PROVE  MixOK(Turn(m, x, i, s, failing), created, st, w)
<1>1. CASE Requiring(m, i) > 0
  BY <1>1, Deactivation DEF Turn
<1>2. CASE ~(Requiring(m, i) > 0) /\ x.active[s]
  BY <1>2 DEF Turn
<1>3. CASE ~(Requiring(m, i) > 0) /\ ~x.active[s]
  <2>1. CASE s \in failing
    <3>1. MixOK(Reactivated(x, s, TRUE), created, st, w)
      BY <1>3, Reactivation
    <3>2. (s \in failing) = TRUE
      BY <2>1
    <3> QED BY <1>3, <3>1, <3>2 DEF Turn
  <2>2. CASE s \notin failing
    <3>1. MixOK(Reactivated(x, s, FALSE), created, st, w)
      BY <1>3, Reactivation
    <3>2. (s \in failing) = FALSE
      BY <2>2
    <3> QED BY <1>3, <3>1, <3>2 DEF Turn
  <2> QED BY <2>1, <2>2
<1> QED BY <1>1, <1>2, <1>3

\* The function that the loop defines exists.
IsLoop(f, n, m, order, failing) ==
    f = [i \in 0 .. n |-> IF i = 0 THEN m ELSE Turn(m, f[i - 1], i, order[i], failing)]

\* Each turn is defined from the one before it.
LEMMA TurnsExist ==
    ASSUME NEW m, NEW order, NEW failing, NEW n \in Nat
    PROVE  \E f : IsLoop(f, n, m, order, failing)
<1> DEFINE E(f, i) == IF i = 0 THEN m ELSE Turn(m, f[i - 1], i, order[i], failing)
           X == {k \in 0 .. n : \E f : f = [i \in 0 .. k |-> E(f, i)]}
<1>1. 0 \in X
  <2> DEFINE f == [i \in 0 .. 0 |-> m]
  <2>1. f = [i \in 0 .. 0 |-> E(f, i)]
    OBVIOUS
  <2>2. \E g : g = [i \in 0 .. 0 |-> E(g, i)]
    <3> HIDE DEF f, E
    <3> QED BY <2>1
  <2> HIDE DEF E
  <2> QED BY <2>2
<1>2. ASSUME NEW k \in 0 .. n - 1, k \in X PROVE k + 1 \in X
  <2>1. PICK f : f = [i \in 0 .. k |-> E(f, i)]
    BY <1>2
  <2> DEFINE g == [i \in 0 .. k + 1 |->
                     IF i = k + 1 THEN Turn(m, f[k], k + 1, order[k + 1], failing) ELSE f[i]]
  <2>2. ASSUME NEW i \in 0 .. k + 1 PROVE g[i] = E(g, i)
    <3>1. CASE i = 0
      BY <2>1, <3>1
    <3>2. CASE i \in 1 .. k
      <4>1. g[i] = f[i] /\ g[i - 1] = f[i - 1] /\ i # 0 /\ i \in 0 .. k
        BY <3>2
      <4>2. f[i] = E(f, i)
        BY <2>1, <4>1
      <4> HIDE DEF g
      <4> QED BY <4>1, <4>2
    <3>3. CASE i = k + 1
      <4>1. g[i - 1] = f[k] /\ i # 0
        BY <3>3
      <4> QED BY <3>3, <4>1
    <3> QED BY <3>1, <3>2, <3>3
  <2>3. g = [i \in 0 .. k + 1 |-> E(g, i)]
    <3>1. g = [i \in 0 .. k + 1 |-> g[i]]
      OBVIOUS
    <3> HIDE DEF g, E
    <3> QED BY <2>2, <3>1
  <2> HIDE DEF g, E
  <2> QED BY <2>3
<1>3. n \in X
  <2> HIDE DEF X
  <2>1. \A k \in 0 .. n : k \in X
    BY <1>1, <1>2, Inductive
  <2> QED BY <2>1
<1> QED BY <1>3 DEF IsLoop

\* By induction over the turns, whatever the order and the count are.
LEMMA LoopKeepsMix ==
    ASSUME created \subseteq Sounds,
           NEW st \in [Voices -> StreamsMade \union {NoStream}], NEW w,
           NEW m, MixOK(m, created, st, w), NEW order \in Orders, NEW failing
    PROVE  MixOK(Prioritized(m, order, failing), created, st, w)
<1>1. PICK n \in Nat : order \in [1 .. n -> created] /\ Len(order) = n
  <2>1. IsFiniteSet(created)
    <3>1. IsFiniteSet(Sounds) /\ created \in SUBSET Sounds
      BY SoundAssumption DEF SoundAssumption
    <3> QED BY <3>1, FS_Subset
  <2>2. PICK n \in Nat : n = Cardinality(created)
    BY <2>1, FS_CardinalityType
  <2>3. order \in [1 .. n -> created]
    BY <2>2 DEF Orders, SetToSeqs
  <2> QED BY <2>3
<1>2. Prioritized(m, order, failing) =
        (CHOOSE f : IsLoop(f, Len(order), m, order, failing))[Len(order)]
  BY DEF Prioritized, Turn, IsLoop
<1>3. PICK f : IsLoop(f, n, m, order, failing) /\ Prioritized(m, order, failing) = f[n]
  BY <1>1, <1>2, TurnsExist
<1> DEFINE X == {k \in 0 .. n : MixOK(f[k], created, st, w)}
<1>4. 0 \in X
  <2>1. f[0] = m
    BY <1>3 DEF IsLoop
  <2> QED BY <2>1
<1>5. ASSUME NEW k \in 0 .. n - 1, k \in X PROVE k + 1 \in X
  <2>1. k + 1 \in 1 .. n /\ k + 1 \in 0 .. n /\ k + 1 # 0 /\ (k + 1) - 1 = k
    OBVIOUS
  <2>2. f[k + 1] = Turn(m, f[k], k + 1, order[k + 1], failing)
    BY <1>3, <2>1 DEF IsLoop
  <2>3. order[k + 1] \in created
    BY <1>1, <2>1
  <2>4. MixOK(f[k], created, st, w)
    BY <1>5
  <2> QED BY <2>1, <2>2, <2>3, <2>4, TurnKeepsMix
<1>6. n \in X
  <2> HIDE DEF X
  <2>1. \A k \in 0 .. n : k \in X
    BY <1>4, <1>5, Inductive
  <2> QED BY <2>1
<1> QED BY <1>3, <1>6

-----------------------------------------------------------------------------
(* What the streams do to the sounds and the pool.                         *)

\* A mix is made of parts of the right types.
LEMMA Made ==
    ASSUME NEW active \in [Sounds -> BOOLEAN],
           NEW source \in [Sounds -> Sources \union {NoSource}],
           NEW start \in [Sounds -> BOOLEAN], NEW was \in [Sounds -> BOOLEAN],
           NEW free \in Seq(Sources),
           NEW al \in [Sources -> {"silent", "playing", "paused"}]
    PROVE  MixOf(active, source, start, was, free, al) \in Mixes
BY DEF Mixes, MixOf

\* The state of a source is set.
LEMMA AlSet ==
    ASSUME NEW m, m = MixOf(m.active, m.source, m.start, m.was, m.free, m.al),
           NEW i, NEW x, NEW al, al = [m.al EXCEPT ![i] = x]
    PROVE  [m EXCEPT !.al[i] = x] = MixOf(m.active, m.source, m.start, m.was, m.free, al)
<1>1. PICK active, source, start, was, free, b :
         /\ active = m.active /\ source = m.source /\ start = m.start
         /\ was = m.was /\ free = m.free /\ b = m.al
  OBVIOUS
<1>2. m = MixOf(active, source, start, was, free, b)
  BY <1>1
<1>3. [m EXCEPT !.al[i] = x] = MixOf(active, source, start, was, free, [b EXCEPT ![i] = x])
  BY <1>2 DEF MixOf
<1> QED BY <1>1, <1>3

\* The pool is set.
LEMMA FreeSet ==
    ASSUME NEW m, m = MixOf(m.active, m.source, m.start, m.was, m.free, m.al), NEW q
    PROVE  [m EXCEPT !.free = q] = MixOf(m.active, m.source, m.start, m.was, q, m.al)
<1>1. PICK active, source, start, was, free, b :
         /\ active = m.active /\ source = m.source /\ start = m.start
         /\ was = m.was /\ free = m.free /\ b = m.al
  OBVIOUS
<1>2. m = MixOf(active, source, start, was, free, b)
  BY <1>1
<1>3. [m EXCEPT !.free = q] = MixOf(active, source, start, was, q, b)
  BY <1>2 DEF MixOf
<1> QED BY <1>1, <1>3

\* A stream's source is set.
Heard(m, i, x) == [m EXCEPT !.al[i] = x]

\* The source of a stream is in no pool and under no sound.
LEMMA StreamHeard ==
    ASSUME NEW C, NEW st, NEW w, NEW m, MixOK(m, C, st, w),
           NEW t \in Voices, NEW i \in Sources, i = st[t].source, ~OpenFails => st[t].ready,
           NEW st1, \A v \in Voices : /\ st1[v].ready = st[v].ready
                                      /\ st[v].ready => st1[v].source = st[v].source,
           NEW x \in {"silent", "playing", "paused"}
    PROVE  MixOK(Heard(m, i, x), C, st1, w)
<1>1. m \in Mixes
  BY DEF MixOK
<1>2. m = MixOf(m.active, m.source, m.start, m.was, m.free, m.al)
  BY <1>1, Mixed
<1>3. PICK al : al = [m.al EXCEPT ![i] = x]
  OBVIOUS
<1>4. [m EXCEPT !.al[i] = x] = MixOf(m.active, m.source, m.start, m.was, m.free, al)
  BY ONLY <1>2, <1>3, AlSet
<1>5. /\ m.active \in [Sounds -> BOOLEAN] /\ m.start \in [Sounds -> BOOLEAN]
      /\ m.source \in [Sounds -> Sources \union {NoSource}]
      /\ m.was \in [Sounds -> BOOLEAN] /\ m.free \in Seq(Sources)
      /\ m.al \in [Sources -> {"silent", "playing", "paused"}]
  BY <1>1, Mixed
<1>6. al \in [Sources -> {"silent", "playing", "paused"}]
  BY <1>3, <1>5
<1>7. \A j \in Sources \ {i} : al[j] = m.al[j]
  BY <1>3, <1>5
<1>8. ASSUME ~OpenFails PROVE \A j \in Pool(m.free) : al[j] # "playing"
  <2>1. Pool(m.free) \subseteq Sources
    BY <1>5 DEF Pool
  <2>2. i \notin Pool(m.free) /\ \A j \in Pool(m.free) : m.al[j] # "playing"
    BY <1>8 DEF MixOK, Alone
  <2> QED BY <1>7, <2>1, <2>2
<1>9. ASSUME ~OpenFails
      PROVE  Remembered(MixOf(m.active, m.source, m.start, m.was, m.free, al), w)
  <2>1. PICK r : r = MixOf(m.active, m.source, m.start, m.was, m.free, al)
    OBVIOUS
  <2>2. /\ r.active = m.active /\ r.source = m.source /\ r.start = m.start
        /\ r.was = m.was /\ r.al = al
    BY <2>1 DEF MixOf
  <2>3. \A s \in Sounds : m.active[s] => m.source[s] \in Sources \ {i}
    BY <1>9 DEF MixOK, Alone
  <2>4. ASSUME NEW s \in Loops, w[s] = "play"
        PROVE  IF r.active[s]
               THEN r.start[s] \/ r.al[r.source[s]] = "playing" ELSE r.was[s]
    <3>1. IF m.active[s] THEN m.start[s] \/ m.al[m.source[s]] = "playing" ELSE m.was[s]
      BY <1>9, <2>4 DEF MixOK, Remembered
    <3>2. m.active[s] => al[m.source[s]] = m.al[m.source[s]]
      BY <1>7, <2>3, LoopsAreSounds
    <3> QED BY <2>2, <3>1, <3>2
  <2>5. Remembered(r, w)
    BY <2>4 DEF Remembered
  <2> QED BY <2>1, <2>5
<1>10. MixOK(MixOf(m.active, m.source, m.start, m.was, m.free, al), C, st1, w)
  BY <1>5, <1>6, <1>8, <1>9, Retuned
<1> QED BY <1>4, <1>10 DEF Heard

\* A stream takes the source at the head of the pool.
LEMMA StreamTakes ==
    ASSUME NEW C, NEW st, NEW w, NEW m, MixOK(m, C, st, w),
           m.free # <<>>, NEW t \in Voices, ~st[t].ready, NEW i, i = Head(m.free),
           NEW st1, st1[t].ready, st1[t].source = i, \A v \in Voices \ {t} : st1[v] = st[v],
           NEW al \in [Sources -> {"silent", "playing", "paused"}],
           \A j \in Sources \ {i} : al[j] = m.al[j]
    PROVE  /\ i \in Sources
           /\ MixOK(MixOf(m.active, m.source, m.start, m.was, Tail(m.free), al), C, st1, w)
<1>1. m \in Mixes
  BY DEF MixOK
<1>2. /\ m.active \in [Sounds -> BOOLEAN] /\ m.start \in [Sounds -> BOOLEAN]
      /\ m.source \in [Sounds -> Sources \union {NoSource}]
      /\ m.was \in [Sounds -> BOOLEAN] /\ m.free \in Seq(Sources)
  BY <1>1, Mixed
<1>3. PICK q : q = Tail(m.free)
  OBVIOUS
<1>4. /\ i \in Sources /\ q \in Seq(Sources) /\ i \in Pool(m.free)
      /\ Once(m.free) => Once(q) /\ Pool(q) = Pool(m.free) \ {i}
  BY <1>2, <1>3, PoolTakes
<1>5. PICK r : r = MixOf(m.active, m.source, m.start, m.was, q, al)
  OBVIOUS
<1>6. r \in Mixes
  BY <1>2, <1>4, <1>5, Made
<1>7. /\ r.active = m.active /\ r.source = m.source /\ r.start = m.start
      /\ r.was = m.was /\ r.free = q /\ r.al = al
  BY <1>5 DEF MixOf
<1>8. \A s \in Sounds : r.active[s] => s \in C /\ r.source[s] \in Sources
  BY <1>7 DEF MixOK
<1>9. ASSUME ~OpenFails PROVE Alone(r, st1) /\ Remembered(r, w)
  <2>1. Alone(m, st) /\ Remembered(m, w)
    BY <1>9 DEF MixOK
  <2>2. Once(q) /\ Pool(q) = Pool(m.free) \ {i}
    <3>1. Once(m.free)
      BY <2>1 DEF Alone
    <3> QED BY <1>4, <3>1
  <2>3. Pool(m.free) \subseteq Sources
    BY <1>2 DEF Pool
  <2>4. \A s \in Sounds : m.active[s] => m.source[s] # i /\ m.source[s] \notin Pool(q)
    <3>1. \A s \in Sounds : m.active[s] => m.source[s] \notin Pool(m.free)
      BY <2>1 DEF Alone
    <3> QED BY <1>4, <2>2, <3>1
  <2>5. \A v \in Voices \ {t} : st1[v].ready =>
           st1[v].source # i /\ st1[v].source \notin Pool(q)
    <3>1. \A v \in Voices : st[v].ready => st[v].source \notin Pool(m.free)
      BY <2>1 DEF Alone
    <3> QED BY <1>4, <2>2, <3>1
  <2>6. i \notin Pool(q)
    BY <2>2
  <2>7. Alone(r, st1)
    <3>1. \A s \in Sounds : r.active[s] => r.source[s] \notin Pool(r.free)
      BY <1>7, <2>4
    <3>2. \A v \in Voices : st1[v].ready => st1[v].source \notin Pool(r.free)
      BY <1>7, <2>5, <2>6
    <3>3. \A s, u \in Sounds :
             r.active[s] /\ r.active[u] /\ r.source[s] = r.source[u] => s = u
      BY <1>7, <2>1 DEF Alone
    <3>4. \A u, v \in Voices :
             st1[u].ready /\ st1[v].ready /\ st1[u].source = st1[v].source => u = v
      <4>1. \A u, v \in Voices :
               st[u].ready /\ st[v].ready /\ st[u].source = st[v].source => u = v
        BY <2>1 DEF Alone
      <4> QED BY <2>5, <4>1
    <3>5. \A s \in Sounds, v \in Voices :
             r.active[s] /\ st1[v].ready => r.source[s] # st1[v].source
      <4>1. \A s \in Sounds, v \in Voices :
               m.active[s] /\ st[v].ready => m.source[s] # st[v].source
        BY <2>1 DEF Alone
      <4> QED BY <1>7, <2>4, <4>1
    <3>6. \A j \in Pool(r.free) : r.al[j] # "playing"
      <4>1. \A j \in Pool(m.free) : m.al[j] # "playing"
        BY <2>1 DEF Alone
      <4> QED BY <1>7, <2>2, <2>3, <4>1
    <3> QED BY <1>7, <2>2, <3>1, <3>2, <3>3, <3>4, <3>5, <3>6 DEF Alone
  <2>8. ASSUME NEW s \in Loops, w[s] = "play"
        PROVE  IF r.active[s]
               THEN r.start[s] \/ r.al[r.source[s]] = "playing" ELSE r.was[s]
    <3>1. IF m.active[s] THEN m.start[s] \/ m.al[m.source[s]] = "playing" ELSE m.was[s]
      BY <2>1, <2>8 DEF Remembered
    <3>2. m.active[s] => m.source[s] \in Sources \ {i}
      BY <2>4, LoopsAreSounds DEF MixOK
    <3> QED BY <1>7, <3>1, <3>2
  <2> QED BY <2>7, <2>8 DEF Remembered
<1> QED BY <1>3, <1>4, <1>5, <1>6, <1>8, <1>9 DEF MixOK

\* A stream gives its source back.
LEMMA StreamGives ==
    ASSUME NEW C, NEW st, NEW w, NEW m, MixOK(m, C, st, w),
           NEW t \in Voices, st[t].ready, NEW i \in Sources, i = st[t].source,
           NEW st1, ~st1[t].ready, \A v \in Voices \ {t} : st1[v] = st[v]
    PROVE  MixOK(Freed(m, i), C, st1, w) /\ Freed(m, i).free # <<>>
<1>1. m \in Mixes
  BY DEF MixOK
<1>2. /\ m.active \in [Sounds -> BOOLEAN] /\ m.start \in [Sounds -> BOOLEAN]
      /\ m.source \in [Sounds -> Sources \union {NoSource}]
      /\ m.was \in [Sounds -> BOOLEAN] /\ m.free \in Seq(Sources)
      /\ m.al \in [Sources -> {"silent", "playing", "paused"}]
  BY <1>1, Mixed
<1>3. PICK q, al : q = <<i>> \o m.free /\ al = [m.al EXCEPT ![i] = "silent"]
  OBVIOUS
<1>4. PICK r : r = MixOf(m.active, m.source, m.start, m.was, q, al)
  OBVIOUS
<1>5. Freed(m, i) = r
  <2>1. m = MixOf(m.active, m.source, m.start, m.was, m.free, m.al)
    BY <1>1, Mixed
  <2>2. PICK n : n = [m EXCEPT !.free = q]
    OBVIOUS
  <2>3. n = MixOf(m.active, m.source, m.start, m.was, q, m.al)
    BY ONLY <2>1, <2>2, FreeSet
  <2>4. /\ n.active = m.active /\ n.source = m.source /\ n.start = m.start
        /\ n.was = m.was /\ n.free = q /\ n.al = m.al
    BY ONLY <2>3 DEF MixOf
  <2>5. n = MixOf(n.active, n.source, n.start, n.was, n.free, n.al)
    BY ONLY <2>3, <2>4
  <2>6. al = [n.al EXCEPT ![i] = "silent"]
    BY <1>3, <2>4
  <2>7. [n EXCEPT !.al[i] = "silent"] =
          MixOf(n.active, n.source, n.start, n.was, n.free, al)
    BY ONLY <2>5, <2>6, AlSet
  <2>8. Freed(m, i) = [n EXCEPT !.al[i] = "silent"]
    BY <1>3, <2>2 DEF Freed
  <2> QED BY <1>4, <2>4, <2>7, <2>8
<1>6. /\ q \in Seq(Sources) /\ q # <<>> /\ Pool(q) = Pool(m.free) \union {i}
      /\ Once(m.free) /\ i \notin Pool(m.free) => Once(q)
  BY <1>2, <1>3, PoolGets
<1>7. /\ al \in [Sources -> {"silent", "playing", "paused"}] /\ al[i] = "silent"
      /\ \A j \in Sources \ {i} : al[j] = m.al[j]
  BY <1>2, <1>3
<1>8. r \in Mixes
  BY <1>2, <1>4, <1>6, <1>7, Made
<1>9. /\ r.active = m.active /\ r.source = m.source /\ r.start = m.start
      /\ r.was = m.was /\ r.free = q /\ r.al = al
  BY <1>4 DEF MixOf
<1>10. \A s \in Sounds : r.active[s] => s \in C /\ r.source[s] \in Sources
  BY <1>9 DEF MixOK
<1>11. ASSUME ~OpenFails PROVE Alone(r, st1) /\ Remembered(r, w)
  <2>1. Alone(m, st) /\ Remembered(m, w)
    BY <1>11 DEF MixOK
  <2>2. i \notin Pool(m.free)
    BY <2>1 DEF Alone
  <2>3. Once(q)
    <3>1. Once(m.free)
      BY <2>1 DEF Alone
    <3> QED BY <1>6, <2>2, <3>1
  <2>4. Pool(m.free) \subseteq Sources
    BY <1>2 DEF Pool
  <2>5. \A s \in Sounds : m.active[s] => m.source[s] \notin Pool(q)
    <3>1. \A s \in Sounds : m.active[s] => m.source[s] \notin Pool(m.free)
      BY <2>1 DEF Alone
    <3>2. \A s \in Sounds : m.active[s] => m.source[s] # i
      BY <2>1 DEF Alone
    <3> QED BY <1>6, <3>1, <3>2
  <2>6. \A v \in Voices \ {t} : st[v].ready => st[v].source \notin Pool(q)
    <3>1. \A v \in Voices : st[v].ready => st[v].source \notin Pool(m.free)
      BY <2>1 DEF Alone
    <3>2. \A v \in Voices \ {t} : st[v].ready => st[v].source # i
      BY <2>1 DEF Alone
    <3> QED BY <1>6, <3>1, <3>2
  <2>7. Alone(r, st1)
    <3>1. \A s \in Sounds : r.active[s] => r.source[s] \notin Pool(r.free)
      BY <1>9, <2>5
    <3>2. \A v \in Voices : st1[v].ready => st1[v].source \notin Pool(r.free)
      BY <1>9, <2>6
    <3>3. \A s, u \in Sounds :
             r.active[s] /\ r.active[u] /\ r.source[s] = r.source[u] => s = u
      BY <1>9, <2>1 DEF Alone
    <3>4. \A u, v \in Voices :
             st1[u].ready /\ st1[v].ready /\ st1[u].source = st1[v].source => u = v
      <4>1. \A u, v \in Voices :
               st[u].ready /\ st[v].ready /\ st[u].source = st[v].source => u = v
        BY <2>1 DEF Alone
      <4> QED BY <4>1
    <3>5. \A s \in Sounds, v \in Voices :
             r.active[s] /\ st1[v].ready => r.source[s] # st1[v].source
      <4>1. \A s \in Sounds, v \in Voices :
               m.active[s] /\ st[v].ready => m.source[s] # st[v].source
        BY <2>1 DEF Alone
      <4> QED BY <1>9, <4>1
    <3>6. \A j \in Pool(r.free) : r.al[j] # "playing"
      <4>1. \A j \in Pool(m.free) : m.al[j] # "playing"
        BY <2>1 DEF Alone
      <4> QED BY <1>6, <1>7, <1>9, <2>4, <4>1
    <3> QED BY <1>9, <2>3, <3>1, <3>2, <3>3, <3>4, <3>5, <3>6 DEF Alone
  <2>8. ASSUME NEW s \in Loops, w[s] = "play"
        PROVE  IF r.active[s]
               THEN r.start[s] \/ r.al[r.source[s]] = "playing" ELSE r.was[s]
    <3>1. IF m.active[s] THEN m.start[s] \/ m.al[m.source[s]] = "playing" ELSE m.was[s]
      BY <2>1, <2>8 DEF Remembered
    <3>2. m.active[s] => m.source[s] \in Sources \ {i}
      BY <2>1, LoopsAreSounds DEF MixOK, Alone
    <3> QED BY <1>7, <1>9, <3>1, <3>2
  <2> QED BY <2>7, <2>8 DEF Remembered
<1> QED BY <1>5, <1>6, <1>8, <1>9, <1>10, <1>11 DEF MixOK

-----------------------------------------------------------------------------
(* The buffers of a stream.                                                *)

StreamOf(state, ready, source, decoded, queue, done) ==
    [state |-> state, ready |-> ready, source |-> source, decoded |-> decoded,
     queue |-> queue, done |-> done]

\* A stream is its six parts.
LEMMA StreamMade ==
    ASSUME NEW s \in StreamsMade
    PROVE  /\ s = StreamOf(s.state, s.ready, s.source, s.decoded, s.queue, s.done)
           /\ s.state \in {"not_started", "play", "pause", "stop"} /\ s.ready \in BOOLEAN
           /\ s.source \in Sources /\ s.decoded \in 0 .. Chunks
           /\ s.queue \in Seq(Nat) /\ s.done \in Nat
BY DEF StreamsMade, StreamOf

\* Min of two numbers is the smaller one.
LEMMA Smaller ==
    ASSUME NEW a \in Int, NEW b \in Int
    PROVE  /\ Min({a, b}) \in {a, b}
           /\ Min({a, b}) <= a /\ Min({a, b}) <= b
<1> DEFINE P(x) == \A y \in {a, b} : x =< y
<1>1. \E x \in {a, b} : P(x)
  BY a <= b \/ b <= a
<1>2. Min({a, b}) = CHOOSE x \in {a, b} : P(x)
  BY DEF Min
<1>3. Min({a, b}) \in {a, b} /\ P(Min({a, b}))
  <2> HIDE DEF P
  <2> QED BY <1>1, <1>2
<1> QED BY <1>3

\* The queue of a stream that has been set up.
LEMMA InitializedOK ==
    ASSUME NEW i \in Sources
    PROVE  /\ Initialized(i) \in StreamsMade /\ QueueOK(Initialized(i))
           /\ Initialized(i).ready /\ Initialized(i).source = i
           /\ Initialized(i).state = "not_started"
<1>0. BufferCount \in Nat /\ Chunks \in Nat
  BY VorbisAssumption DEF VorbisAssumption
<1>1. PICK n : n = Min({BufferCount, Chunks})
  OBVIOUS
<1>2. n \in Nat /\ n <= BufferCount /\ n <= Chunks
  BY <1>0, <1>1, Smaller
<1>3. PICK q : q = [k \in 1 .. n |-> k]
  OBVIOUS
<1>4. q \in Seq(Nat) /\ Len(q) = n /\ DOMAIN q = 1 .. n /\ \A k \in 1 .. n : q[k] = k
  BY <1>2, <1>3
<1>5. PICK s : s = StreamOf("not_started", TRUE, i, n, q, 0)
  OBVIOUS
<1>6. Initialized(i) = s
  BY <1>1, <1>3, <1>5 DEF Initialized, StreamOf
<1>7. s \in StreamsMade
  <2>1. n \in 0 .. Chunks /\ 0 \in Nat
    BY <1>0, <1>2
  <2> QED BY <1>4, <1>5, <2>1 DEF StreamsMade, StreamOf
<1>8. /\ s.state = "not_started" /\ s.ready = TRUE /\ s.source = i
      /\ s.decoded = n /\ s.queue = q /\ s.done = 0
  BY <1>5 DEF StreamOf
<1>9. QueueOK(s)
  <2>1. s.decoded - Len(s.queue) = 0 /\ s.done <= Len(s.queue) /\ Len(s.queue) <= BufferCount
    <3>1. n - n = 0 /\ 0 <= n
      BY <1>2
    <3> QED BY <1>2, <1>4, <1>8, <3>1
  <2>2. \A k \in DOMAIN s.queue : s.queue[k] = s.decoded - Len(s.queue) + k
    <3>1. \A k \in 1 .. n : k = 0 + k
      BY <1>2
    <3> QED BY <1>4, <1>8, <2>1, <3>1
  <2> QED BY <2>1, <2>2 DEF QueueOK
<1> QED BY <1>6, <1>7, <1>8, <1>9

\* Where the elements of two sequences in a row come from.
LEMMA Joined ==
    ASSUME NEW a \in Seq(Nat), NEW b \in Seq(Nat), NEW q, q = a \o b
    PROVE  /\ Len(q) = Len(a) + Len(b) /\ DOMAIN q = 1 .. Len(a) + Len(b)
           /\ \A k \in 1 .. Len(a) : q[k] = a[k]
           /\ \A k \in 1 .. Len(b) : q[k + Len(a)] = b[k]
<1>1. q \in Seq(Nat) /\ Len(q) = Len(a) + Len(b) /\ Len(a) \in Nat /\ Len(b) \in Nat
  OBVIOUS
<1>2. DOMAIN q = 1 .. Len(a) + Len(b)
  BY <1>1
<1>3. \A k \in 1 .. Len(a) : q[k] = a[k]
  OBVIOUS
<1>4. ASSUME NEW k \in 1 .. Len(b) PROVE q[k + Len(a)] = b[k]
  <2>1. k + Len(a) \in 1 .. Len(a) + Len(b) /\ k + Len(a) > Len(a)
    BY <1>1
  <2> QED BY <2>1
<1> QED BY <1>1, <1>2, <1>3, <1>4

\* The buffers that were played are filled again.
Refill(dec, que, don, n) ==
    SubSeq(que, don + 1, Len(que)) \o [k \in 1 .. n |-> dec + k]

\* What is queued again goes on from where the queue ended.
LEMMA Refills ==
    ASSUME NEW dec \in 0 .. Chunks, NEW que \in Seq(Nat), NEW don \in Nat,
           NEW n, n = Min({don, Chunks - dec}),
           NEW q, q = Refill(dec, que, don, n), NEW d, d = dec + n
    PROVE  /\ d \in 0 .. Chunks /\ q \in Seq(Nat)
           /\ /\ don <= Len(que) /\ Len(que) <= BufferCount
              /\ \A k \in DOMAIN que : que[k] = dec - Len(que) + k
              => /\ 0 <= Len(q) /\ Len(q) <= BufferCount
                 /\ \A k \in DOMAIN q : q[k] = d - Len(q) + k
<1>0. BufferCount \in Nat /\ Chunks \in Nat /\ dec \in Nat /\ dec <= Chunks
  BY VorbisAssumption DEF VorbisAssumption
<1>1. n \in Nat /\ n <= don /\ dec + n \in 0 .. Chunks
  <2>1. Chunks - dec \in Nat /\ don \in Int
    BY <1>0
  <2>2. PICK c \in Int : c = Chunks - dec
    BY <2>1
  <2>3. n \in {don, c} /\ n <= don /\ n <= c
    BY <2>1, <2>2, Smaller
  <2> QED BY ONLY <1>0, <2>1, <2>2, <2>3
<1>2. PICK a, b : /\ a = SubSeq(que, don + 1, Len(que))
                  /\ b = [k \in 1 .. n |-> dec + k]
  OBVIOUS
<1>3. b \in Seq(Nat) /\ Len(b) = n /\ \A k \in 1 .. n : b[k] = dec + k
  BY ONLY <1>0, <1>1, <1>2
<1>4. a \in Seq(Nat)
  BY <1>2
<1>5. q = a \o b /\ q \in Seq(Nat)
  BY <1>2, <1>3, <1>4 DEF Refill
<1>6. ASSUME don <= Len(que), Len(que) <= BufferCount,
             \A k \in DOMAIN que : que[k] = dec - Len(que) + k
      PROVE  /\ 0 <= Len(q) /\ Len(q) <= BufferCount
             /\ \A k \in DOMAIN q : q[k] = d - Len(q) + k
  <2>1. PICK l \in Nat : l = Len(que)
    OBVIOUS
  <2>2. \A k \in 1 .. l : que[k] = dec - l + k
    BY ONLY <1>0, <1>1, <1>6, <2>1
  <2>3. /\ Len(a) = l - don
        /\ \A k \in 1 .. l - don : a[k] = que[k + don]
    BY ONLY <1>0, <1>1, <1>2, <1>6, <2>1
  <2>4. Len(q) = l - don + n /\ DOMAIN q = 1 .. l - don + n
    <3>1. Len(q) = Len(a) + Len(b) /\ DOMAIN q = 1 .. Len(a) + Len(b)
      BY ONLY <1>3, <1>4, <1>5, Joined
    <3> QED BY ONLY <1>3, <2>3, <3>1
  <2>5. ASSUME NEW k \in 1 .. l - don + n
        PROVE  q[k] = dec + n - (l - don + n) + k
    <3>1. CASE k <= l - don
      <4>1. k \in 1 .. l - don /\ k + don \in 1 .. l
        BY ONLY <1>0, <1>1, <1>6, <2>1, <3>1
      <4>2. q[k] = a[k]
        <5>1. \A j \in 1 .. Len(a) : q[j] = a[j]
          BY ONLY <1>3, <1>4, <1>5, Joined
        <5> QED BY ONLY <2>3, <4>1, <5>1
      <4>3. a[k] = dec - l + (k + don)
        BY ONLY <1>0, <1>1, <2>2, <2>3, <4>1
      <4> QED BY ONLY <1>0, <1>1, <4>2, <4>3
    <3>2. CASE k > l - don
      <4>1. k - (l - don) \in 1 .. n
        BY ONLY <1>0, <1>1, <2>1, <1>6, <3>2
      <4>2. q[k] = b[k - (l - don)]
        <5>1. \A j \in 1 .. Len(b) : q[j + Len(a)] = b[j]
          BY ONLY <1>3, <1>4, <1>5, Joined
        <5>2. k - (l - don) \in 1 .. Len(b) /\ k - (l - don) + Len(a) = k
          BY ONLY <1>1, <1>3, <2>1, <2>3, <4>1
        <5> QED BY ONLY <5>1, <5>2
      <4>3. b[k - (l - don)] = dec + (k - (l - don))
        BY ONLY <1>3, <4>1
      <4> QED BY ONLY <1>0, <1>1, <4>2, <4>3
    <3> QED BY ONLY <1>1, <2>1, <3>1, <3>2
  <2>6. 0 <= Len(q) /\ Len(q) <= BufferCount
    BY ONLY <1>0, <1>1, <1>6, <2>1, <2>4
  <2>7. \A k \in 1 .. l - don + n : q[k] = d - (l - don + n) + k
    BY ONLY <1>0, <1>1, d = dec + n, <2>5
  <2> QED BY ONLY <2>4, <2>6, <2>7
<1> QED BY <1>1, <1>5, <1>6

\* The loop of Update keeps the queue in order.
LEMMA RefilledOK ==
    ASSUME NEW s \in StreamsMade, QueueOK(s)
    PROVE  /\ Refilled(s) \in StreamsMade /\ QueueOK(Refilled(s))
           /\ Refilled(s).ready = s.ready /\ Refilled(s).source = s.source
           /\ Refilled(s).state = s.state
<1>1. PICK state, ready, source, dec, que, don :
         /\ state = s.state /\ ready = s.ready /\ source = s.source
         /\ dec = s.decoded /\ que = s.queue /\ don = s.done
  OBVIOUS
<1>2. s = StreamOf(state, ready, source, dec, que, don)
  BY <1>1, StreamMade
<1>3. dec \in 0 .. Chunks /\ que \in Seq(Nat) /\ don \in Nat
  BY <1>1, StreamMade
<1>4. /\ state \in {"not_started", "play", "pause", "stop"} /\ source \in Sources
  BY <1>1, StreamMade
<1>5. ready \in BOOLEAN
  BY <1>1, StreamMade
<1>6. PICK n, q, d : /\ n = Min({don, Chunks - dec})
                     /\ q = Refill(dec, que, don, n) /\ d = dec + n
  OBVIOUS
<1>7. /\ d \in 0 .. Chunks /\ q \in Seq(Nat)
      /\ /\ don <= Len(que) /\ Len(que) <= BufferCount
         /\ \A k \in DOMAIN que : que[k] = dec - Len(que) + k
         => /\ 0 <= Len(q) /\ Len(q) <= BufferCount
            /\ \A k \in DOMAIN q : q[k] = d - Len(q) + k
  BY ONLY VorbisAssumption, <1>3, <1>6, Refills
<1>9. PICK r : r = StreamOf(state, ready, source, d, q, 0)
  OBVIOUS
<1>10. Refilled(s) = r
  <2>1. PICK s1 : s1 = [s EXCEPT !.queue = q]
    OBVIOUS
  <2>2. s1 = StreamOf(state, ready, source, dec, q, don)
    BY ONLY <1>2, <2>1 DEF StreamOf
  <2>9. PICK s2 : s2 = [s1 EXCEPT !.decoded = d]
    OBVIOUS
  <2>3. s2 = StreamOf(state, ready, source, d, q, don)
    BY ONLY <2>9, <2>2 DEF StreamOf
  <2>4. [s2 EXCEPT !.done = 0] = r
    BY ONLY <1>9, <2>3 DEF StreamOf
  <2>5. s1.decoded = dec
    BY ONLY <2>2 DEF StreamOf
  <2>6. Refilled(s) = [s2 EXCEPT !.done = 0]
    BY <1>1, <1>6, <2>1, <2>9, <2>5 DEF Refilled, Refill
  <2> QED BY <2>4, <2>6
<1>11. r \in StreamsMade
  <2>1. d \in 0 .. Chunks /\ q \in Seq(Nat) /\ 0 \in Nat
    BY <1>7
  <2> QED BY <1>4, <1>5, <1>9, <2>1 DEF StreamsMade, StreamOf
<1>12. /\ r.state = state /\ r.ready = ready /\ r.source = source
       /\ r.decoded = d /\ r.queue = q /\ r.done = 0
  BY <1>9 DEF StreamOf
<1>13. ASSUME r.ready PROVE QueueOK(r)
  <2>1. s.ready
    BY <1>1, <1>12, <1>13
  <2>2. /\ don <= Len(que) /\ Len(que) <= BufferCount
        /\ \A k \in DOMAIN que : que[k] = dec - Len(que) + k
    BY <1>1, <2>1 DEF QueueOK
  <2>3. /\ 0 <= Len(q) /\ Len(q) <= BufferCount
        /\ \A k \in DOMAIN q : q[k] = d - Len(q) + k
    BY <1>7, <2>2
  <2> QED BY <1>12, <2>3 DEF QueueOK
<1> QED BY <1>1, <1>10, <1>11, <1>12, <1>13 DEF QueueOK

-----------------------------------------------------------------------------
(* Sounds are made and destroyed.                                          *)

Counted(C) == [f \in SoundFiles |-> Cardinality({s \in C : FileOf[s] = f})]

\* One more sound of a file is one more reference to its buffer.
LEMMA CountsOne ==
    ASSUME NEW C, IsFiniteSet(C), C \subseteq Sounds, NEW s \in Sounds, s \notin C
    PROVE  Counted(C \union {s}) = [Counted(C) EXCEPT ![FileOf[s]] = @ + 1]
<1> DEFINE Of(X, f) == {x \in X : FileOf[x] = f}
<1>1. FileOf[s] \in SoundFiles
  BY DEF SoundFiles
<1>2. \A f \in SoundFiles : f # FileOf[s] => Of(C \union {s}, f) = Of(C, f)
  OBVIOUS
<1>3. Of(C \union {s}, FileOf[s]) = Of(C, FileOf[s]) \union {s} /\ s \notin Of(C, FileOf[s])
  OBVIOUS
<1>4. IsFiniteSet(Of(C, FileOf[s]))
  <2>1. Of(C, FileOf[s]) \in SUBSET C
    OBVIOUS
  <2> QED BY <2>1, FS_Subset
<1>5. Cardinality(Of(C \union {s}, FileOf[s])) = Cardinality(Of(C, FileOf[s])) + 1
  <2> HIDE DEF Of
  <2> QED BY <1>3, <1>4, FS_AddElement
<1>6. /\ Counted(C) = [f \in SoundFiles |-> Cardinality(Of(C, f))]
      /\ Counted(C \union {s}) = [f \in SoundFiles |-> Cardinality(Of(C \union {s}, f))]
  BY DEF Counted
<1> HIDE DEF Of
<1>7. \A f \in SoundFiles : Counted(C)[f] = Cardinality(Of(C, f))
  BY <1>6
<1>8. ASSUME NEW f \in SoundFiles
      PROVE  Counted(C \union {s})[f] = [Counted(C) EXCEPT ![FileOf[s]] = @ + 1][f]
  <2>1. CASE f = FileOf[s]
    BY <1>1, <1>5, <1>6, <1>7, <2>1
  <2>2. CASE f # FileOf[s]
    BY <1>2, <1>6, <1>7, <2>2
  <2> QED BY <2>1, <2>2
<1> QED BY <1>6, <1>8

\* One sound less is one reference less.
LEMMA CountsLess ==
    ASSUME NEW C, IsFiniteSet(C), C \subseteq Sounds, NEW s \in C
    PROVE  Counted(C \ {s}) = [Counted(C) EXCEPT ![FileOf[s]] = @ - 1]
<1> DEFINE Of(X, f) == {x \in X : FileOf[x] = f}
<1>1. FileOf[s] \in SoundFiles
  BY DEF SoundFiles
<1>2. \A f \in SoundFiles : f # FileOf[s] => Of(C \ {s}, f) = Of(C, f)
  OBVIOUS
<1>3. Of(C \ {s}, FileOf[s]) = Of(C, FileOf[s]) \ {s} /\ s \in Of(C, FileOf[s])
  OBVIOUS
<1>4. IsFiniteSet(Of(C, FileOf[s]))
  <2>1. Of(C, FileOf[s]) \in SUBSET C
    OBVIOUS
  <2> QED BY <2>1, FS_Subset
<1>5. Cardinality(Of(C \ {s}, FileOf[s])) = Cardinality(Of(C, FileOf[s])) - 1
  <2> HIDE DEF Of
  <2> QED BY <1>3, <1>4, FS_RemoveElement
<1>6. /\ Counted(C) = [f \in SoundFiles |-> Cardinality(Of(C, f))]
      /\ Counted(C \ {s}) = [f \in SoundFiles |-> Cardinality(Of(C \ {s}, f))]
  BY DEF Counted
<1> HIDE DEF Of
<1>7. \A f \in SoundFiles : Counted(C)[f] = Cardinality(Of(C, f))
  BY <1>6
<1>8. ASSUME NEW f \in SoundFiles
      PROVE  Counted(C \ {s})[f] = [Counted(C) EXCEPT ![FileOf[s]] = @ - 1][f]
  <2>1. CASE f = FileOf[s]
    BY <1>1, <1>5, <1>6, <1>7, <2>1
  <2>2. CASE f # FileOf[s]
    BY <1>2, <1>6, <1>7, <2>2
  <2> QED BY <2>1, <2>2
<1> QED BY <1>6, <1>8

\* Making room for a sound leaves the mix as it should be.
LEMMA Culling ==
    ASSUME created \subseteq Sounds,
           NEW st \in [Voices -> StreamsMade \union {NoStream}], NEW w,
           MixOK(mix, created, st, w), NEW p, NEW m \in MixAfterCulling(p)
    PROVE  MixOK(m, created, st, w)
<1>1. m = mix \/ \E s \in Sounds : m = Deactivated(mix, s)
  BY DEF MixAfterCulling, Candidates
<1>2. CASE m = mix
  BY <1>2
<1>3. ASSUME NEW s \in Sounds, m = Deactivated(mix, s) PROVE MixOK(m, created, st, w)
  BY <1>3, Deactivation
<1> QED BY <1>1, <1>2, <1>3

Blank(m, s) == [m EXCEPT !.source[s] = NoSource, !.was[s] = FALSE]

\* A sound that is made starts without a source, and with nothing to resume.
LEMMA Fresh ==
    ASSUME NEW C, NEW st, NEW w, NEW m, MixOK(m, C, st, w),
           w \in [Sounds -> {"play", "stop", "pause"}], NEW s \in Sounds, s \notin C,
           NEW n, n = Blank(m, s),
           NEW w2, w2 = [w EXCEPT ![s] = "stop"]
    PROVE  MixOK(n, C \union {s}, st, w2) /\ ~n.active[s]
<1>1. m \in Mixes
  BY DEF MixOK
<1>2. /\ m.active \in [Sounds -> BOOLEAN] /\ m.start \in [Sounds -> BOOLEAN]
      /\ m.source \in [Sounds -> Sources \union {NoSource}]
      /\ m.was \in [Sounds -> BOOLEAN] /\ m.free \in Seq(Sources)
      /\ m.al \in [Sources -> {"silent", "playing", "paused"}]
  BY <1>1, Mixed
<1>3. PICK s1, w1 : /\ s1 = [m.source EXCEPT ![s] = NoSource]
                    /\ w1 = [m.was EXCEPT ![s] = FALSE]
  OBVIOUS
<1>4. PICK r : r = MixOf(m.active, s1, m.start, w1, m.free, m.al)
  OBVIOUS
<1>5. n = r
  <2>1. PICK active, source, start, was, free, al :
           /\ active = m.active /\ source = m.source /\ start = m.start
           /\ was = m.was /\ free = m.free /\ al = m.al
    OBVIOUS
  <2>2. m = MixOf(active, source, start, was, free, al)
    BY <1>1, <2>1, Mixed
  <2>3. PICK k : k = [m EXCEPT !.source[s] = NoSource]
    OBVIOUS
  <2>4. k = MixOf(active, s1, start, was, free, al)
    BY <1>3, <2>1, <2>2, <2>3 DEF MixOf
  <2>5. PICK x : x = FALSE
    OBVIOUS
  <2>6. [k EXCEPT !.was[s] = x] = MixOf(active, s1, start, [was EXCEPT ![s] = x], free, al)
    BY ONLY <2>4 DEF MixOf
  <2> QED BY <1>3, <1>4, <2>1, <2>3, <2>5, <2>6 DEF Blank
<1>6. s1 \in [Sounds -> Sources \union {NoSource}] /\ w1 \in [Sounds -> BOOLEAN]
  BY <1>2, <1>3
<1>7. r \in Mixes
  BY <1>2, <1>4, <1>6, Made
<1>8. /\ r.active = m.active /\ r.source = s1 /\ r.start = m.start
      /\ r.was = w1 /\ r.free = m.free /\ r.al = m.al
  BY <1>4 DEF MixOf
<1>9. ~m.active[s]
  BY DEF MixOK
<1>10. \A u \in Sounds \ {s} : r.source[u] = m.source[u] /\ r.was[u] = m.was[u]
  BY <1>2, <1>3, <1>8
<1>11. \A u \in Sounds : r.active[u] => u \in C /\ r.source[u] \in Sources
  BY <1>8, <1>9, <1>10 DEF MixOK
<1>12. ASSUME ~OpenFails PROVE Alone(r, st) /\ Remembered(r, w2)
  <2>1. Alone(m, st) /\ Remembered(m, w)
    BY <1>12 DEF MixOK
  <2>2. \A u \in Sounds : r.active[u] => m.active[u] /\ r.source[u] = m.source[u]
    BY <1>8, <1>9, <1>10
  <2>3. Alone(r, st)
    BY <1>8, <2>1, <2>2 DEF Alone
  <2>4. ASSUME NEW u \in Loops, w2[u] = "play"
        PROVE  IF r.active[u]
               THEN r.start[u] \/ r.al[r.source[u]] = "playing" ELSE r.was[u]
    <3>1. u # s /\ w[u] = "play"
      BY <2>4, LoopsAreSounds
    <3>2. IF m.active[u] THEN m.start[u] \/ m.al[m.source[u]] = "playing" ELSE m.was[u]
      BY <2>1, <3>1 DEF Remembered
    <3> QED BY <1>8, <1>10, <3>1, <3>2, LoopsAreSounds
  <2> QED BY <2>3, <2>4 DEF Remembered
<1> QED BY <1>5, <1>7, <1>8, <1>9, <1>11, <1>12 DEF MixOK

LEMMA SameVoices ==
    ASSUME VoicesOK, UNCHANGED <<streams, library>>
    PROVE  VoicesOK'
BY DEF VoicesOK, Opened, QueueOK

\* CreateSound: one may be culled, the new one may get the source.
LEMMA CreateSoundKeeps ==
    ASSUME SoundsInv, NEW s \in Sounds, CreateSound(s)
    PROVE  SoundsInv'
<1>1. /\ created \subseteq Sounds /\ wish \in [Sounds -> {"play", "stop", "pause"}]
      /\ streams \in [Voices -> StreamsMade \union {NoStream}]
      /\ MixOK(mix, created, streams, wish) /\ s \notin created
      /\ volume \in [Sounds -> Volumes \union {1}]
  BY DEF SoundsInv, CountsOK, VoicesOK, CreateSound
<1>2. UNCHANGED volume /\ UNCHANGED <<streams, library>>
  BY DEF CreateSound, streamVars
<1>3. VoicesOK'
  BY <1>2, SameVoices DEF SoundsInv
<1>4. PICK m \in MixAfterCulling(Priority[s]), fails \in {FALSE, AttachFails} :
         \/ /\ mix' = Reactivated(Blank(m, s), s, fails)
            /\ created' = created \union {s}
            /\ refs' = Shared(FileOf[s])
            /\ wish' = [wish EXCEPT ![s] = "stop"]
         \/ mix' = m /\ UNCHANGED <<created, refs, wish>>
  BY Zenon DEF CreateSound, Blank
<1>5. MixOK(m, created, streams, wish)
  BY <1>1, Culling
<1>6. CASE mix' = m /\ UNCHANGED <<created, refs, wish>>
  <2>1. CountsOK'
    BY <1>2, <1>6 DEF SoundsInv, CountsOK
  <2>2. MixOK(mix', created', streams', wish')
    BY <1>2, <1>5, <1>6
  <2> QED BY <1>3, <2>1, <2>2 DEF SoundsInv
<1>7. CASE /\ mix' = Reactivated(Blank(m, s), s, fails)
           /\ created' = created \union {s}
           /\ refs' = Shared(FileOf[s])
           /\ wish' = [wish EXCEPT ![s] = "stop"]
  <2>1. PICK n : n = Blank(m, s)
    OBVIOUS
  <2>2. PICK w : w = [wish EXCEPT ![s] = "stop"]
    OBVIOUS
  <2>3. MixOK(n, created \union {s}, streams, w) /\ ~n.active[s]
    BY <1>1, <1>5, <2>1, <2>2, Fresh
  <2>4. fails \in BOOLEAN
    BY SoundAssumption DEF SoundAssumption
  <2>5. PICK D : D = created \union {s}
    OBVIOUS
  <2>6. MixOK(Reactivated(n, s, fails), D, streams, w)
    <3>1. s \in D
      BY <2>5
    <3> QED BY <1>1, <2>3, <2>4, <2>5, <3>1, Reactivation
  <2>7. MixOK(mix', created', streams', wish')
    BY <1>2, <1>7, <2>1, <2>2, <2>5, <2>6
  <2>8. CountsOK'
    <3>1. refs = Counted(created)
      BY DEF SoundsInv, CountsOK, Counted
    <3>2. IsFiniteSet(created)
      <4>1. IsFiniteSet(Sounds) /\ created \in SUBSET Sounds
        BY <1>1, SoundAssumption DEF SoundAssumption
      <4> QED BY <4>1, FS_Subset
    <3>3. refs' = Counted(created')
      BY <1>1, <1>7, <3>1, <3>2, CountsOne DEF Shared
    <3>4. (refs = [f \in SoundFiles |-> Cardinality({x \in created : FileOf[x] = f})])'
      BY <3>3 DEF Counted
    <3>5. created' \subseteq Sounds /\ wish' \in [Sounds -> {"play", "stop", "pause"}]
      BY <1>1, <1>7
    <3> QED BY <1>1, <1>2, <3>4, <3>5 DEF CountsOK
  <2> QED BY <1>3, <2>7, <2>8 DEF SoundsInv
<1> QED BY <1>4, <1>6, <1>7

\* DestroySound: the source is given back.
LEMMA DestroySoundKeeps ==
    ASSUME SoundsInv, NEW s \in Sounds, DestroySound(s)
    PROVE  SoundsInv'
<1>1. /\ created \subseteq Sounds /\ wish \in [Sounds -> {"play", "stop", "pause"}]
      /\ streams \in [Voices -> StreamsMade \union {NoStream}]
      /\ MixOK(mix, created, streams, wish) /\ s \in created
      /\ volume \in [Sounds -> Volumes \union {1}]
  BY DEF SoundsInv, CountsOK, VoicesOK, DestroySound
<1>2. /\ created' = created \ {s} /\ mix' = Deactivated(mix, s)
      /\ refs' = [refs EXCEPT ![FileOf[s]] = @ - 1]
      /\ UNCHANGED <<volume, wish>> /\ UNCHANGED <<streams, library>>
  BY DEF DestroySound, streamVars
<1>3. VoicesOK'
  BY <1>2, SameVoices DEF SoundsInv
<1>4. PICK n : n = Deactivated(mix, s)
  OBVIOUS
<1>5. MixOK(n, created, streams, wish) /\ ~n.active[s]
  BY <1>1, <1>4, Deactivation
<1>6. MixOK(n, created \ {s}, streams, wish)
  BY <1>5 DEF MixOK
<1>7. MixOK(mix', created', streams', wish')
  BY <1>2, <1>4, <1>6
<1>8. CountsOK'
  <2>1. refs = Counted(created)
    BY DEF SoundsInv, CountsOK, Counted
  <2>2. IsFiniteSet(created)
    <3>1. IsFiniteSet(Sounds) /\ created \in SUBSET Sounds
      BY <1>1, SoundAssumption DEF SoundAssumption
    <3> QED BY <3>1, FS_Subset
  <2>3. refs' = Counted(created')
    BY <1>1, <1>2, <2>1, <2>2, CountsLess
  <2>4. (refs = [f \in SoundFiles |-> Cardinality({x \in created : FileOf[x] = f})])'
    BY <2>3 DEF Counted
  <2> QED BY <1>1, <1>2, <2>4 DEF CountsOK
<1> QED BY <1>3, <1>7, <1>8 DEF SoundsInv

-----------------------------------------------------------------------------
(* Streams are made, destroyed and played.                                 *)

\* A place without a stream is unlike any stream.
LEMMA NoStreamIs ==
    /\ ~NoStream.ready /\ NoStream.state = "none" /\ QueueOK(NoStream)
    /\ \A v \in StreamsMade : v # NoStream
<1>1. ~NoStream.ready /\ NoStream.state = "none"
  BY DEF NoStream
<1>2. QueueOK(NoStream)
  BY <1>1 DEF QueueOK
<1>3. ASSUME NEW v \in StreamsMade PROVE v # NoStream
  <2>1. v.state \in {"not_started", "play", "pause", "stop"}
    BY StreamMade
  <2> QED BY <1>1, <2>1
<1> QED BY <1>1, <1>2, <1>3

\* A stream that is open stays so.
LEMMA VoiceSet ==
    ASSUME VoicesOK, NEW t \in Voices, streams[t] # NoStream,
           NEW v \in StreamsMade, QueueOK(v), ~OpenFails => v.ready,
           streams' = [streams EXCEPT ![t] = v],
           \/ UNCHANGED library
           \/ library' = Loaded(library) /\ library.refs + 1 <= MaxLibrary
    PROVE  VoicesOK'
<1>1. streams' \in [Voices -> StreamsMade \union {NoStream}]
  BY DEF VoicesOK
<1>2. \A u \in Voices : streams'[u] = IF u = t THEN v ELSE streams[u]
  BY DEF VoicesOK
<1>3. \A u \in Voices : QueueOK(streams'[u])
  BY <1>2 DEF VoicesOK
<1>4. Opened(streams') = Opened(streams)
  BY <1>2, NoStreamIs DEF Opened
<1>5. /\ library.refs \in Int /\ library.loaded \in BOOLEAN
      /\ library = [refs |-> library.refs, loaded |-> library.loaded]
  BY DEF VoicesOK
<1>6. /\ library' = [refs |-> library'.refs, loaded |-> library'.loaded]
      /\ library'.refs \in Int /\ library'.loaded \in BOOLEAN
  <2>1. CASE UNCHANGED library
    BY <1>5, <2>1
  <2>2. CASE library' = Loaded(library)
    <3>1. library'.refs = library.refs + 1 /\ library'.loaded = TRUE
      BY <2>2 DEF Loaded
    <3>2. library' = [refs |-> library'.refs, loaded |-> library'.loaded]
      BY <2>2, <3>1 DEF Loaded
    <3>3. library'.refs \in Int
      BY <1>5, <3>1
    <3> QED BY <3>1, <3>2, <3>3
  <2> QED BY <2>1, <2>2
<1>7. ASSUME ~OpenFails
      PROVE  /\ \A u \in Opened(streams') : streams'[u].ready
             /\ library'.refs \in Cardinality(Opened(streams')) .. MaxLibrary
             /\ Opened(streams') # {} => library'.loaded
  <2>1. /\ \A u \in Opened(streams) : streams[u].ready
        /\ library.refs \in Cardinality(Opened(streams)) .. MaxLibrary
        /\ Opened(streams) # {} => library.loaded
    BY <1>7 DEF VoicesOK
  <2>2. \A u \in Opened(streams') : streams'[u].ready
    BY <1>2, <1>4, <1>7, <2>1 DEF Opened
  <2>3. CASE UNCHANGED library
    BY <1>4, <2>1, <2>2, <2>3
  <2>4. CASE library' = Loaded(library) /\ library.refs + 1 <= MaxLibrary
    <3>1. library'.refs = library.refs + 1 /\ library'.loaded = TRUE
      BY <2>4 DEF Loaded
    <3>2. library'.refs \in Cardinality(Opened(streams)) .. MaxLibrary
      <4>1. PICK c \in Nat : c = Cardinality(Opened(streams))
        <5>1. IsFiniteSet(Voices) /\ Opened(streams) \in SUBSET Voices
          BY SoundAssumption DEF SoundAssumption, Opened
        <5> QED BY <5>1, FS_Subset, FS_CardinalityType
      <4>2. library.refs \in c .. MaxLibrary /\ MaxLibrary \in Nat
        BY <2>1, <4>1, SoundAssumption DEF SoundAssumption
      <4>3. library.refs + 1 \in c .. MaxLibrary
        BY <1>5, <2>4, <4>2
      <4> QED BY <3>1, <4>1, <4>3
    <3> QED BY <1>4, <2>2, <3>1, <3>2
  <2> QED BY <2>3, <2>4
<1> QED BY <1>1, <1>3, <1>6, <1>7 DEF VoicesOK

\* A stream that is opened holds the library, and gives it back.
LEMMA VoiceOpened ==
    ASSUME VoicesOK, NEW t \in Voices, streams[t] = NoStream,
           NEW v \in StreamsMade, QueueOK(v), v.ready,
           streams' = [streams EXCEPT ![t] = v], library' = Loaded(library),
           library'.refs \in -MaxLibrary .. MaxLibrary
    PROVE  VoicesOK'
<1>1. streams' \in [Voices -> StreamsMade \union {NoStream}]
  BY DEF VoicesOK
<1>2. \A u \in Voices : streams'[u] = IF u = t THEN v ELSE streams[u]
  BY DEF VoicesOK
<1>3. \A u \in Voices : QueueOK(streams'[u])
  BY <1>2 DEF VoicesOK
<1>4. Opened(streams') = Opened(streams) \union {t} /\ t \notin Opened(streams)
  BY <1>2, NoStreamIs DEF Opened
<1>5. /\ library.refs \in Int /\ library.loaded \in BOOLEAN
      /\ library = [refs |-> library.refs, loaded |-> library.loaded]
  BY DEF VoicesOK
<1>6. /\ library' = [refs |-> library'.refs, loaded |-> library'.loaded]
      /\ library'.refs = library.refs + 1 /\ library'.loaded = TRUE
  BY <1>5 DEF Loaded
<1>7. ASSUME ~OpenFails
      PROVE  /\ \A u \in Opened(streams') : streams'[u].ready
             /\ library'.refs \in Cardinality(Opened(streams')) .. MaxLibrary
  <2>1. /\ \A u \in Opened(streams) : streams[u].ready
        /\ library.refs \in Cardinality(Opened(streams)) .. MaxLibrary
    BY <1>7 DEF VoicesOK
  <2>2. \A u \in Opened(streams') : streams'[u].ready
    BY <1>2, <1>4, <2>1 DEF Opened
  <2>3. IsFiniteSet(Opened(streams))
    <3>1. IsFiniteSet(Voices) /\ Opened(streams) \in SUBSET Voices
      BY SoundAssumption DEF SoundAssumption, Opened
    <3> QED BY <3>1, FS_Subset
  <2>4. PICK c \in Nat : c = Cardinality(Opened(streams))
    BY <2>3, FS_CardinalityType
  <2>5. Cardinality(Opened(streams')) = c + 1
    BY <1>4, <2>3, <2>4, FS_AddElement
  <2>6. MaxLibrary \in Nat
    BY SoundAssumption DEF SoundAssumption
  <2>7. library'.refs <= MaxLibrary
    BY <1>5, <1>6, <2>6
  <2>8. library.refs \in c .. MaxLibrary
    BY <2>1, <2>4
  <2>9. library.refs + 1 \in c + 1 .. MaxLibrary
    BY <1>5, <1>6, <2>6, <2>7, <2>8
  <2> QED BY <1>6, <2>2, <2>5, <2>9
<1>8. library'.refs \in Int /\ library'.loaded \in BOOLEAN
  <2>1. library'.refs \in Int
    BY <1>5, <1>6
  <2>2. library'.loaded \in BOOLEAN
    BY <1>6
  <2> QED BY <2>1, <2>2
<1> QED BY <1>1, <1>3, <1>6, <1>7, <1>8 DEF VoicesOK

\* A stream is destroyed: one user of the library less.
LEMMA VoiceClosed ==
    ASSUME VoicesOK, NEW t \in Voices, streams[t] # NoStream,
           streams' = [streams EXCEPT ![t] = NoStream], library' = Unloaded(library)
    PROVE  VoicesOK'
<1>1. streams' \in [Voices -> StreamsMade \union {NoStream}]
  BY DEF VoicesOK
<1>2. \A u \in Voices : streams'[u] = IF u = t THEN NoStream ELSE streams[u]
  BY DEF VoicesOK
<1>3. \A u \in Voices : QueueOK(streams'[u])
  BY <1>2, NoStreamIs DEF VoicesOK
<1>4. Opened(streams') = Opened(streams) \ {t} /\ t \in Opened(streams)
  BY <1>2 DEF Opened
<1>5. /\ library.refs \in Int /\ library.loaded \in BOOLEAN
      /\ library = [refs |-> library.refs, loaded |-> library.loaded]
  BY DEF VoicesOK
<1>6. /\ library' = [refs |-> library'.refs, loaded |-> library'.loaded]
      /\ library'.refs = library.refs - 1
      /\ library'.loaded = (library.loaded /\ library.refs # 1)
  BY <1>5 DEF Unloaded
<1>7. ASSUME ~OpenFails
      PROVE  /\ \A u \in Opened(streams') : streams'[u].ready
             /\ library'.refs \in Cardinality(Opened(streams')) .. MaxLibrary
             /\ Opened(streams') # {} => library'.loaded
  <2>1. /\ \A u \in Opened(streams) : streams[u].ready
        /\ library.refs \in Cardinality(Opened(streams)) .. MaxLibrary
        /\ library.loaded
    BY <1>4, <1>7 DEF VoicesOK
  <2>2. \A u \in Opened(streams') : streams'[u].ready
    BY <1>2, <1>4, <2>1 DEF Opened
  <2>3. IsFiniteSet(Opened(streams))
    <3>1. IsFiniteSet(Voices) /\ Opened(streams) \in SUBSET Voices
      BY SoundAssumption DEF SoundAssumption, Opened
    <3> QED BY <3>1, FS_Subset
  <2>4. PICK c \in Nat : c = Cardinality(Opened(streams))
    BY <2>3, FS_CardinalityType
  <2>5. Cardinality(Opened(streams')) = c - 1
    BY <1>4, <2>3, <2>4, FS_RemoveElement
  <2>6. MaxLibrary \in Nat
    BY SoundAssumption DEF SoundAssumption
  <2>7. library.refs \in c .. MaxLibrary
    BY <2>1, <2>4
  <2>8. library.refs - 1 \in c - 1 .. MaxLibrary
    BY <1>5, <2>6, <2>7
  <2>9. ASSUME Opened(streams') # {} PROVE library.refs # 1
    <3>1. IsFiniteSet(Opened(streams'))
      <4>1. IsFiniteSet(Opened(streams) \ {t})
        BY <2>3, FS_RemoveElement
      <4> QED BY <1>4, <4>1
    <3>2. c - 1 # 0
      BY <2>5, <2>9, <3>1, FS_EmptySet
    <3>3. c - 1 \in Nat
      BY <2>5, <3>1, FS_CardinalityType
    <3> QED BY <2>7, <3>2, <3>3
  <2> QED BY <1>6, <2>1, <2>2, <2>5, <2>8, <2>9
<1>8. library'.refs \in Int /\ library'.loaded \in BOOLEAN
  <2>1. library'.refs \in Int
    BY <1>5, <1>6
  <2>2. library'.loaded \in BOOLEAN
    BY <1>6
  <2> QED BY <2>1, <2>2
<1> QED BY <1>1, <1>3, <1>6, <1>7, <1>8 DEF VoicesOK

LEMMA SameCounts ==
    ASSUME CountsOK, UNCHANGED <<created, volume, refs, wish>>
    PROVE  CountsOK'
BY DEF CountsOK

\* CreateSoundStream, with or without a source and a file that opens.
LEMMA CreateSoundStreamKeeps ==
    ASSUME SoundsInv, NEW t \in Voices,
           CreateSoundStream(t)
    PROVE  SoundsInv'
<1>1. /\ created \subseteq Sounds /\ MixOK(mix, created, streams, wish) /\ VoicesOK
      /\ streams \in [Voices -> StreamsMade \union {NoStream}] /\ CountsOK
  BY DEF SoundsInv, CountsOK, VoicesOK
<1>2. /\ streams[t] = NoStream /\ library'.refs \in -MaxLibrary .. MaxLibrary
      /\ UNCHANGED <<created, volume, refs, wish>>
  BY DEF CreateSoundStream
<1>3. CountsOK'
  BY <1>1, <1>2, SameCounts
<1>4. PICK m \in MixAfterCulling(IntMax) :
         \/ /\ m.free # <<>>
            /\ mix' = [m EXCEPT !.free = Taken(m)]
            /\ streams' = [streams EXCEPT ![t] = Initialized(Head(m.free))]
            /\ library' = Loaded(library)
         \/ /\ m.free # <<>> /\ OpenFails
            /\ mix' = m
            /\ library' = Unloaded(Unloaded(Loaded(library)))
            /\ UNCHANGED streams
         \/ m.free = <<>> /\ mix' = m /\ UNCHANGED <<streams, library>>
  BY DEF CreateSoundStream, streamVars
<1>5. MixOK(m, created, streams, wish)
  BY <1>1, Culling
<1>6. CASE /\ m.free # <<>>
           /\ mix' = [m EXCEPT !.free = Taken(m)]
           /\ streams' = [streams EXCEPT ![t] = Initialized(Head(m.free))]
           /\ library' = Loaded(library)
  <2>1. m \in Mixes
    BY <1>5 DEF MixOK
  <2>2. m.free \in Seq(Sources) /\ m.al \in [Sources -> {"silent", "playing", "paused"}]
    BY <2>1, Mixed
  <2>3. PICK i \in Sources : i = Head(m.free)
    BY <1>6, <2>2, PoolTakes
  <2>4. PICK v \in StreamsMade : /\ v = Initialized(i) /\ QueueOK(v) /\ v.ready
                                 /\ v.source = i
    BY InitializedOK
  <2>5. PICK st : st = [streams EXCEPT ![t] = v]
    OBVIOUS
  <2>6. st[t] = v /\ \A u \in Voices \ {t} : st[u] = streams[u]
    BY <1>1, <2>5
  <2>7. ~streams[t].ready
    BY <1>2, NoStreamIs
  <2>8. MixOK(MixOf(m.active, m.source, m.start, m.was, Tail(m.free), m.al), created, st, wish)
    <3>1. \A j \in Sources \ {i} : m.al[j] = m.al[j]
      OBVIOUS
    <3>2. st[t].ready /\ st[t].source = i
      BY <2>4, <2>6
    <3> QED BY <1>5, <1>6, <2>2, <2>3, <2>6, <2>7, <3>1, <3>2, StreamTakes
  <2>9. mix' = MixOf(m.active, m.source, m.start, m.was, Tail(m.free), m.al)
    <3>1. m = MixOf(m.active, m.source, m.start, m.was, m.free, m.al)
      BY <2>1, Mixed
    <3>2. PICK q : q = Tail(m.free)
      OBVIOUS
    <3>3. [m EXCEPT !.free = q] = MixOf(m.active, m.source, m.start, m.was, q, m.al)
      BY ONLY <3>1, FreeSet
    <3> QED BY <1>6, <3>2, <3>3 DEF Taken
  <2>10. MixOK(mix', created', streams', wish')
    BY <1>2, <1>6, <2>3, <2>4, <2>5, <2>8, <2>9
  <2>11. VoicesOK'
    BY <1>1, <1>2, <1>6, <2>3, <2>4, VoiceOpened
  <2> QED BY <1>3, <2>10, <2>11 DEF SoundsInv
<1>7. CASE /\ OpenFails /\ mix' = m /\ UNCHANGED streams
           /\ library' = Unloaded(Unloaded(Loaded(library)))
  <2>1. MixOK(mix', created', streams', wish')
    BY <1>2, <1>5, <1>7
  <2>2. /\ library.refs \in Int /\ library.loaded \in BOOLEAN
    BY <1>1 DEF VoicesOK
  <2>3. PICK l1, l2 : l1 = Loaded(library) /\ l2 = Unloaded(l1)
    OBVIOUS
  <2>4. l1.refs \in Int /\ l1.loaded \in BOOLEAN
    <3>1. l1.refs = library.refs + 1 /\ l1.loaded = TRUE
      BY <2>3 DEF Loaded
    <3>2. l1.refs \in Int
      BY <2>2, <3>1
    <3>3. l1.loaded \in BOOLEAN
      BY <3>1
    <3> QED BY <3>2, <3>3
  <2>5. l2.refs \in Int /\ l2.loaded \in BOOLEAN
    BY <2>3, <2>4 DEF Unloaded
  <2>6. library' = Unloaded(l2)
    BY <1>7, <2>3
  <2>7. /\ library'.refs \in Int /\ library'.loaded \in BOOLEAN
        /\ library' = [refs |-> library'.refs, loaded |-> library'.loaded]
    <3>1. library' = [refs |-> l2.refs - 1, loaded |-> l2.loaded /\ l2.refs # 1]
      BY <2>6 DEF Unloaded
    <3>2. library'.refs = l2.refs - 1 /\ library'.loaded = (l2.loaded /\ l2.refs # 1)
      BY <3>1
    <3>3. library'.refs \in Int
      BY <2>5, <3>2
    <3>4. library'.loaded \in BOOLEAN
      BY <3>2
    <3> QED BY <3>1, <3>2, <3>3, <3>4
  <2>8. VoicesOK'
    BY <1>1, <1>7, <2>7 DEF VoicesOK, QueueOK
  <2> QED BY <1>3, <2>1, <2>8 DEF SoundsInv
<1>8. CASE m.free = <<>> /\ mix' = m /\ UNCHANGED <<streams, library>>
  <2>1. MixOK(mix', created', streams', wish')
    BY <1>2, <1>5, <1>8
  <2> QED BY <1>1, <1>3, <1>8, <2>1, SameVoices DEF SoundsInv
<1> QED BY <1>4, <1>6, <1>7, <1>8

\* DestroySoundStream: the source is given back, if there is one.
LEMMA DestroySoundStreamKeeps ==
    ASSUME SoundsInv, NEW t \in Voices, DestroySoundStream(t)
    PROVE  SoundsInv'
<1>1. /\ MixOK(mix, created, streams, wish) /\ VoicesOK /\ CountsOK
      /\ streams \in [Voices -> StreamsMade \union {NoStream}]
  BY DEF SoundsInv, VoicesOK
<1>2. /\ streams[t] # NoStream
      /\ mix' = IF streams[t].ready THEN Freed(mix, streams[t].source) ELSE mix
      /\ streams' = [streams EXCEPT ![t] = NoStream]
      /\ library' = Unloaded(library)
      /\ UNCHANGED <<created, volume, refs, wish>>
  BY DEF DestroySoundStream
<1>3. CountsOK' /\ VoicesOK'
  BY <1>1, <1>2, SameCounts, VoiceClosed
<1>4. PICK st : st = [streams EXCEPT ![t] = NoStream]
  OBVIOUS
<1>5. ~st[t].ready /\ \A u \in Voices \ {t} : st[u] = streams[u]
  BY <1>1, <1>4, NoStreamIs
<1>6. CASE streams[t].ready
  <2>1. PICK i \in Sources : i = streams[t].source
    BY <1>1, <1>2, StreamMade
  <2>2. MixOK(Freed(mix, i), created, st, wish)
    BY <1>1, <1>5, <1>6, <2>1, StreamGives
  <2>3. MixOK(mix', created', streams', wish')
    BY <1>2, <1>4, <1>6, <2>1, <2>2
  <2> QED BY <1>3, <2>3 DEF SoundsInv
<1>7. CASE ~streams[t].ready
  <2>1. OpenFails
    BY <1>1, <1>2, <1>7 DEF VoicesOK, Opened
  <2>2. MixOK(mix, created, st, wish)
    BY <1>1, <2>1 DEF MixOK
  <2>3. MixOK(mix', created', streams', wish')
    BY <1>2, <1>4, <1>7, <2>2
  <2> QED BY <1>3, <2>3 DEF SoundsInv
<1> QED BY <1>6, <1>7

\* The edits of a stream's record.
WithState(s, x) == [s EXCEPT !.state = x]
WithDone(s, n) == [s EXCEPT !.done = n]

\* The lengths and counts of a stream are numbers.
LEMMA StreamLen ==
    ASSUME NEW s \in StreamsMade
    PROVE  s.queue \in Seq(Nat) /\ Len(s.queue) \in Nat /\ s.done \in Nat
<1>1. PICK q, d : q = s.queue /\ d = s.done
  OBVIOUS
<1>2. q \in Seq(Nat) /\ d \in Nat
  BY <1>1, StreamMade
<1>3. Len(q) \in Nat
  BY ONLY <1>2
<1> QED BY ONLY <1>1, <1>2, <1>3

\* The states of a stream.
States == {"not_started", "play", "pause", "stop"}

\* A stream gets another state.
LEMMA StateSet ==
    ASSUME NEW s \in StreamsMade, QueueOK(s),
           NEW x \in States, NEW v, v = WithState(s, x)
    PROVE  /\ v \in StreamsMade /\ QueueOK(v) /\ v.state = x
           /\ v.ready = s.ready /\ v.source = s.source
<1>1. PICK state, ready, source, dec, que, don :
         /\ state = s.state /\ ready = s.ready /\ source = s.source
         /\ dec = s.decoded /\ que = s.queue /\ don = s.done
  OBVIOUS
<1>2. s = StreamOf(state, ready, source, dec, que, don)
  BY <1>1, StreamMade
<1>3. v = StreamOf(x, ready, source, dec, que, don)
  BY <1>2 DEF StreamOf, WithState
<1>4. /\ v.state = x /\ v.ready = ready /\ v.source = source
      /\ v.decoded = dec /\ v.queue = que /\ v.done = don
  BY ONLY <1>3 DEF StreamOf
<1>5. /\ source \in Sources /\ dec \in 0 .. Chunks /\ que \in Seq(Nat) /\ don \in Nat
  BY <1>1, StreamMade
<1>6. ready \in BOOLEAN
  BY <1>1, StreamMade
<1>7. v \in StreamsMade
  BY ONLY <1>3, <1>5, <1>6 DEF StreamsMade, StreamOf, States
<1>8. QueueOK(v)
  BY <1>1, <1>4 DEF QueueOK
<1> QED BY <1>1, <1>4, <1>7, <1>8

\* A stream has played other buffers of its queue.
LEMMA DoneSet ==
    ASSUME NEW s \in StreamsMade, QueueOK(s), NEW n \in Nat, s.ready => n <= Len(s.queue),
           NEW v, v = WithDone(s, n)
    PROVE  /\ v \in StreamsMade /\ QueueOK(v) /\ v.state = s.state
           /\ v.ready = s.ready /\ v.source = s.source
<1>1. PICK state, ready, source, dec, que, don :
         /\ state = s.state /\ ready = s.ready /\ source = s.source
         /\ dec = s.decoded /\ que = s.queue /\ don = s.done
  OBVIOUS
<1>2. s = StreamOf(state, ready, source, dec, que, don)
  BY <1>1, StreamMade
<1>3. v = StreamOf(state, ready, source, dec, que, n)
  BY <1>2 DEF StreamOf, WithDone
<1>4. /\ v.state = state /\ v.ready = ready /\ v.source = source
      /\ v.decoded = dec /\ v.queue = que /\ v.done = n
  BY <1>3 DEF StreamOf
<1>5. /\ source \in Sources /\ dec \in 0 .. Chunks /\ que \in Seq(Nat)
      /\ state \in {"not_started", "play", "pause", "stop"}
  BY <1>1, StreamMade
<1>6. ready \in BOOLEAN
  BY <1>1, StreamMade
<1>7. v \in StreamsMade
  BY ONLY <1>3, <1>5, <1>6 DEF StreamsMade, StreamOf
<1>8. QueueOK(v)
  BY <1>1, <1>4 DEF QueueOK
<1> QED BY <1>1, <1>4, <1>7, <1>8

LEMMA SourceSet ==
    ASSUME NEW state, NEW ready, NEW source, NEW decoded, NEW queue, NEW done, NEW s,
           s = StreamOf(state, ready, source, decoded, queue, done), NEW x
    PROVE  [s EXCEPT !.source = x] = StreamOf(state, ready, x, decoded, queue, done)
BY DEF StreamOf

\* A stream whose InitStream has failed.
LEMMA FailedOK ==
    ASSUME NEW s \in StreamsMade
    PROVE  /\ Failed(s) \in StreamsMade /\ QueueOK(Failed(s)) /\ ~Failed(s).ready
<1>1. PICK i, x, e, z, q :
         i = s.source /\ x = "not_started" /\ e = FALSE /\ z = 0 /\ q = <<>>
  OBVIOUS
<1>2. PICK n1 : n1 = [NoStream EXCEPT !.state = x]
  OBVIOUS
<1>3. n1 = StreamOf(x, e, z, z, q, z)
  BY ONLY <1>1, <1>2 DEF NoStream, StreamOf
<1>4. PICK v : v = StreamOf(x, e, i, z, q, z)
  OBVIOUS
<1>5. [n1 EXCEPT !.source = i] = v
  BY ONLY <1>3, <1>4, SourceSet
<1>6. Failed(s) = v
  BY <1>1, <1>2, <1>5 DEF Failed
<1>7. v.ready = e
  BY <1>4 DEF StreamOf
<1>8. v \in StreamsMade
  <2>1. z \in 0 .. Chunks /\ z \in Nat /\ q \in Seq(Nat)
    <3>1. 0 \in 0 .. Chunks /\ 0 \in Nat
      BY VorbisAssumption DEF VorbisAssumption
    <3>2. <<>> \in Seq(Nat)
      OBVIOUS
    <3> QED BY ONLY <1>1, <3>1, <3>2
  <2>2. i \in Sources
    BY <1>1, StreamMade
  <2>3. x \in {"not_started", "play", "pause", "stop"} /\ e \in BOOLEAN
    BY <1>1
  <2> QED BY <1>4, <2>1, <2>2, <2>3 DEF StreamsMade, StreamOf
<1> QED BY <1>1, <1>6, <1>7, <1>8 DEF QueueOK

\* What is known of a stream that is not NoStream.
LEMMA OpenVoice ==
    ASSUME VoicesOK, NEW t \in Voices, streams[t] # NoStream
    PROVE  /\ streams[t] \in StreamsMade /\ QueueOK(streams[t])
           /\ ~OpenFails => streams[t].ready
BY DEF VoicesOK, Opened

\* A step that edits an open stream and sets the state of its source.
LEMMA Edits ==
    ASSUME SoundsInv, NEW t \in Voices, streams[t] # NoStream,
           NEW v \in StreamsMade, QueueOK(v), v.ready = streams[t].ready,
           v.source = streams[t].source, streams' = [streams EXCEPT ![t] = v],
           NEW x \in {"silent", "playing", "paused"},
           mix' = mix \/ mix' = [mix EXCEPT !.al[streams[t].source] = x],
           UNCHANGED <<created, volume, library, refs, wish>>
    PROVE  SoundsInv'
<1>1. /\ MixOK(mix, created, streams, wish) /\ VoicesOK /\ CountsOK
      /\ streams \in [Voices -> StreamsMade \union {NoStream}]
  BY DEF SoundsInv, VoicesOK
<1>2. CountsOK'
  BY <1>1, SameCounts
<1>3. ~OpenFails => v.ready
  BY <1>1, OpenVoice
<1>4. VoicesOK'
  BY <1>1, <1>3, VoiceSet
<1>5. PICK st : st = [streams EXCEPT ![t] = v]
  OBVIOUS
<1>6. \A u \in Voices : /\ st[u].ready = streams[u].ready
                        /\ streams[u].ready => st[u].source = streams[u].source
  BY <1>1, <1>5
<1>7. MixOK(mix, created, st, wish)
  BY <1>1, <1>6 DEF MixOK, Alone
<1>8. PICK i \in Sources : i = streams[t].source
  BY <1>1, OpenVoice, StreamMade
<1>9. ~OpenFails => streams[t].ready
  BY <1>1, OpenVoice
<1>10. MixOK(Heard(mix, i, x), created, st, wish)
  BY <1>1, <1>6, <1>8, <1>9, StreamHeard
<1>11. MixOK(mix', created', streams', wish')
  BY <1>5, <1>7, <1>8, <1>10 DEF Heard
<1> QED BY <1>2, <1>4, <1>11 DEF SoundsInv

\* VorbisStream::Play, and with it alSourcePlay.
LEMMA PlayStreamKeeps ==
    ASSUME SoundsInv, NEW t \in Voices, PlayStream(t)
    PROVE  SoundsInv'
<1> DEFINE s == streams[t]
<1>1. /\ s.state \in {"not_started", "pause"}
      /\ mix' = [mix EXCEPT !.al[s.source] = "playing"]
      /\ streams' = [streams EXCEPT ![t] =
                       [Replayed(s, mix.al[s.source]) EXCEPT !.state = "play"]]
      /\ UNCHANGED <<created, volume, library, refs, wish>>
  <2>1. streams \in [Voices -> StreamsMade \union {NoStream}]
    BY DEF SoundsInv, VoicesOK
  <2> QED BY <2>1 DEF PlayStream
<1>2. s # NoStream
  BY <1>1, NoStreamIs
<1>3. s \in StreamsMade /\ QueueOK(s)
  BY <1>2, OpenVoice DEF SoundsInv
<1> HIDE DEF s
<1>4. PICK r : r = Replayed(s, mix.al[s.source])
  OBVIOUS
<1>5. r \in StreamsMade /\ QueueOK(r) /\ r.ready = s.ready /\ r.source = s.source
  <2>1. r = s \/ r = WithDone(s, 0)
    BY <1>4 DEF Replayed, WithDone
  <2>2. 0 \in Nat /\ 0 <= Len(s.queue)
    BY <1>3, StreamLen
  <2> QED BY <1>3, <2>1, <2>2, DoneSet
<1>6. PICK v : v = WithState(r, "play")
  OBVIOUS
<1>7. v \in StreamsMade /\ QueueOK(v) /\ v.ready = s.ready /\ v.source = s.source
  <2>1. PICK x \in States : x = "play"
    BY DEF States
  <2>2. v = WithState(r, x)
    BY <1>6, <2>1
  <2>3. v \in StreamsMade /\ QueueOK(v) /\ v.ready = r.ready /\ v.source = r.source
    BY ONLY <1>5, <2>2, StateSet
  <2> QED BY <1>5, <2>3
<1>8. streams' = [streams EXCEPT ![t] = v]
  BY <1>1, <1>4, <1>6 DEF WithState
<1> QED BY <1>1, <1>2, <1>7, <1>8, Edits DEF s

\* VorbisStream::Pause.
LEMMA PauseStreamKeeps ==
    ASSUME SoundsInv, NEW t \in Voices, PauseStream(t)
    PROVE  SoundsInv'
<1> DEFINE s == streams[t]
<1>0. streams \in [Voices -> StreamsMade \union {NoStream}] /\ mix \in Mixes
  BY DEF SoundsInv, VoicesOK, MixOK
<1>1. /\ s.state = "play"
      /\ mix' = [mix EXCEPT !.al[s.source] = IF @ = "playing" THEN "paused" ELSE @]
      /\ streams' = [streams EXCEPT ![t].state = "pause"]
      /\ UNCHANGED <<created, volume, library, refs, wish>>
  BY DEF PauseStream
<1>2. s # NoStream
  BY <1>1, NoStreamIs
<1>3. s \in StreamsMade /\ QueueOK(s)
  BY <1>2, OpenVoice DEF SoundsInv
<1> HIDE DEF s
<1>4. PICK v : v = WithState(s, "pause")
  OBVIOUS
<1>5. v \in StreamsMade /\ QueueOK(v) /\ v.ready = s.ready /\ v.source = s.source
  <2>1. PICK y \in States : y = "pause"
    BY DEF States
  <2>2. v = WithState(s, y)
    BY <1>4, <2>1
  <2>3. v \in StreamsMade /\ QueueOK(v) /\ v.ready = s.ready /\ v.source = s.source
    BY ONLY <1>3, <2>2, StateSet
  <2> QED BY <2>3
<1>6. streams' = [streams EXCEPT ![t] = v]
  BY <1>1, <1>4 DEF WithState, s
<1>7. PICK x : x = IF mix.al[s.source] = "playing" THEN "paused" ELSE mix.al[s.source]
  OBVIOUS
<1>8. x \in {"silent", "playing", "paused"}
  <2>1. mix.al \in [Sources -> {"silent", "playing", "paused"}]
    BY <1>0, Mixed
  <2>2. s.source \in Sources
    BY <1>3, StreamMade
  <2> QED BY <1>7, <2>1, <2>2
<1>9. mix' = [mix EXCEPT !.al[s.source] = x]
  BY <1>1, <1>7
<1> QED BY <1>1, <1>2, <1>5, <1>6, <1>8, <1>9, Edits DEF s

\* VorbisStream::Stop.
LEMMA StopStreamKeeps ==
    ASSUME SoundsInv, NEW t \in Voices, StopStream(t)
    PROVE  SoundsInv'
<1> DEFINE s == streams[t]
<1>1. /\ s.state \in {"not_started", "play", "pause"}
      /\ mix' = [mix EXCEPT !.al[s.source] = "silent"]
      /\ streams' = [streams EXCEPT ![t] = Halted(s)]
      /\ UNCHANGED <<created, volume, library, refs, wish>>
  <2>1. streams \in [Voices -> StreamsMade \union {NoStream}]
    BY DEF SoundsInv, VoicesOK
  <2> QED BY <2>1 DEF StopStream
<1>2. s # NoStream
  BY <1>1, NoStreamIs
<1>3. s \in StreamsMade /\ QueueOK(s)
  BY <1>2, OpenVoice DEF SoundsInv
<1> HIDE DEF s
<1>4. PICK r : r = WithState(s, "stop")
  OBVIOUS
<1>5. /\ r \in StreamsMade /\ QueueOK(r) /\ r.ready = s.ready /\ r.source = s.source
      /\ r.queue = s.queue
  <2>1. r.queue = s.queue
    BY <1>3, <1>4 DEF StreamsMade, WithState
  <2>2. PICK x \in States : x = "stop"
    BY DEF States
  <2>3. r = WithState(s, x)
    BY <1>4, <2>2
  <2>4. r \in StreamsMade /\ QueueOK(r) /\ r.ready = s.ready /\ r.source = s.source
    BY ONLY <1>3, <2>3, StateSet
  <2> QED BY <2>1, <2>4
<1>6. PICK v : v = WithDone(r, Len(s.queue))
  OBVIOUS
<1>7. v \in StreamsMade /\ QueueOK(v) /\ v.ready = s.ready /\ v.source = s.source
  <2>1. Len(s.queue) \in Nat
    BY <1>3, StreamLen
  <2>2. r.ready => Len(s.queue) <= Len(r.queue)
    BY <1>5, <2>1
  <2> QED BY <1>5, <1>6, <2>1, <2>2, DoneSet
<1>8. Halted(s) = v
  BY <1>4, <1>6 DEF Halted, WithState, WithDone
<1>9. streams' = [streams EXCEPT ![t] = v]
  BY <1>1, <1>8
<1> QED BY <1>1, <1>2, <1>7, <1>9, Edits DEF s

\* OpenAL comes to the end of a buffer.
LEMMA PlaysKeeps ==
    ASSUME SoundsInv, NEW t \in Voices, Plays(t)
    PROVE  SoundsInv'
<1> DEFINE s == streams[t]
<1>1. /\ s.ready /\ s.done < Len(s.queue)
      /\ streams' = [streams EXCEPT ![t].done = @ + 1]
      /\ mix' = mix \/ mix' = [mix EXCEPT !.al[s.source] = "silent"]
      /\ UNCHANGED <<created, volume, library, refs, wish>>
  BY DEF Plays
<1>2. s # NoStream
  BY <1>1, NoStreamIs
<1>3. s \in StreamsMade /\ QueueOK(s)
  BY <1>2, OpenVoice DEF SoundsInv
<1>4. PICK n : n = s.done + 1
  OBVIOUS
<1>5. n \in Nat /\ n <= Len(s.queue)
  <2>1. s.done \in Nat /\ Len(s.queue) \in Nat
    BY <1>3, StreamLen
  <2> QED BY <1>1, <1>4, <2>1
<1>6. PICK v : v = WithDone(s, n)
  OBVIOUS
<1>7. v \in StreamsMade /\ QueueOK(v) /\ v.ready = s.ready /\ v.source = s.source
  BY <1>3, <1>5, <1>6, DoneSet
<1>8. streams' = [streams EXCEPT ![t] = v]
  BY <1>1, <1>4, <1>6 DEF WithDone
<1> QED BY <1>1, <1>2, <1>7, <1>8, Edits

\* A stream that has stopped gives its source back and takes the one on top.
LEMMA ReplayStreamKeeps ==
    ASSUME SoundsInv, NEW t \in Voices,
           ReplayStream(t)
    PROVE  SoundsInv'
<1> DEFINE s == streams[t]
<1>1. /\ MixOK(mix, created, streams, wish) /\ VoicesOK /\ CountsOK
      /\ streams \in [Voices -> StreamsMade \union {NoStream}]
  BY DEF SoundsInv, VoicesOK
<1>2. PICK m : m = IF s.ready THEN Freed(mix, s.source) ELSE mix
  OBVIOUS
<1>3. /\ s.state = "stop" /\ library.refs < MaxLibrary
      /\ UNCHANGED <<created, volume, refs, wish>>
      /\ \/ /\ m.free # <<>>
            /\ mix' = [m EXCEPT !.free = Taken(m), !.al[Head(m.free)] = "playing"]
            /\ streams' = [streams EXCEPT ![t] =
                             [Initialized(Head(m.free)) EXCEPT !.state = "play"]]
            /\ library' = Loaded(library)
         \/ /\ OpenFails \/ m.free = <<>>
            /\ mix' = m
            /\ streams' = [streams EXCEPT ![t] = Failed(s)]
            /\ UNCHANGED library
  BY <1>2 DEF ReplayStream
<1>4. s # NoStream
  BY <1>3, NoStreamIs
<1>5. s \in StreamsMade /\ (~OpenFails => s.ready)
  BY <1>1, <1>4, OpenVoice
<1>6. CountsOK'
  BY <1>1, <1>3, SameCounts
<1>7. library.refs + 1 <= MaxLibrary
  BY <1>1, <1>3, SoundAssumption DEF VoicesOK, SoundAssumption
<1>8. PICK st : st = [streams EXCEPT ![t] = NoStream]
  OBVIOUS
<1>9. ~st[t].ready /\ \A u \in Voices \ {t} : st[u] = streams[u]
  BY <1>1, <1>8, NoStreamIs
<1>10. MixOK(m, created, st, wish) /\ (~OpenFails => m.free # <<>>)
  <2>1. CASE s.ready
    <3>1. PICK i \in Sources : i = s.source
      BY <1>5, StreamMade
    <3>2. MixOK(Freed(mix, i), created, st, wish) /\ Freed(mix, i).free # <<>>
      BY <1>1, <1>9, <2>1, <3>1, StreamGives
    <3> QED BY <1>2, <2>1, <3>1, <3>2
  <2>2. CASE ~s.ready
    <3>1. OpenFails /\ m = mix
      BY <1>2, <1>5, <2>2
    <3> QED BY <1>1, <3>1 DEF MixOK
  <2> QED BY <2>1, <2>2
<1> HIDE DEF s
<1>11. CASE /\ m.free # <<>>
            /\ mix' = [m EXCEPT !.free = Taken(m), !.al[Head(m.free)] = "playing"]
            /\ streams' = [streams EXCEPT ![t] =
                             [Initialized(Head(m.free)) EXCEPT !.state = "play"]]
            /\ library' = Loaded(library)
  <2>1. m \in Mixes
    BY <1>10 DEF MixOK
  <2>2. m.free \in Seq(Sources) /\ m.al \in [Sources -> {"silent", "playing", "paused"}]
    BY <2>1, Mixed
  <2>3. PICK i \in Sources : i = Head(m.free)
    BY <1>11, <2>2, PoolTakes
  <2>4. PICK v0, v : v0 = Initialized(i) /\ v = WithState(v0, "play")
    OBVIOUS
  <2>5. v0 \in StreamsMade /\ QueueOK(v0) /\ v0.ready /\ v0.source = i
    BY <2>4, InitializedOK
  <2>6. v \in StreamsMade /\ QueueOK(v) /\ v.ready /\ v.source = i
    <3>1. PICK x \in States : x = "play"
      BY DEF States
    <3>2. v = WithState(v0, x)
      BY <2>4, <3>1
    <3>3. v \in StreamsMade /\ QueueOK(v) /\ v.ready = v0.ready /\ v.source = v0.source
      BY ONLY <2>5, <3>2, StateSet
    <3> QED BY <2>5, <3>3
  <2>7. streams' = [streams EXCEPT ![t] = v]
    BY <1>11, <2>3, <2>4 DEF WithState
  <2>8. PICK st1 : st1 = [streams EXCEPT ![t] = v]
    OBVIOUS
  <2>9. st1[t] = v /\ \A u \in Voices \ {t} : st1[u] = st[u]
    BY <1>1, <1>9, <2>8
  <2>10. PICK al : al = [m.al EXCEPT ![i] = "playing"]
    OBVIOUS
  <2>11. /\ al \in [Sources -> {"silent", "playing", "paused"}]
         /\ \A j \in Sources \ {i} : al[j] = m.al[j]
    BY <2>2, <2>10
  <2>12. MixOK(MixOf(m.active, m.source, m.start, m.was, Tail(m.free), al), created, st1, wish)
    <3>1. st1[t].ready /\ st1[t].source = i
      BY <2>6, <2>9
    <3> QED BY <1>9, <1>10, <1>11, <2>3, <2>9, <2>11, <3>1, StreamTakes
  <2>13. mix' = MixOf(m.active, m.source, m.start, m.was, Tail(m.free), al)
    <3>1. m = MixOf(m.active, m.source, m.start, m.was, m.free, m.al)
      BY <2>1, Mixed
    <3>2. PICK q : q = Tail(m.free)
      OBVIOUS
    <3>3. PICK n : n = [m EXCEPT !.free = q]
      OBVIOUS
    <3>4. n = MixOf(m.active, m.source, m.start, m.was, q, m.al)
      BY ONLY <3>1, <3>3, FreeSet
    <3>5. /\ n.active = m.active /\ n.source = m.source /\ n.start = m.start
          /\ n.was = m.was /\ n.free = q /\ n.al = m.al
      BY ONLY <3>4 DEF MixOf
    <3>6. n = MixOf(n.active, n.source, n.start, n.was, n.free, n.al)
      BY ONLY <3>4, <3>5
    <3>7. PICK x : x = "playing"
      OBVIOUS
    <3>8. al = [n.al EXCEPT ![i] = x]
      BY <2>10, <3>5, <3>7
    <3>9. [n EXCEPT !.al[i] = x] = MixOf(n.active, n.source, n.start, n.was, n.free, al)
      BY ONLY <3>6, <3>8, AlSet
    <3>10. mix' = [n EXCEPT !.al[i] = x]
      BY <1>11, <2>3, <3>2, <3>3, <3>7 DEF Taken
    <3> QED BY <3>2, <3>5, <3>9, <3>10
  <2>14. MixOK(mix', created', streams', wish')
    BY <1>3, <2>7, <2>8, <2>12, <2>13
  <2>15. VoicesOK'
    BY <1>1, <1>4, <1>7, <1>11, <2>6, <2>7, VoiceSet DEF s
  <2> QED BY <1>6, <2>14, <2>15 DEF SoundsInv
<1>12. CASE /\ OpenFails \/ m.free = <<>>
            /\ mix' = m
            /\ streams' = [streams EXCEPT ![t] = Failed(s)]
            /\ UNCHANGED library
  <2>1. OpenFails
    BY <1>10, <1>12
  <2>2. PICK v \in StreamsMade : v = Failed(s) /\ QueueOK(v)
    BY <1>5, FailedOK
  <2>3. VoicesOK'
    BY <1>1, <1>4, <1>12, <2>1, <2>2, VoiceSet DEF s
  <2>4. MixOK(mix', created', streams', wish')
    BY <1>3, <1>10, <1>12, <2>1 DEF MixOK
  <2> QED BY <1>6, <2>3, <2>4 DEF SoundsInv
<1> QED BY <1>3, <1>11, <1>12

-----------------------------------------------------------------------------
(* Sounds are played, silenced and come to their end.                      *)

Begun(f, s) == mix.active[s] /\ f[s]

\* What the commands of the game and the end of a sound have in common: they
\* leave the holders, and set the state of one sound and of its source.
LEMMA Commands ==
    ASSUME SoundsInv, NEW s \in Sounds,
           NEW f \in [Sounds -> BOOLEAN], NEW g \in [Sounds -> BOOLEAN],
           NEW al \in [Sources -> {"silent", "playing", "paused"}],
           mix' = MixOf(mix.active, mix.source, f, g, mix.free, al),
           \A u \in Sounds \ {s} : f[u] = mix.start[u] /\ g[u] = mix.was[u],
           \A j \in Sources : al[j] # "playing" =>
              mix.al[j] # "playing" \/ (mix.active[s] /\ j = mix.source[s]),
           \A j \in Sources : al[j] = "playing" => mix.al[j] = "playing",
           wish' \in [Sounds -> {"play", "stop", "pause"}],
           \A u \in Sounds \ {s} : wish'[u] = wish[u],
           s \in Loops /\ wish'[s] = "play" => Begun(f, s),
           UNCHANGED <<created, volume, refs>>, UNCHANGED <<streams, library>>
    PROVE  SoundsInv'
<1>1. /\ MixOK(mix, created, streams, wish) /\ VoicesOK /\ CountsOK
      /\ wish \in [Sounds -> {"play", "stop", "pause"}] /\ mix \in Mixes
  BY DEF SoundsInv, CountsOK, MixOK
<1>2. CountsOK'
  BY <1>1 DEF CountsOK
<1>3. VoicesOK'
  BY <1>1, SameVoices
<1>4. PICK w : w = wish'
  OBVIOUS
<1>5. ASSUME ~OpenFails
      PROVE  /\ \A j \in Pool(mix.free) : al[j] # "playing"
             /\ Remembered(MixOf(mix.active, mix.source, f, g, mix.free, al), w)
  <2>1. Alone(mix, streams) /\ Remembered(mix, wish)
    BY <1>1, <1>5 DEF MixOK
  <2>2. PICK r : r = MixOf(mix.active, mix.source, f, g, mix.free, al)
    OBVIOUS
  <2>3. /\ r.active = mix.active /\ r.source = mix.source /\ r.start = f
        /\ r.was = g /\ r.al = al
    BY ONLY <2>2 DEF MixOf
  <2>4. ASSUME NEW u \in Loops, w[u] = "play"
        PROVE  IF r.active[u]
               THEN r.start[u] \/ r.al[r.source[u]] = "playing" ELSE r.was[u]
    <3>1. CASE u = s
      BY <1>4, <2>3, <2>4, <3>1 DEF Begun
    <3>2. CASE u # s
      <4>1. u \in Sounds /\ wish[u] = "play"
        BY <1>4, <2>4, <3>2, LoopsAreSounds
      <4>2. IF mix.active[u]
            THEN mix.start[u] \/ mix.al[mix.source[u]] = "playing" ELSE mix.was[u]
        BY <2>1, <2>4, <4>1 DEF Remembered
      <4>3. f[u] = mix.start[u] /\ g[u] = mix.was[u]
        BY <3>2, <4>1
      <4>4. CASE mix.active[u]
        <5>1. mix.source[u] \in Sources /\ (mix.active[s] => mix.source[u] # mix.source[s])
          BY <1>1, <2>1, <3>2, <4>1, <4>4 DEF MixOK, Alone
        <5>2. mix.al[mix.source[u]] = "playing" => al[mix.source[u]] = "playing"
          BY <5>1
        <5> QED BY <2>3, <4>2, <4>3, <4>4, <5>2
      <4>5. CASE ~mix.active[u]
        BY <2>3, <4>2, <4>3, <4>5
      <4> QED BY <4>4, <4>5
    <3> QED BY <3>1, <3>2
  <2>5. Remembered(r, w)
    BY <2>4 DEF Remembered
  <2>6. \A j \in Pool(mix.free) : al[j] # "playing"
    <3>1. mix.free \in Seq(Sources)
      BY <1>1, Mixed
    <3>2. Pool(mix.free) \subseteq Sources
      BY <3>1 DEF Pool
    <3> QED BY <2>1, <3>2 DEF Alone
  <2> QED BY <2>2, <2>5, <2>6
<1>6. MixOK(MixOf(mix.active, mix.source, f, g, mix.free, al), created, streams, w)
  BY <1>1, <1>5, Retuned
<1>7. MixOK(mix', created', streams', wish')
  BY <1>4, <1>6
<1> QED BY <1>2, <1>3, <1>7 DEF SoundsInv

\* _startPlaying is set.
LEMMA StartSet ==
    ASSUME NEW m, m = MixOf(m.active, m.source, m.start, m.was, m.free, m.al),
           NEW s, NEW x, NEW f, f = [m.start EXCEPT ![s] = x]
    PROVE  [m EXCEPT !.start[s] = x] = MixOf(m.active, m.source, f, m.was, m.free, m.al)
<1>1. PICK active, source, start, was, free, b :
         /\ active = m.active /\ source = m.source /\ start = m.start
         /\ was = m.was /\ free = m.free /\ b = m.al
  OBVIOUS
<1>2. m = MixOf(active, source, start, was, free, b)
  BY <1>1
<1>3. [m EXCEPT !.start[s] = x] = MixOf(active, source, [start EXCEPT ![s] = x], was, free, b)
  BY ONLY <1>2 DEF MixOf
<1> QED BY <1>1, <1>3

\* _wasPlaying is set.
LEMMA WasSet ==
    ASSUME NEW m, m = MixOf(m.active, m.source, m.start, m.was, m.free, m.al),
           NEW s, NEW x, NEW f, f = [m.was EXCEPT ![s] = x]
    PROVE  [m EXCEPT !.was[s] = x] = MixOf(m.active, m.source, m.start, f, m.free, m.al)
<1>1. PICK active, source, start, was, free, b :
         /\ active = m.active /\ source = m.source /\ start = m.start
         /\ was = m.was /\ free = m.free /\ b = m.al
  OBVIOUS
<1>2. m = MixOf(active, source, start, was, free, b)
  BY <1>1
<1>3. [m EXCEPT !.was[s] = x] = MixOf(active, source, start, [was EXCEPT ![s] = x], free, b)
  BY ONLY <1>2 DEF MixOf
<1> QED BY <1>1, <1>3

\* OpenALSound::Play.
LEMMA PlayKeeps ==
    ASSUME SoundsInv, NEW s \in Sounds, Play(s)
    PROVE  SoundsInv'
<1>1. mix \in Mixes /\ wish \in [Sounds -> {"play", "stop", "pause"}]
  BY DEF SoundsInv, CountsOK, MixOK
<1>2. /\ mix.active[s] /\ mix' = [mix EXCEPT !.start[s] = TRUE]
      /\ wish' = [wish EXCEPT ![s] = "play"]
      /\ UNCHANGED <<created, volume, refs>> /\ UNCHANGED <<streams, library>>
  BY DEF Play, streamVars
<1>3. PICK e, f, m : e = TRUE /\ f = [mix.start EXCEPT ![s] = e] /\ m = mix
  OBVIOUS
<1>4. mix' = MixOf(mix.active, mix.source, f, mix.was, mix.free, mix.al)
  <2>1. m = MixOf(m.active, m.source, m.start, m.was, m.free, m.al)
    BY <1>1, <1>3, Mixed
  <2>2. f = [m.start EXCEPT ![s] = e]
    BY <1>3
  <2>3. [m EXCEPT !.start[s] = e] = MixOf(m.active, m.source, f, m.was, m.free, m.al)
    BY ONLY <2>1, <2>2, StartSet
  <2> QED BY <1>2, <1>3, <2>3
<1>5. /\ mix.start \in [Sounds -> BOOLEAN] /\ mix.was \in [Sounds -> BOOLEAN]
      /\ mix.al \in [Sources -> {"silent", "playing", "paused"}]
  BY <1>1, Mixed
<1>6. f \in [Sounds -> BOOLEAN] /\ f[s] /\ \A u \in Sounds \ {s} : f[u] = mix.start[u]
  BY <1>3, <1>5
<1>7. /\ wish' \in [Sounds -> {"play", "stop", "pause"}]
      /\ \A u \in Sounds \ {s} : wish'[u] = wish[u]
  BY <1>1, <1>2
<1>8. Begun(f, s)
  BY <1>2, <1>6 DEF Begun
<1>9. PICK g, al : g = mix.was /\ al = mix.al
  OBVIOUS
<1>10. /\ f \in [Sounds -> BOOLEAN] /\ g \in [Sounds -> BOOLEAN]
       /\ al \in [Sources -> {"silent", "playing", "paused"}]
       /\ mix' = MixOf(mix.active, mix.source, f, g, mix.free, al)
       /\ \A u \in Sounds \ {s} : f[u] = mix.start[u] /\ g[u] = mix.was[u]
  BY <1>4, <1>5, <1>6, <1>9
<1>11. /\ \A j \in Sources : al[j] # "playing" =>
             mix.al[j] # "playing" \/ (mix.active[s] /\ j = mix.source[s])
       /\ \A j \in Sources : al[j] = "playing" => mix.al[j] = "playing"
  BY <1>9
<1>12. UNCHANGED <<created, volume, refs>> /\ UNCHANGED <<streams, library>>
  BY <1>2
<1> QED BY <1>7, <1>8, <1>10, <1>11, <1>12, Commands

\* OpenALSound::Stop and Pause.
LEMMA SilenceKeeps ==
    ASSUME SoundsInv, NEW s \in Sounds, NEW x \in {"silent", "paused"},
           NEW command \in {"stop", "pause"}, Silence(s, x, command)
    PROVE  SoundsInv'
<1>1. /\ mix \in Mixes /\ wish \in [Sounds -> {"play", "stop", "pause"}]
      /\ mix.active[s] => mix.source[s] \in Sources
  BY DEF SoundsInv, CountsOK, MixOK
<1>2. PICK i, e, g, m, n : /\ i = mix.source[s] /\ e = FALSE /\ m = mix
                           /\ g = [mix.was EXCEPT ![s] = e]
                           /\ n = [m EXCEPT !.was[s] = e]
  OBVIOUS
<1>3. /\ mix' = IF mix.active[s] /\ mix.al[i] = "playing" THEN [n EXCEPT !.al[i] = x] ELSE n
      /\ wish' = [wish EXCEPT ![s] = command]
      /\ UNCHANGED <<created, volume, refs>> /\ UNCHANGED <<streams, library>>
  BY <1>2 DEF Silence, streamVars
<1>4. n = MixOf(mix.active, mix.source, mix.start, g, mix.free, mix.al)
  <2>1. m = MixOf(m.active, m.source, m.start, m.was, m.free, m.al)
    BY <1>1, <1>2, Mixed
  <2>2. g = [m.was EXCEPT ![s] = e]
    BY <1>2
  <2>3. [m EXCEPT !.was[s] = e] = MixOf(m.active, m.source, m.start, g, m.free, m.al)
    BY ONLY <2>1, <2>2, WasSet
  <2> QED BY <1>2, <2>3
<1>5. /\ mix.start \in [Sounds -> BOOLEAN] /\ mix.was \in [Sounds -> BOOLEAN]
      /\ mix.al \in [Sources -> {"silent", "playing", "paused"}]
  BY <1>1, Mixed
<1>6. g \in [Sounds -> BOOLEAN] /\ \A u \in Sounds \ {s} : g[u] = mix.was[u]
  <2>1. e \in BOOLEAN
    BY <1>2
  <2> QED BY <1>2, <1>5, <2>1
<1>7. /\ wish' \in [Sounds -> {"play", "stop", "pause"}] /\ wish'[s] # "play"
      /\ \A u \in Sounds \ {s} : wish'[u] = wish[u]
  BY <1>1, <1>3
<1>8. CASE mix' = n
  <2>1. PICK f, al : f = mix.start /\ al = mix.al
    OBVIOUS
  <2>2. /\ f \in [Sounds -> BOOLEAN]
        /\ al \in [Sources -> {"silent", "playing", "paused"}]
        /\ mix' = MixOf(mix.active, mix.source, f, g, mix.free, al)
        /\ \A u \in Sounds \ {s} : f[u] = mix.start[u] /\ g[u] = mix.was[u]
    BY <1>4, <1>5, <1>6, <1>8, <2>1
  <2>3. /\ \A j \in Sources : al[j] # "playing" =>
              mix.al[j] # "playing" \/ (mix.active[s] /\ j = mix.source[s])
        /\ \A j \in Sources : al[j] = "playing" => mix.al[j] = "playing"
    BY <2>1
  <2> QED BY <1>3, <1>6, <1>7, <2>2, <2>3, Commands
<1>9. CASE mix.active[s] /\ mix' = [n EXCEPT !.al[i] = x]
  <2>1. PICK al : al = [mix.al EXCEPT ![i] = x]
    OBVIOUS
  <2>2. /\ n.active = mix.active /\ n.source = mix.source /\ n.start = mix.start
        /\ n.was = g /\ n.free = mix.free /\ n.al = mix.al
    BY ONLY <1>4 DEF MixOf
  <2>3. n = MixOf(n.active, n.source, n.start, n.was, n.free, n.al)
    BY <1>4, <2>2
  <2>4. al = [n.al EXCEPT ![i] = x]
    BY <2>1, <2>2
  <2>5. [n EXCEPT !.al[i] = x] = MixOf(n.active, n.source, n.start, n.was, n.free, al)
    BY ONLY <2>3, <2>4, AlSet
  <2>6. mix' = MixOf(mix.active, mix.source, mix.start, g, mix.free, al)
    BY <1>9, <2>2, <2>5
  <2>7. /\ al \in [Sources -> {"silent", "playing", "paused"}]
        /\ \A j \in Sources : al[j] # "playing" => mix.al[j] # "playing" \/ j = i
        /\ \A j \in Sources : al[j] = "playing" => mix.al[j] = "playing"
    BY <1>5, <2>1
  <2>8. \A j \in Sources : al[j] # "playing" =>
           mix.al[j] # "playing" \/ (mix.active[s] /\ j = mix.source[s])
    BY <1>2, <1>9, <2>7
  <2>9. PICK f : f = mix.start
    OBVIOUS
  <2>10. /\ f \in [Sounds -> BOOLEAN]
         /\ mix' = MixOf(mix.active, mix.source, f, g, mix.free, al)
         /\ \A u \in Sounds \ {s} : f[u] = mix.start[u] /\ g[u] = mix.was[u]
    BY <1>5, <1>6, <2>6, <2>9
  <2> QED BY <1>3, <1>6, <1>7, <2>7, <2>8, <2>10, Commands
<1> QED BY <1>3, <1>8, <1>9

\* A sound that does not loop has ended.
LEMMA EndsKeeps ==
    ASSUME SoundsInv, NEW s \in Sounds, Ends(s)
    PROVE  SoundsInv'
<1>1. /\ mix \in Mixes /\ wish \in [Sounds -> {"play", "stop", "pause"}]
  BY DEF SoundsInv, CountsOK, MixOK
<1>2. PICK i, x, m, al : /\ i = mix.source[s] /\ x = "silent" /\ m = mix
                         /\ al = [mix.al EXCEPT ![i] = x]
  OBVIOUS
<1>3. /\ s \notin Loops /\ mix.active[s] /\ mix' = [m EXCEPT !.al[i] = x]
      /\ UNCHANGED <<created, volume, refs>> /\ UNCHANGED <<streams, library>>
      /\ wish' = wish
  BY <1>2 DEF Ends, streamVars
<1>4. mix' = MixOf(mix.active, mix.source, mix.start, mix.was, mix.free, al)
  <2>1. m = MixOf(m.active, m.source, m.start, m.was, m.free, m.al)
    BY <1>1, <1>2, Mixed
  <2>2. al = [m.al EXCEPT ![i] = x]
    BY <1>2
  <2>3. [m EXCEPT !.al[i] = x] = MixOf(m.active, m.source, m.start, m.was, m.free, al)
    BY ONLY <2>1, <2>2, AlSet
  <2> QED BY <1>2, <1>3, <2>3
<1>5. /\ mix.start \in [Sounds -> BOOLEAN] /\ mix.was \in [Sounds -> BOOLEAN]
      /\ mix.al \in [Sources -> {"silent", "playing", "paused"}]
  BY <1>1, Mixed
<1>6. /\ al \in [Sources -> {"silent", "playing", "paused"}]
      /\ \A j \in Sources : al[j] # "playing" => mix.al[j] # "playing" \/ j = i
      /\ \A j \in Sources : al[j] = "playing" => mix.al[j] = "playing"
  BY <1>2, <1>5
<1>7. \A j \in Sources : al[j] # "playing" =>
         mix.al[j] # "playing" \/ (mix.active[s] /\ j = mix.source[s])
  BY <1>2, <1>3, <1>6
<1>8. wish' \in [Sounds -> {"play", "stop", "pause"}]
  BY <1>1, <1>3
<1> QED BY <1>3, <1>4, <1>5, <1>6, <1>7, <1>8, Commands

\* The volume is for the order of the sounds alone.
LEMMA SetVolumeKeeps ==
    ASSUME SoundsInv, NEW s \in Sounds, NEW v \in Volumes, SetVolume(s, v)
    PROVE  SoundsInv'
<1>1. /\ volume' = [volume EXCEPT ![s] = v] /\ UNCHANGED <<created, mix, refs, wish>>
      /\ UNCHANGED <<streams, library>>
  BY DEF SetVolume, streamVars
<1>2. volume' \in [Sounds -> Volumes \union {1}]
  BY <1>1 DEF SoundsInv, CountsOK
<1>3. VoicesOK'
  BY <1>1, SameVoices DEF SoundsInv
<1>4. CountsOK'
  BY <1>1, <1>2 DEF SoundsInv, CountsOK
<1>5. MixOK(mix', created', streams', wish')
  BY <1>1 DEF SoundsInv
<1> QED BY <1>3, <1>4, <1>5 DEF SoundsInv

-----------------------------------------------------------------------------
(* Update.                                                                 *)

LEMMA StartAlSet ==
    ASSUME NEW m, m = MixOf(m.active, m.source, m.start, m.was, m.free, m.al),
           NEW f, NEW al
    PROVE  [m EXCEPT !.start = f, !.al = al] =
              MixOf(m.active, m.source, f, m.was, m.free, al)
<1>1. PICK active, source, start, was, free, b :
         /\ active = m.active /\ source = m.source /\ start = m.start
         /\ was = m.was /\ free = m.free /\ b = m.al
  OBVIOUS
<1>2. m = MixOf(active, source, start, was, free, b)
  BY <1>1
<1>3. PICK n : n = [m EXCEPT !.start = f]
  OBVIOUS
<1>4. n = MixOf(active, source, f, was, free, b)
  BY ONLY <1>2, <1>3 DEF MixOf
<1>5. [n EXCEPT !.al = al] = MixOf(active, source, f, was, free, al)
  BY ONLY <1>4 DEF MixOf
<1> QED BY <1>1, <1>3, <1>5

\* The states of all sources are set.
LEMMA AlPut ==
    ASSUME NEW m, m = MixOf(m.active, m.source, m.start, m.was, m.free, m.al), NEW al
    PROVE  [m EXCEPT !.al = al] = MixOf(m.active, m.source, m.start, m.was, m.free, al)
<1>1. PICK active, source, start, was, free, b :
         /\ active = m.active /\ source = m.source /\ start = m.start
         /\ was = m.was /\ free = m.free /\ b = m.al
  OBVIOUS
<1>2. m = MixOf(active, source, start, was, free, b)
  BY <1>1
<1>3. [m EXCEPT !.al = al] = MixOf(active, source, start, was, free, al)
  BY ONLY <1>2 DEF MixOf
<1> QED BY <1>1, <1>3

\* A sound that is no longer to be started has been.
Begins(m, f, al) ==
    \A s \in Sounds : m.active[s] /\ m.start[s] => f[s] \/ al[m.source[s]] = "playing"

\* Sources are started, none of them in the pool.
LEMMA SourcesStart ==
    ASSUME NEW C, NEW st, NEW w, NEW m, MixOK(m, C, st, w), NEW st1,
           NEW f \in [Sounds -> BOOLEAN],
           NEW al \in [Sources -> {"silent", "playing", "paused"}],
           \A t \in Voices : /\ st1[t].ready = st[t].ready
                             /\ st[t].ready => st1[t].source = st[t].source,
           \A j \in Sources : al[j] = "playing" \/ al[j] = m.al[j],
           ~OpenFails => \A j \in Pool(m.free) : al[j] = m.al[j],
           Begins(m, f, al)
    PROVE  MixOK(MixOf(m.active, m.source, f, m.was, m.free, al), C, st1, w)
<1>1. m \in Mixes
  BY DEF MixOK
<1>2. m.was \in [Sounds -> BOOLEAN] /\ m.free \in Seq(Sources)
  BY <1>1, Mixed
<1>3. ASSUME ~OpenFails
      PROVE  /\ \A j \in Pool(m.free) : al[j] # "playing"
             /\ Remembered(MixOf(m.active, m.source, f, m.was, m.free, al), w)
  <2>1. Alone(m, st) /\ Remembered(m, w)
    BY <1>3 DEF MixOK
  <2>2. PICK r : r = MixOf(m.active, m.source, f, m.was, m.free, al)
    OBVIOUS
  <2>3. /\ r.active = m.active /\ r.source = m.source /\ r.start = f
        /\ r.was = m.was /\ r.al = al
    BY ONLY <2>2 DEF MixOf
  <2>4. ASSUME NEW u \in Loops, w[u] = "play"
        PROVE  IF r.active[u]
               THEN r.start[u] \/ r.al[r.source[u]] = "playing" ELSE r.was[u]
    <3>1. u \in Sounds
      BY LoopsAreSounds
    <3>2. IF m.active[u] THEN m.start[u] \/ m.al[m.source[u]] = "playing" ELSE m.was[u]
      BY <2>1, <2>4 DEF Remembered
    <3>3. m.active[u] /\ m.al[m.source[u]] = "playing" => al[m.source[u]] = "playing"
      BY <3>1 DEF MixOK
    <3>4. m.active[u] /\ m.start[u] => f[u] \/ al[m.source[u]] = "playing"
      BY <3>1 DEF Begins
    <3> QED BY <2>3, <3>2, <3>3, <3>4
  <2>5. Remembered(r, w)
    BY <2>4 DEF Remembered
  <2> QED BY <1>3, <2>1, <2>2, <2>5 DEF Alone
<1> QED BY <1>2, <1>3, Retuned

\* OpenALSound::Update of every sound.
LEMMA StartedKeeps ==
    ASSUME created \subseteq Sounds, NEW st, NEW w,
           NEW m, MixOK(m, created, st, w)
    PROVE  MixOK(Started(m), created, st, w)
<1>1. m \in Mixes
  BY DEF MixOK
<1>2. /\ m.active \in [Sounds -> BOOLEAN] /\ m.start \in [Sounds -> BOOLEAN]
      /\ m.source \in [Sounds -> Sources \union {NoSource}]
      /\ m.al \in [Sources -> {"silent", "playing", "paused"}]
  BY <1>1, Mixed
<1>3. PICK due : due = {s \in created : m.active[s] /\ m.start[s]}
  OBVIOUS
<1>4. PICK f, al :
         /\ f = [s \in Sounds |-> m.start[s] /\ s \notin due]
         /\ al = [i \in Sources |->
                    IF \E s \in due : m.source[s] = i THEN "playing" ELSE m.al[i]]
  OBVIOUS
<1>5. Started(m) = MixOf(m.active, m.source, f, m.was, m.free, al)
  <2>1. m = MixOf(m.active, m.source, m.start, m.was, m.free, m.al)
    BY <1>1, Mixed
  <2>2. [m EXCEPT !.start = f, !.al = al] =
          MixOf(m.active, m.source, f, m.was, m.free, al)
    BY ONLY <2>1, StartAlSet
  <2>3. Started(m) = [m EXCEPT !.start = f, !.al = al]
    BY <1>3, <1>4 DEF Started
  <2> QED BY <2>2, <2>3
<1>6. /\ f \in [Sounds -> BOOLEAN] /\ \A s \in Sounds : s \notin due => f[s] = m.start[s]
      /\ al \in [Sources -> {"silent", "playing", "paused"}]
      /\ \A j \in Sources : al[j] = "playing" \/ al[j] = m.al[j]
  BY <1>2, <1>4
<1>7. Begins(m, f, al)
  <2> SUFFICES ASSUME NEW s \in Sounds, m.active[s], m.start[s]
               PROVE  f[s] \/ al[m.source[s]] = "playing"
    BY DEF Begins
  <2>1. s \in created /\ m.source[s] \in Sources
    BY DEF MixOK
  <2>2. s \in due
    BY <1>3, <2>1
  <2> QED BY <1>4, <2>1, <2>2
<1>8. ASSUME ~OpenFails PROVE \A j \in Pool(m.free) : al[j] = m.al[j]
  <2>1. \A s \in Sounds : m.active[s] => m.source[s] \notin Pool(m.free)
    BY <1>8 DEF MixOK, Alone
  <2>2. \A s \in due : s \in Sounds /\ m.active[s]
    BY <1>3
  <2>3. m.free \in Seq(Sources)
    BY <1>1, Mixed
  <2>4. Pool(m.free) \subseteq Sources
    BY <2>3 DEF Pool
  <2> QED BY <1>4, <2>1, <2>2, <2>4
<1>9. MixOK(MixOf(m.active, m.source, f, m.was, m.free, al), created, st, w)
  BY <1>6, <1>7, <1>8, SourcesStart
<1> QED BY <1>5, <1>9

\* VorbisStream::Update of one stream.
LEMMA UpdatedOK ==
    ASSUME NEW s, s \in StreamsMade, QueueOK(s), NEW x
    PROVE  /\ Updated(s, x) \in StreamsMade /\ QueueOK(Updated(s, x))
           /\ Updated(s, x).ready = s.ready /\ Updated(s, x).source = s.source
<1>1. PICK r, v : r = Refilled(s) /\ v = WithState(r, "stop")
  OBVIOUS
<1>2. r \in StreamsMade /\ QueueOK(r) /\ r.ready = s.ready /\ r.source = s.source
  BY <1>1, RefilledOK
<1>3. PICK y \in States : y = "stop"
  BY DEF States
<1>4. v = WithState(r, y)
  BY <1>1, <1>3
<1>5. v \in StreamsMade /\ QueueOK(v) /\ v.ready = r.ready /\ v.source = r.source
  BY ONLY <1>2, <1>4, StateSet
<1>6. Updated(s, x) = r \/ Updated(s, x) = v
  BY <1>1 DEF Updated, WithState
<1> QED BY <1>2, <1>5, <1>6

\* The streams that Update touches are open.
LEMMA UpdatesOpen ==
    ASSUME VoicesOK, NEW t \in Voices, Updates(streams[t])
    PROVE  /\ streams[t] # NoStream /\ streams[t] \in StreamsMade /\ QueueOK(streams[t])
           /\ ~OpenFails => streams[t].ready
<1>1. streams[t].state \in {"not_started", "play"}
  BY DEF Updates
<1>2. streams[t] # NoStream
  BY <1>1, NoStreamIs
<1> QED BY <1>2, OpenVoice

\* VorbisStream::Update of every stream: the sources it starts.
LEMMA StreamsStartedKeeps ==
    ASSUME VoicesOK, NEW w, NEW m, MixOK(m, created, streams, w),
           NEW st1, \A t \in Voices : /\ st1[t].ready = streams[t].ready
                                      /\ streams[t].ready => st1[t].source = streams[t].source
    PROVE  MixOK(StreamsStarted(m), created, st1, w)
<1>1. m \in Mixes
  BY DEF MixOK
<1>2. /\ m.active \in [Sounds -> BOOLEAN] /\ m.start \in [Sounds -> BOOLEAN]
      /\ m.al \in [Sources -> {"silent", "playing", "paused"}]
      /\ m.free \in Seq(Sources)
  BY <1>1, Mixed
<1>3. PICK due : /\ due = {t \in Voices : Updates(streams[t])
                         /\ Restarts(Refilled(streams[t]), m.al[streams[t].source])}
  OBVIOUS
<1>4. PICK f, al :
         /\ f = m.start
         /\ al = [i \in Sources |->
                    IF \E t \in due : streams[t].source = i THEN "playing" ELSE m.al[i]]
  OBVIOUS
<1>5. StreamsStarted(m) = MixOf(m.active, m.source, f, m.was, m.free, al)
  <2>1. m = MixOf(m.active, m.source, m.start, m.was, m.free, m.al)
    BY <1>1, Mixed
  <2>2. [m EXCEPT !.al = al] = MixOf(m.active, m.source, m.start, m.was, m.free, al)
    BY ONLY <2>1, AlPut
  <2>3. StreamsStarted(m) = [m EXCEPT !.al = al]
    BY <1>3, <1>4 DEF StreamsStarted
  <2> QED BY <1>4, <2>2, <2>3
<1>6. /\ f \in [Sounds -> BOOLEAN]
      /\ al \in [Sources -> {"silent", "playing", "paused"}]
      /\ \A j \in Sources : al[j] = "playing" \/ al[j] = m.al[j]
  BY <1>2, <1>4
<1>7. Begins(m, f, al)
  BY <1>4 DEF Begins
<1>8. ASSUME ~OpenFails PROVE \A j \in Pool(m.free) : al[j] = m.al[j]
  <2>1. \A t \in Voices : streams[t].ready => streams[t].source \notin Pool(m.free)
    BY <1>8 DEF MixOK, Alone
  <2>2. \A t \in due : t \in Voices /\ streams[t].ready
    BY <1>3, <1>8, UpdatesOpen
  <2>3. Pool(m.free) \subseteq Sources
    BY <1>2 DEF Pool
  <2> QED BY <1>4, <2>1, <2>2, <2>3
<1>9. MixOK(MixOf(m.active, m.source, f, m.was, m.free, al), created, st1, w)
  BY <1>6, <1>7, <1>8, SourcesStart
<1> QED BY <1>5, <1>9

\* Update: the sounds are started, the loop is run, the streams follow.
LEMMA UpdateKeeps ==
    ASSUME SoundsInv, Update
    PROVE  SoundsInv'
<1>1. /\ MixOK(mix, created, streams, wish) /\ VoicesOK /\ CountsOK
      /\ streams \in [Voices -> StreamsMade \union {NoStream}] /\ created \subseteq Sounds
  BY DEF SoundsInv, VoicesOK, CountsOK
<1>2. PICK st : st = [t \in Voices |->
                        IF Updates(streams[t])
                        THEN Updated(streams[t], mix.al[streams[t].source])
                        ELSE streams[t]]
  OBVIOUS
<1>3. UNCHANGED <<created, volume, library, refs, wish>> /\ streams' = st
  BY <1>2 DEF Update
<1>4. PICK m : m = Started(mix)
  OBVIOUS
<1>5. PICK n : /\ mix' = StreamsStarted(n)
               /\ \/ n = m
                  \/ \E order \in Orders, failing \in Failing :
                        n = Prioritized(m, order, failing)
  BY <1>4 DEF Update
<1>6. MixOK(m, created, streams, wish)
  BY <1>1, <1>4, StartedKeeps
<1>7. MixOK(n, created, streams, wish)
  BY <1>1, <1>5, <1>6, LoopKeepsMix
<1>8. ASSUME NEW t \in Voices
      PROVE  /\ st[t] \in StreamsMade \union {NoStream} /\ QueueOK(st[t])
             /\ st[t].ready = streams[t].ready /\ st[t].source = streams[t].source
             /\ st[t] = NoStream <=> streams[t] = NoStream
  <2>1. CASE Updates(streams[t])
    <3>1. streams[t] # NoStream /\ streams[t] \in StreamsMade /\ QueueOK(streams[t])
      BY <1>1, <2>1, UpdatesOpen
    <3>2. PICK x : x = mix.al[streams[t].source]
      OBVIOUS
    <3>3. st[t] = Updated(streams[t], x)
      BY <1>2, <2>1, <3>2
    <3>4. /\ st[t] \in StreamsMade /\ QueueOK(st[t])
          /\ st[t].ready = streams[t].ready /\ st[t].source = streams[t].source
      BY <3>1, <3>3, UpdatedOK
    <3> QED BY <3>1, <3>4, NoStreamIs
  <2>2. CASE ~Updates(streams[t])
    <3>1. st[t] = streams[t]
      BY <1>2, <2>2
    <3> QED BY <1>1, <3>1 DEF VoicesOK
  <2> QED BY <2>1, <2>2
<1>9. MixOK(mix', created', streams', wish')
  <2>1. MixOK(StreamsStarted(n), created, st, wish)
    BY <1>1, <1>7, <1>8, StreamsStartedKeeps
  <2> QED BY <1>3, <1>5, <2>1
<1>10. VoicesOK'
  <2>1. Opened(st) = Opened(streams)
    BY <1>8 DEF Opened
  <2>2. st \in [Voices -> StreamsMade \union {NoStream}]
    <3>1. st = [t \in Voices |-> st[t]]
      BY <1>2
    <3> QED BY <1>8, <3>1
  <2>3. \A t \in Opened(st) : t \in Voices
    BY DEF Opened
  <2>4. ~OpenFails => /\ \A t \in Opened(st) : st[t].ready
                      /\ library.refs \in Cardinality(Opened(st)) .. MaxLibrary
                      /\ Opened(st) # {} => library.loaded
    BY <1>1, <1>8, <2>1, <2>3 DEF VoicesOK
  <2>5. /\ library = [refs |-> library.refs, loaded |-> library.loaded]
        /\ library.refs \in Int /\ library.loaded \in BOOLEAN
    BY <1>1 DEF VoicesOK
  <2> QED BY <1>3, <1>8, <2>2, <2>4, <2>5 DEF VoicesOK
<1> QED BY <1>1, <1>3, <1>9, <1>10, SameCounts DEF SoundsInv

-----------------------------------------------------------------------------
(* The invariant.                                                          *)

\* In the beginning every source is in the pool.
LEMMA SoundsBegin ==
    ASSUME SoundsInit
    PROVE  SoundsInv
<1>1. /\ created = {} /\ volume = [s \in Sounds |-> 1]
      /\ streams = [t \in Voices |-> NoStream] /\ library = [refs |-> 0, loaded |-> FALSE]
      /\ refs = [f \in SoundFiles |-> 0] /\ wish = [s \in Sounds |-> "stop"]
  BY DEF SoundsInit
<1>2. PICK n, o, z : n = FALSE /\ o = NoSource /\ z = "silent"
  OBVIOUS
<1>3. PICK act, src, sta, was, fre, al :
         /\ act = [s \in Sounds |-> n] /\ src = [s \in Sounds |-> o]
         /\ sta = [s \in Sounds |-> n] /\ was = [s \in Sounds |-> n]
         /\ fre = [i \in Sources |-> i] /\ al = [i \in Sources |-> z]
  OBVIOUS
<1>4. mix = MixOf(act, src, sta, was, fre, al)
  BY <1>2, <1>3 DEF SoundsInit, MixOf
<1>5. /\ mix.active = act /\ mix.source = src /\ mix.start = sta
      /\ mix.was = was /\ mix.free = fre /\ mix.al = al
  BY ONLY <1>4 DEF MixOf
<1>6. /\ act \in [Sounds -> BOOLEAN] /\ sta \in [Sounds -> BOOLEAN]
      /\ was \in [Sounds -> BOOLEAN] /\ \A s \in Sounds : ~act[s]
  BY <1>2, <1>3
<1>7. /\ src \in [Sounds -> Sources \union {NoSource}]
      /\ al \in [Sources -> {"silent", "playing", "paused"}]
      /\ \A i \in Sources : al[i] # "playing"
  BY <1>2, <1>3
<1>8. NumSources \in Nat /\ Sources = 1 .. NumSources
  BY SoundAssumption DEF SoundAssumption, Sources
<1>9. fre \in Seq(Sources) /\ DOMAIN fre = Sources /\ \A i \in Sources : fre[i] = i
  BY <1>3, <1>8
<1>10. mix \in Mixes
  BY <1>4, <1>6, <1>7, <1>9, Made
<1>11. \A t \in Voices : streams[t] = NoStream
  BY <1>1
<1>12. Alone(mix, streams)
  <2>1. Once(fre) /\ Pool(fre) = Sources
    BY <1>9 DEF Once, Pool
  <2> QED BY <1>5, <1>6, <1>7, <1>11, <2>1, NoStreamIs DEF Alone
<1>13. Remembered(mix, wish)
  BY <1>1, LoopsAreSounds DEF Remembered
<1>14. MixOK(mix, created, streams, wish)
  BY <1>5, <1>6, <1>10, <1>12, <1>13 DEF MixOK
<1>15. Cardinality({}) = 0
  BY FS_EmptySet
<1>16. CountsOK
  <2>1. volume \in [Sounds -> Volumes \union {1}]
    BY <1>1
  <2>2. wish \in [Sounds -> {"play", "stop", "pause"}]
    BY <1>1
  <2>3. \A f \in SoundFiles : {s \in created : FileOf[s] = f} = {}
    BY <1>1
  <2>4. refs = [f \in SoundFiles |-> Cardinality({s \in created : FileOf[s] = f})]
    BY <1>1, <1>15, <2>3
  <2> QED BY <1>1, <2>1, <2>2, <2>4 DEF CountsOK
<1>17. VoicesOK
  <2>1. Opened(streams) = {}
    BY <1>11 DEF Opened
  <2>2. library.refs = 0 /\ library.loaded = FALSE
    BY <1>1
  <2>3. streams \in [Voices -> StreamsMade \union {NoStream}]
    BY <1>1
  <2>4. library = [refs |-> library.refs, loaded |-> library.loaded]
    BY <1>1
  <2>5. 0 \in 0 .. MaxLibrary
    BY SoundAssumption DEF SoundAssumption
  <2>6. \A t \in Voices : QueueOK(streams[t])
    BY <1>11, NoStreamIs
  <2>7. library.refs \in Int
    BY <2>2
  <2>8. library.loaded \in BOOLEAN
    BY <2>2
  <2>9. /\ \A t \in Opened(streams) : streams[t].ready
        /\ library.refs \in Cardinality(Opened(streams)) .. MaxLibrary
        /\ Opened(streams) # {} => library.loaded
    BY <1>15, <2>1, <2>2, <2>5
  <2> QED BY <2>3, <2>4, <2>6, <2>7, <2>8, <2>9 DEF VoicesOK
<1> QED BY <1>14, <1>16, <1>17 DEF SoundsInv

\* Every step keeps the invariant.
LEMMA SoundsStep ==
    ASSUME SoundsInv, [SoundsNext]_soundVars
    PROVE  SoundsInv'
<1>1. ASSUME NEW s \in Sounds, CreateSound(s) PROVE SoundsInv'
  BY <1>1, CreateSoundKeeps
<1>2. ASSUME NEW s \in Sounds, DestroySound(s) PROVE SoundsInv'
  BY <1>2, DestroySoundKeeps
<1>3. ASSUME NEW s \in Sounds, Play(s) PROVE SoundsInv'
  BY <1>3, PlayKeeps
<1>4. ASSUME NEW s \in Sounds, Stop(s) \/ Pause(s) PROVE SoundsInv'
  BY <1>4, SilenceKeeps DEF Stop, Pause
<1>5. ASSUME NEW s \in Sounds, Ends(s) PROVE SoundsInv'
  BY <1>5, EndsKeeps
<1>6. ASSUME NEW s \in Sounds, NEW v \in Volumes, SetVolume(s, v) PROVE SoundsInv'
  BY <1>6, SetVolumeKeeps
<1>7. ASSUME NEW t \in Voices, CreateSoundStream(t) PROVE SoundsInv'
  BY <1>7, CreateSoundStreamKeeps
<1>8. ASSUME NEW t \in Voices, DestroySoundStream(t) PROVE SoundsInv'
  BY <1>8, DestroySoundStreamKeeps
<1>9. ASSUME NEW t \in Voices, ReplayStream(t) PROVE SoundsInv'
  BY <1>9, ReplayStreamKeeps
<1>10. ASSUME NEW t \in Voices, PlayStream(t) PROVE SoundsInv'
  BY <1>10, PlayStreamKeeps
<1>11. ASSUME NEW t \in Voices, PauseStream(t) PROVE SoundsInv'
  BY <1>11, PauseStreamKeeps
<1>12. ASSUME NEW t \in Voices, StopStream(t) PROVE SoundsInv'
  BY <1>12, StopStreamKeeps
<1>13. ASSUME NEW t \in Voices, Plays(t) PROVE SoundsInv'
  BY <1>13, PlaysKeeps
<1>14. CASE Update
  BY <1>14, UpdateKeeps
<1>15. CASE UNCHANGED soundVars
  <2>1. UNCHANGED <<created, volume, refs, wish>> /\ UNCHANGED <<streams, library>>
        /\ UNCHANGED mix
    BY <1>15 DEF soundVars, streamVars
  <2>2. MixOK(mix', created', streams', wish')
    BY <2>1 DEF SoundsInv
  <2> QED BY <2>1, <2>2, SameCounts, SameVoices DEF SoundsInv
<1> QED BY <1>1, <1>2, <1>3, <1>4, <1>5, <1>6, <1>7, <1>8, <1>9, <1>10, <1>11, <1>12,
           <1>13, <1>14, <1>15 DEF SoundsNext

\* The invariant holds in every state the sound manager reaches: while no
\* stream's file fails to open, each source has one holder or lies once in
\* the pool, and the loops that were asked for are heard, about to be or
\* remembered, through CreateSound, every turn of PrioritizeSounds and the
\* streams' taking and giving of sources.
THEOREM SoundsInvariant ==
    SoundsSpec => []SoundsInv
<1>1. SoundsInit => SoundsInv
  BY SoundsBegin
<1>2. SoundsInv /\ [SoundsNext]_soundVars => SoundsInv'
  BY SoundsStep
<1> QED BY <1>1, <1>2, PTL DEF SoundsSpec

\* The type of the module's own invariant follows.
LEMMA SoundTypes ==
    ASSUME ~OpenFails, SoundsInv
    PROVE  TypeOK
<1>1. CountsOK /\ VoicesOK /\ mix \in Mixes
  BY DEF SoundsInv, MixOK
<1>2. /\ mix.active \in [Sounds -> BOOLEAN]
      /\ mix.source \in [Sounds -> Sources \union {NoSource}]
      /\ mix.start \in [Sounds -> BOOLEAN] /\ mix.was \in [Sounds -> BOOLEAN]
      /\ mix.free \in Seq(Sources)
      /\ mix.al \in [Sources -> {"silent", "playing", "paused"}]
  BY <1>1, Mixed
<1>3. ASSUME NEW t \in Voices
      PROVE  /\ streams[t].state \in {"none", "not_started", "play", "pause", "stop"}
             /\ streams[t].source \in Sources \union {NoSource}
             /\ streams[t].decoded \in 0 .. Chunks
  <2>1. CASE streams[t] = NoStream
    <3>1. 0 \in 0 .. Chunks
      BY VorbisAssumption DEF VorbisAssumption
    <3>2. /\ NoStream.state = "none" /\ NoStream.source = NoSource
          /\ NoStream.decoded = 0
      BY DEF NoStream, NoSource
    <3> QED BY <2>1, <3>1, <3>2
  <2>2. CASE streams[t] \in StreamsMade
    BY <2>2, StreamMade
  <2> QED BY <1>1, <2>1, <2>2 DEF VoicesOK
<1>4. library.refs \in -MaxLibrary .. MaxLibrary
  <2>1. IsFiniteSet(Opened(streams))
    <3>1. IsFiniteSet(Voices) /\ Opened(streams) \in SUBSET Voices
      BY SoundAssumption DEF SoundAssumption, Opened
    <3> QED BY <3>1, FS_Subset
  <2>2. Cardinality(Opened(streams)) \in Nat
    BY <2>1, FS_CardinalityType
  <2>3. library.refs \in Cardinality(Opened(streams)) .. MaxLibrary /\ MaxLibrary \in Nat
    BY <1>1, SoundAssumption DEF VoicesOK, SoundAssumption
  <2> QED BY <2>2, <2>3
<1>5. refs = [f \in SoundFiles |-> Cardinality({s \in created : FileOf[s] = f})]
  BY <1>1 DEF CountsOK
<1> QED BY <1>1, <1>2, <1>3, <1>4, <1>5 DEF TypeOK, CountsOK

\* What has one element at the most.
LEMMA OneAtMost ==
    ASSUME NEW X, \A x, y \in X : x = y
    PROVE  (Cardinality(X) = 0 /\ X = {}) \/ Cardinality(X) = 1
<1>1. CASE X = {}
  BY <1>1, FS_EmptySet
<1>2. ASSUME NEW x \in X PROVE Cardinality(X) = 1
  <2>1. X = {x}
    OBVIOUS
  <2> QED BY <2>1, FS_Singleton
<1> QED BY <1>1, <1>2

\* The count of the holders of a source, from what is said of each two.
LEMMA HoldersAlone ==
    ASSUME ~OpenFails, SoundsInv
    PROVE  SourceHasOneHolder
<1> DEFINE holders(i) == {s \in created : mix.active[s] /\ mix.source[s] = i}
                         \union {t \in Voices : streams[t].ready /\ streams[t].source = i}
           spots(i) == {k \in DOMAIN mix.free : mix.free[k] = i}
<1>1. Alone(mix, streams) /\ created \subseteq Sounds
  BY DEF SoundsInv, MixOK, CountsOK
<1>2. ASSUME NEW i \in Sources
      PROVE  /\ Cardinality(holders(i)) + Cardinality(spots(i)) <= 1
             /\ spots(i) # {} => mix.al[i] # "playing"
  <2>1. \A x, y \in holders(i) : x = y
    BY <1>1 DEF Alone
  <2>2. \A x, y \in spots(i) : x = y
    BY <1>1 DEF Alone, Once
  <2>3. spots(i) # {} => i \in Pool(mix.free)
    BY DEF Pool
  <2>4. i \in Pool(mix.free) => holders(i) = {}
    BY <1>1 DEF Alone
  <2>5. i \in Pool(mix.free) => mix.al[i] # "playing"
    BY <1>1 DEF Alone
  <2> HIDE DEF holders, spots
  <2>6. (Cardinality(holders(i)) = 0 /\ holders(i) = {}) \/ Cardinality(holders(i)) = 1
    BY <2>1, OneAtMost
  <2>7. (Cardinality(spots(i)) = 0 /\ spots(i) = {}) \/ Cardinality(spots(i)) = 1
    BY <2>2, OneAtMost
  <2>8. Cardinality({}) = 0
    BY FS_EmptySet
  <2>9. spots(i) = {} \/ holders(i) = {}
    BY <2>3, <2>4
  <2>10. Cardinality(holders(i)) + Cardinality(spots(i)) <= 1
    BY ONLY <2>6, <2>7, <2>8, <2>9
  <2> QED BY <2>3, <2>5, <2>10
<1>3. \A i \in Sources :
         /\ Cardinality(holders(i)) + Cardinality(spots(i)) <= 1
         /\ spots(i) # {} => mix.al[i] # "playing"
  <2> HIDE DEF holders, spots
  <2> QED BY <1>2
<1> QED BY <1>3, SoundTypes DEF SourceHasOneHolder

\* No audio source is with two users, nor with one and in the pool, through
\* any culling, reactivation, replay and destruction, while no stream's file
\* fails to open.
THEOREM OneHolder ==
    ASSUME ~OpenFails
    PROVE  SoundsSpec => []SourceHasOneHolder
<1>1. SoundsInv => SourceHasOneHolder
  BY HoldersAlone
<1> QED BY <1>1, SoundsInvariant, PTL

\* A loop the game has started, and not stopped since, is heard, about to be,
\* or remembered for the day it gets a source again.
THEOREM LoopsSurvive ==
    ASSUME ~OpenFails
    PROVE  SoundsSpec => []LoopingSoundsSurviveCulling
<1>1. SoundsInv => LoopingSoundsSurviveCulling
  BY DEF SoundsInv, MixOK, Remembered, LoopingSoundsSurviveCulling, IsPlaying
<1> QED BY <1>1, SoundsInvariant, PTL

\* The buffers on the source of a stream are consecutive pieces of the file up
\* to the last one decoded, through Update, Play, Stop and Pause in any order:
\* none is lost, repeated or out of turn.  Files may fail to open.
THEOREM StreamOrder ==
    SoundsSpec => []StreamsKeepTheirOrder
<1>1. SoundsInv => StreamsKeepTheirOrder
  BY DEF SoundsInv, VoicesOK, QueueOK, StreamsKeepTheirOrder
<1> QED BY <1>1, SoundsInvariant, PTL

\* The Vorbis library stays loaded while a stream decodes with it, if no file
\* fails to open; with one that does, the count goes wrong.
THEOREM LibraryStays ==
    ASSUME ~OpenFails
    PROVE  SoundsSpec => []LibraryOutlivesStreams
<1>1. SoundsInv => LibraryOutlivesStreams
  <2>1. \A t \in Voices : streams[t].ready => streams[t] # NoStream
    BY NoStreamIs
  <2> QED BY <2>1 DEF SoundsInv, VoicesOK, Opened, LibraryOutlivesStreams
<1> QED BY <1>1, SoundsInvariant, PTL

\* Deactivate is about one sound.
LEMMA OthersStayActive ==
    ASSUME NEW m \in Mixes, NEW s \in Sounds, NEW u \in Sounds, m.active[u], u # s
    PROVE  Deactivated(m, s).active[u]
<1>1. CASE ~m.active[s]
  BY <1>1 DEF Deactivated
<1>2. CASE m.active[s]
  <2>1. PICK b \in BOOLEAN : b = Resumes(m, s)
    BY DEF Resumes
  <2>2. Deactivated(m, s) =
          MixOf([m.active EXCEPT ![s] = FALSE], m.source, [m.start EXCEPT ![s] = FALSE],
                [m.was EXCEPT ![s] = b], <<m.source[s]>> \o m.free,
                [m.al EXCEPT ![m.source[s]] = "silent"])
    BY <1>2, <2>1, DeactivatedIs
  <2>3. Deactivated(m, s).active = [m.active EXCEPT ![s] = FALSE]
    BY <2>2 DEF MixOf
  <2>4. m.active \in [Sounds -> BOOLEAN]
    BY Mixed
  <2> QED BY <2>3, <2>4
<1> QED BY <1>1, <1>2

\* What CreateSound silences is the candidate it has chosen.
LEMMA SpareInCreation ==
    ASSUME SoundsInv, NEW s \in Sounds, CreateSound(s),
           NEW o \in created, mix.active[o], ~mix'.active[o]
    PROVE  Priority[o] <= Priority[s]
<1>1. /\ created \subseteq Sounds /\ s \notin created /\ o \in Sounds /\ o # s
      /\ streams \in [Voices -> StreamsMade \union {NoStream}]
      /\ MixOK(mix, created, streams, wish)
      /\ wish \in [Sounds -> {"play", "stop", "pause"}]
  BY DEF SoundsInv, CountsOK, VoicesOK, CreateSound
<1>2. PICK m \in MixAfterCulling(Priority[s]), fails \in {FALSE, AttachFails} :
         mix' = m \/ mix' = Reactivated(Blank(m, s), s, fails)
  BY Zenon DEF CreateSound, Blank
<1>3. MixOK(m, created, streams, wish)
  BY <1>1, Culling
<1>4. ~m.active[o]
  <2>1. CASE mix' = m
    BY <2>1
  <2>2. CASE mix' = Reactivated(Blank(m, s), s, fails)
    <3>1. PICK n, w, D : /\ n = Blank(m, s) /\ w = [wish EXCEPT ![s] = "stop"]
                         /\ D = created \union {s}
      OBVIOUS
    <3>2. MixOK(n, D, streams, w) /\ ~n.active[s]
      BY <1>1, <1>3, <3>1, Fresh
    <3>3. fails \in BOOLEAN /\ s \in D
      BY <3>1, SoundAssumption DEF SoundAssumption
    <3>4. n.active[o] => Reactivated(n, s, fails).active[o]
      BY <1>1, <3>2, <3>3, Reactivation
    <3>5. n.active = m.active
      <4>1. m \in Mixes
        BY <1>3 DEF MixOK
      <4>2. m = MixOf(m.active, m.source, m.start, m.was, m.free, m.al)
        BY <4>1, Mixed
      <4> QED BY <3>1, <4>2 DEF Blank, MixOf
    <3> QED BY <2>2, <3>1, <3>4, <3>5
  <2> QED BY <1>2, <2>1, <2>2
<1>5. PICK c \in Sounds : m = Deactivated(mix, c) /\ Priority[c] <= Priority[s]
  <2>1. m # mix
    BY <1>4
  <2> QED BY <1>1, <2>1 DEF MixAfterCulling, Candidates
<1>6. c # o => Deactivated(mix, c).active[o]
  BY <1>1, OthersStayActive DEF MixOK
<1> QED BY <1>4, <1>5, <1>6

\* Creating a sound takes the source of none that has a higher priority.
THEOREM PriorityIsSpared ==
    SoundsSpec => CreationSparesHigherPriority
<1> DEFINE P == \A s \in Sounds : CreateSound(s) =>
                   \A o \in created : mix.active[o] /\ ~mix.active'[o]
                                         => Priority[o] <= Priority[s]
<1>1. SoundsInv => P
  BY SpareInCreation
<1>2. SoundsSpec => [][P]_(soundVars)
  BY <1>1, SoundsInvariant, PTL DEF SoundsSpec
<1> QED BY <1>2 DEF CreationSparesHigherPriority
=============================================================================
