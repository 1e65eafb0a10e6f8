-------------------------- MODULE SaveManagerProofs --------------------------
(***************************************************************************)
(* For any number of saves, game states, commits and crashes: the last     *)
(* commit of a save survives whatever fails and wherever the process dies, *)
(* the state file describes no commit that is not in the data, what is     *)
(* deleted stays deleted, and the whole is a store of saves (SaveStore).   *)
(*                                                                         *)
(* The first and the last hold if a restore that fails leaves no other save*)
(* pending (Intact): the next commit begins by removing the backup, which  *)
(* is safe only because a pending save was begun with its data in place    *)
(* and every commit in between has put them back.  PendingOK is that.      *)
(***************************************************************************)
EXTENDS SaveManager, FiniteSetTheorems, TLAPS

\* The four parts of TypeOK.
DirsOK == dir \subseteq Saves /\ saves \subseteq Saves /\ deleted \subseteq Saves

MemoryOK ==
    /\ name \in [States -> Saves \union {"new", "unused"}]
    /\ pending \subseteq States \X (1..MaxCommits)
    /\ commits \in 0..MaxCommits /\ crashes \in 0..MaxCrashes
    /\ installed \in [Saves -> Seq(1..MaxCommits)]

\* What a data or backup directory can hold, and what a state file.
Value == 0..MaxCommits \union {Partial}
Written == 0..Torn

DiskOK ==
    /\ data \in [Saves -> Value] /\ backup \in [Saves -> Value]
    /\ json \in [Saves -> Written]

PlaceOK ==
    /\ pc \in {"idle", "prepare", "moveOld", "install", "restore", "setSave",
               "writeState", "cleanup"}
    /\ cur = NoCommit <=> pc = "idle"

\* One save is pending at a time, or a failed commit can be undone.
Intact == MaxPending <= 1 \/ ~RestoreMayFail

Newest(s) == Last(installed[s])

\* What the destructor of a pending save works on.
CurOK ==
    pc # "idle" =>
        /\ cur.state \in States /\ cur.commit \in 1..MaxCommits
        /\ cur.save \in Saves /\ cur.isNew \in BOOLEAN

\* A game state with a name has been committed.
NamesOK ==
    \A o \in States : name[o] \in Saves \ deleted => installed[name[o]] # <<>>

\* A pending save of a save that has a name was begun with its data in place,
\* and they are, but while the save is being committed.
PendingOK ==
    \A p \in pending :
        /\ name[p[1]] # "unused"
        /\ Intact /\ name[p[1]] \in Saves \ (deleted \union {cur.save}) =>
              data[name[p[1]]] # 0

\* With a bound of one no other save is pending while one is committed.
OnePending ==
    /\ IsFiniteSet(pending)
    /\ MaxPending <= 1 =>
          /\ \A p, q \in pending : p = q
          /\ pc # "idle" => pending = {}

\* Where the last commit of the save is at each step of the next.
CommitOK ==
    LET s == cur.save IN
    pc # "idle" =>
        /\ cur.isNew => s \notin deleted
        /\ pc \in {"prepare", "install"} /\ cur.isNew => installed[s] = <<>>
        /\ pc # "prepare" /\ cur.isNew => s \in dir
        /\ pc \in {"moveOld", "restore"} => ~cur.isNew
        /\ Intact /\ pc \in {"prepare", "moveOld"} /\ ~cur.isNew /\ s \notin deleted =>
              installed[s] # <<>> /\ data[s] = Newest(s)
        /\ Intact /\ pc \in {"install", "restore"} /\ ~cur.isNew /\ s \notin deleted =>
              installed[s] # <<>> /\ data[s] = 0 /\ backup[s] = Newest(s)
        /\ pc \in {"setSave", "writeState", "cleanup"} =>
              /\ installed[s] # <<>> /\ data[s] = Newest(s)
              /\ cur.commit \in ToSet(installed[s])

\* Of a deleted directory nothing is left, on the disk or in the list.
GoneOK ==
    /\ saves \subseteq dir
    /\ \A s \in deleted \ dir : data[s] = 0 /\ backup[s] = 0

\* The promise of CommittedDataSurvives for one save.
Kept(s) ==
    installed[s] # <<>> =>
        \/ data[s] = Newest(s)
        \/ data[s] = 0 /\ backup[s] = Newest(s)

DataOK == Intact => \A s \in Saves \ deleted : Kept(s)

IInv ==
    /\ TypeOK /\ CurOK /\ NamesOK /\ OnePending /\ GoneOK /\ StateFollowsData
    /\ PendingOK /\ CommitOK /\ DataOK

-----------------------------------------------------------------------------
\* The bounds are numbers, the names are not words of the model.
LEMMA Constants ==
    /\ MaxCommits \in Nat /\ MaxPending \in Nat /\ MaxCrashes \in Nat
    /\ RestoreMayFail \in BOOLEAN
    /\ "new" \notin Saves /\ "unused" \notin Saves /\ "none" \notin Saves
BY SavesAssumption

\* No data, half of them and the numbers of commits can be in a directory.
LEMMA Values ==
    /\ 0 \in Value /\ Partial \in Value /\ 1..MaxCommits \subseteq Value
    /\ 0 \in Written /\ Torn \in Written /\ 1..MaxCommits \subseteq Written
BY Constants DEF Value, Written, Torn

\* The commit that comes last is the last of the sequence.
LEMMA AppendFacts ==
    ASSUME NEW n \in Nat, NEW q \in Seq(1..n), NEW c \in 1..n
    PROVE  /\ Append(q, c) \in Seq(1..n) /\ Append(q, c) # <<>>
           /\ Last(Append(q, c)) = c
           /\ c \in ToSet(Append(q, c)) /\ ToSet(q) \subseteq ToSet(Append(q, c))
<1>1. /\ Append(q, c) \in Seq(1..n) /\ Append(q, c) # <<>>
      /\ Last(Append(q, c)) = c
  BY DEF Last
<1>2. c \in ToSet(Append(q, c))
  BY Len(q) + 1 \in DOMAIN Append(q, c) DEF ToSet
<1>3. \A i \in 1 .. Len(q) : i \in 1 .. Len(Append(q, c)) /\ Append(q, c)[i] = q[i]
  OBVIOUS
<1>4. ToSet(q) \subseteq ToSet(Append(q, c))
  BY <1>1, <1>3 DEF ToSet
<1> QED BY <1>1, <1>2, <1>4

\* The last of a sequence is one of its elements.
LEMMA LastIsMember ==
    ASSUME NEW S, NEW q \in Seq(S), q # <<>>
    PROVE  Last(q) \in S
BY DEF Last

\* Nothing is an element of the empty sequence.
LEMMA NothingInEmpty == ToSet(<<>>) = {}
BY DEF ToSet

\* A commit has a number from 1.
LEMMA NewestIsCommit ==
    ASSUME TypeOK, NEW s \in Saves, installed[s] # <<>>
    PROVE  Newest(s) \in 1..MaxCommits
<1>1. installed[s] \in Seq(1..MaxCommits)
  BY DEF TypeOK
<1> QED BY <1>1, LastIsMember DEF Newest

LEMMA InitIInv == Init => IInv
<1> SUFFICES ASSUME Init PROVE IInv
  OBVIOUS
<1> USE Constants DEF Init
<1>1. TypeOK
  BY DEF TypeOK, Torn
<1>2. CurOK /\ NamesOK /\ PendingOK /\ CommitOK /\ GoneOK
  BY DEF CurOK, NamesOK, PendingOK, CommitOK, GoneOK
<1>3. OnePending
  BY FS_EmptySet DEF OnePending
<1>4. StateFollowsData /\ DataOK
  BY DEF StateFollowsData, Loads, DataOK, Kept
<1> QED BY <1>1, <1>2, <1>3, <1>4 DEF IInv

-----------------------------------------------------------------------------
(* The calls of the game.                                                  *)

\* A new game state has no name.
LEMMA CreateStep == ASSUME IInv, NEW o \in States, CreateGameState(o) PROVE IInv'
<1> USE Constants DEF IInv, CreateGameState, diskVars, memVars, histVars
<1> DiskOK BY DEF TypeOK, DiskOK, Value, Written
<1>1. TypeOK'
  BY DEF TypeOK
<1>2. CurOK' /\ NamesOK'
  BY DEF CurOK, NamesOK
<1>3. PendingOK'
  BY DEF PendingOK
<1>4. OnePending' /\ GoneOK'
  BY DEF OnePending, GoneOK
<1>5. CommitOK'
  BY DEF CommitOK
<1>6. DataOK' /\ StateFollowsData'
  BY DEF DataOK, Kept, Newest, StateFollowsData, Loads
<1> QED BY <1>1, <1>2, <1>3, <1>4, <1>5, <1>6

\* A save whose state file can be parsed has been committed.
LEMMA GetSaveStep == ASSUME IInv, NEW o \in States, NEW s \in Saves, GetSave(o, s) PROVE IInv'
<1> USE Constants DEF IInv, GetSave, diskVars, memVars, histVars
<1> DiskOK BY DEF TypeOK, DiskOK, Value, Written
<1>1. TypeOK'
  BY DEF TypeOK
<1>2. CurOK' /\ NamesOK'
  BY NothingInEmpty DEF CurOK, NamesOK, StateFollowsData
<1>3. PendingOK'
  BY DEF PendingOK
<1>4. OnePending' /\ GoneOK'
  BY DEF OnePending, GoneOK
<1>5. CommitOK'
  BY DEF CommitOK
<1>6. DataOK' /\ StateFollowsData'
  BY DEF DataOK, Kept, Newest, StateFollowsData, Loads
<1> QED BY <1>1, <1>2, <1>3, <1>4, <1>5, <1>6

\* GetVFS brings back what is promised.
LEMMA GetVFSKeeps ==
    ASSUME TypeOK, DataOK, StateFollowsData, NEW s \in Saves, GetVFS(s),
           UNCHANGED <<installed, deleted>>
    PROVE  DataOK' /\ StateFollowsData'
<1>1. StateFollowsData'
  BY DEF GetVFS, StateFollowsData, Loads
<1>2. DataOK'
  <2>1. \A t \in Saves : Newest(t)' = Newest(t)
    BY DEF Newest
  <2>2. ASSUME Intact, NEW t \in Saves \ deleted PROVE Kept(t)'
    <3>1. installed[t] # <<>> => Newest(t) # 0 /\ Kept(t)
      BY <2>2, NewestIsCommit DEF DataOK
    <3>2. \/ data'[t] = data[t] /\ backup'[t] = backup[t]
          \/ data[t] = 0 /\ data'[t] = backup[t]
      BY DEF GetVFS, NeedsRestore, TypeOK
    <3> QED BY <2>1, <3>1, <3>2 DEF Kept
  <2> QED BY <2>2 DEF DataOK
<1> QED BY <1>1, <1>2

\* The backup that is brought back is the last commit.
LEMMA LoadStep == ASSUME IInv, NEW o \in States, LoadGame(o) PROVE IInv'
<1> USE Constants DEF IInv, LoadGame, GetVFS, NeedsRestore, diskVars, memVars, histVars
<1> DiskOK BY DEF TypeOK, DiskOK, Value, Written
<1>1. TypeOK'
  BY ZenonT(40) DEF TypeOK
<1>2. CurOK' /\ NamesOK'
  BY DEF CurOK, NamesOK
<1>3. PendingOK'
  BY DEF TypeOK, PendingOK
<1>4. OnePending' /\ GoneOK'
  BY DEF TypeOK, OnePending, GoneOK
<1>5. CommitOK'
  BY DEF CommitOK
<1>6. DataOK' /\ StateFollowsData'
  BY NewestIsCommit DEF TypeOK, CommitOK, DataOK, Kept, Newest, StateFollowsData,
     Loads
<1> QED BY <1>1, <1>2, <1>3, <1>4, <1>5, <1>6

\* Nothing is pending yet, or a failed commit can be undone.
LEMMA BeginStep == ASSUME IInv, NEW o \in States, BeginSave(o) PROVE IInv'
<1> USE Constants DEF IInv, BeginSave, GetVFS, NeedsRestore, diskVars, memVars, histVars
<1> DiskOK BY DEF TypeOK, DiskOK, Value, Written
<1>1. TypeOK'
  <2>2. DiskOK'
    BY DEF DiskOK
  <2> QED BY <2>2 DEF TypeOK, DiskOK, Value
<1>2. CurOK' /\ NamesOK'
  BY DEF CurOK, NamesOK
<1>3. PendingOK'
  BY DEF TypeOK, PendingOK
<1>4. OnePending' /\ GoneOK'
  <2>1. IsFiniteSet(pending')
    BY FS_AddElement DEF OnePending
  <2>2. MaxPending <= 1 => pending = {}
    BY FS_EmptySet, FS_CardinalityType DEF OnePending
  <2> QED BY <2>1, <2>2 DEF TypeOK, OnePending, GoneOK
<1>5. CommitOK'
  BY DEF CommitOK
<1>6. DataOK' /\ StateFollowsData'
  <2>1. CASE UNCHANGED diskVars
    BY <2>1 DEF DataOK, Kept, Newest, StateFollowsData, Loads
  <2>2. CASE name[o] \in Saves /\ GetVFS(name[o])
    BY <2>2, GetVFSKeeps
  <2> QED BY <2>1, <2>2
<1> QED BY <1>1, <1>2, <1>3, <1>4, <1>5, <1>6

\* From here on nothing is promised of the save but that it stays deleted.
LEMMA DeleteStep == ASSUME IInv, NEW o \in States, DeleteSave(o) PROVE IInv'
<1> USE Constants DEF IInv, DeleteSave, diskVars, memVars, histVars
<1> DiskOK BY DEF TypeOK, DiskOK, Value, Written
<1>1. TypeOK'
  <2>2. DiskOK'
    BY Values DEF DiskOK
  <2> QED BY <2>2 DEF TypeOK, DiskOK, Value, Written
<1>2. CurOK' /\ NamesOK'
  BY DEF CurOK, NamesOK
<1>3. PendingOK'
  BY DEF TypeOK, PendingOK
<1>4. OnePending' /\ GoneOK'
  <2>1. OnePending'
    BY DEF OnePending
  <2>2. GoneOK'
    BY DEF TypeOK, GoneOK
  <2> QED BY <2>1, <2>2
<1>5. CommitOK'
  BY DEF CommitOK
<1>6. DataOK' /\ StateFollowsData'
  BY DEF TypeOK, DataOK, Kept, Newest, StateFollowsData, Loads
<1> QED BY <1>1, <1>2, <1>3, <1>4, <1>5, <1>6

\* The data of the pending save are in place.
LEMMA ReleaseStep ==
    ASSUME IInv, NEW o \in States, NEW c \in 1..MaxCommits, ReleasePending(o, c)
    PROVE  IInv'
<1> USE Constants DEF IInv, ReleasePending, diskVars, memVars, histVars
<1> DiskOK BY DEF TypeOK, DiskOK, Value, Written
<1>1. TypeOK'
  <2>3. PlaceOK'
    BY DEF TypeOK, PlaceOK, NoCommit
  <2> QED BY <2>3 DEF TypeOK, PlaceOK
<1>2. CurOK' /\ NamesOK'
  <2>1. NamesOK'
    BY DEF NamesOK
  <2>2. CurOK'
    <3>1. CASE UNCHANGED <<pc, cur>>
      BY <3>1 DEF CurOK
    <3>2. ASSUME NEW s \in Saves,
                 cur' = [state |-> o, commit |-> c, save |-> s,
                         isNew |-> name[o] = "new"]
          PROVE  CurOK'
      BY <3>2 DEF CurOK
    <3> QED BY <3>1, <3>2
  <2> QED BY <2>1, <2>2
<1>3. PendingOK'
  BY DEF TypeOK, PendingOK, NoCommit
<1>4. OnePending' /\ GoneOK'
  <2>1. IsFiniteSet(pending')
    BY FS_RemoveElement DEF OnePending
  <2> QED BY <2>1 DEF OnePending, GoneOK
<1>5. CommitOK'
  <2>1. CASE UNCHANGED <<pc, cur>>
    BY <2>1 DEF CommitOK
  <2>2. ASSUME NEW s \in Saves,
               IF name[o] = "new"
               THEN s \notin dir \union deleted /\ installed[s] = <<>>
               ELSE s = name[o],
               cur' = [state |-> o, commit |-> c, save |-> s,
                       isNew |-> name[o] = "new"],
               pc' = "prepare"
        PROVE  CommitOK'
    <3>2. Intact /\ name[o] # "new" /\ s \notin deleted =>
              installed[s] # <<>> /\ data[s] = Newest(s)
      BY <2>2 DEF NamesOK, PendingOK, DataOK, Kept, TypeOK, NoCommit
    <3> QED BY <2>2, <3>2 DEF CommitOK, Newest
  <2> QED BY <2>1, <2>2
<1>6. DataOK' /\ StateFollowsData'
  BY DEF DataOK, Kept, Newest, StateFollowsData, Loads
<1> QED BY <1>1, <1>2, <1>3, <1>4, <1>5, <1>6

-----------------------------------------------------------------------------
(* The commit.                                                             *)

\* The backup of an old save is removed while its data are there.
LEMMA PrepareStep == ASSUME IInv, CommitPrepare PROVE IInv'
<1> USE Constants DEF IInv, CommitPrepare, CreatesDirectory, Abort, diskVars,
                           memVars, histVars
<1> DiskOK BY DEF TypeOK, DiskOK, Value, Written
<1>1. TypeOK'
  <2>1. DirsOK' /\ MemoryOK'
    BY DEF TypeOK, DirsOK, MemoryOK, CurOK
  <2>3. PlaceOK'
    BY DEF PlaceOK, CurOK, NoCommit
  <2> QED BY <2>1, <2>3 DEF TypeOK, DirsOK, PlaceOK
<1>2. CurOK' /\ NamesOK'
  BY DEF CurOK, NamesOK
<1>3. PendingOK'
  BY NewestIsCommit DEF TypeOK, NamesOK, PendingOK, CommitOK
<1>4. OnePending' /\ GoneOK'
  BY DEF TypeOK, OnePending, GoneOK
<1>5. CommitOK'
  BY DEF CommitOK, Newest
<1>6. DataOK' /\ StateFollowsData'
  BY DEF TypeOK, CommitOK, DataOK, Kept, Newest, StateFollowsData, Loads
<1> QED BY <1>1, <1>2, <1>3, <1>4, <1>5, <1>6

\* The data become the backup.
LEMMA MoveOldStep == ASSUME IInv, CommitMoveOld PROVE IInv'
<1> USE Constants DEF IInv, CommitMoveOld, OldKept, Abort, diskVars, memVars, histVars
<1> DiskOK BY DEF TypeOK, DiskOK, Value, Written
<1>1. TypeOK'
  <2>2. DiskOK'
    BY Values DEF DiskOK
  <2> QED BY <2>2 DEF TypeOK, DiskOK, Value
<1>2. CurOK' /\ NamesOK'
  BY DEF CurOK, NamesOK
<1>3. PendingOK'
  BY NewestIsCommit DEF TypeOK, PendingOK, CommitOK
<1>4. OnePending' /\ GoneOK'
  BY DEF TypeOK, OnePending, GoneOK
<1>5. CommitOK'
  BY DEF TypeOK, CurOK, CommitOK, Newest
<1>6. DataOK' /\ StateFollowsData'
  BY DEF TypeOK, CommitOK, DataOK, Kept, Newest, StateFollowsData, Loads
<1> QED BY <1>1, <1>2, <1>3, <1>4, <1>5, <1>6

\* The new data are the last commit.
LEMMA InstalledStep == ASSUME IInv, CommitInstall, pc' = "setSave" PROVE IInv'
<1> USE Constants DEF IInv
<1>1. /\ pc = "install" /\ cur.save \in dir
      /\ data' = [data EXCEPT ![cur.save] = cur.commit]
      /\ installed' = [installed EXCEPT ![cur.save] = Append(@, cur.commit)]
      /\ UNCHANGED <<cur, json, dir, backup, memVars, commits, crashes, deleted>>
  BY DEF CommitInstall, Abort
<1> USE DEF memVars
<1>2. cur.save \in Saves /\ cur.commit \in 1..MaxCommits
  BY <1>1 DEF CurOK
<1>3. /\ installed'[cur.save] \in Seq(1..MaxCommits) /\ installed'[cur.save] # <<>>
      /\ Last(installed'[cur.save]) = cur.commit
      /\ cur.commit \in ToSet(installed'[cur.save])
      /\ ToSet(installed[cur.save]) \subseteq ToSet(installed'[cur.save])
  <2>1. installed[cur.save] \in Seq(1..MaxCommits)
    BY <1>2 DEF TypeOK
  <2>2. installed'[cur.save] = Append(installed[cur.save], cur.commit)
    BY <1>1 DEF TypeOK
  <2> QED BY <1>2, <2>1, <2>2, AppendFacts
<1>4. \A s \in Saves \ {cur.save} :
          installed'[s] = installed[s] /\ data'[s] = data[s]
  BY <1>1
<1>5. data'[cur.save] = cur.commit
  BY <1>1 DEF TypeOK
<1>6. TypeOK'
  <2>1. installed' \in [Saves -> Seq(1..MaxCommits)]
    BY <1>1, <1>3 DEF TypeOK
  <2> QED BY <1>1, <2>1 DEF TypeOK
<1>7. CurOK' /\ NamesOK'
  BY <1>1, <1>4 DEF CurOK, NamesOK
<1>8. PendingOK' /\ OnePending' /\ GoneOK'
  BY <1>1 DEF PendingOK, OnePending, GoneOK
<1>9. CommitOK'
  BY <1>1, <1>3, <1>5 DEF CommitOK, Newest
<1>10. DataOK'
  BY <1>1, <1>3, <1>5 DEF DataOK, Kept, Newest
<1>11. StateFollowsData'
  BY <1>1, <1>3, <1>4 DEF StateFollowsData, Loads
<1> QED BY <1>6, <1>7, <1>8, <1>9, <1>10, <1>11

\* A commit that fails leaves the backup for the restore.
LEMMA NotInstalledStep == ASSUME IInv, CommitInstall, pc' # "setSave" PROVE IInv'
<1> USE Constants DEF IInv
<1>1. /\ pc = "install" /\ UNCHANGED <<diskVars, memVars, histVars>>
      /\ \/ ~cur.isNew /\ pc' = "restore" /\ UNCHANGED cur
         \/ cur.isNew /\ Abort
  BY DEF CommitInstall, StateAfterFailure, diskVars, histVars
<1> USE DEF Abort, diskVars, memVars, histVars
<1>2. TypeOK'
  BY <1>1 DEF TypeOK
<1>3. CurOK' /\ NamesOK'
  BY <1>1 DEF CurOK, NamesOK
<1>4. PendingOK' /\ OnePending' /\ GoneOK'
  BY <1>1 DEF TypeOK, NamesOK, PendingOK, CommitOK, OnePending, GoneOK
<1>5. CommitOK'
  BY <1>1 DEF CommitOK, Newest
<1>6. DataOK' /\ StateFollowsData'
  BY <1>1 DEF DataOK, Kept, Newest, StateFollowsData, Loads
<1> QED BY <1>2, <1>3, <1>4, <1>5, <1>6

\* Either the backup is back or nothing is pending.
LEMMA RestoreStep == ASSUME IInv, CommitRestore PROVE IInv'
<1> USE Constants DEF IInv, CommitRestore, Abort, Intact, diskVars, memVars, histVars
<1> DiskOK BY DEF TypeOK, DiskOK, Value, Written
<1>1. TypeOK'
  <2>2. DiskOK'
    BY Values DEF DiskOK
  <2> QED BY <2>2 DEF TypeOK, DiskOK, Value
<1>2. CurOK' /\ NamesOK'
  BY DEF CurOK, NamesOK
<1>3. PendingOK'
  <2>1. CASE pending' = {}
    BY <2>1 DEF PendingOK
  <2>2. CASE data' = [data EXCEPT ![cur.save] = backup[cur.save]]
    <3>1. cur.save \in Saves
          /\ (Intact /\ cur.save \notin deleted => backup[cur.save] # 0)
      BY NewestIsCommit DEF CurOK, CommitOK
    <3>2. Intact => \A s \in Saves \ deleted : data'[s] # 0 \/ (s # cur.save /\ data[s] = 0)
      BY <2>2, <3>1 DEF TypeOK
    <3> QED BY <3>2 DEF PendingOK
  <2>3. CASE ~Intact
    BY <2>3 DEF PendingOK
  <2> QED BY <2>1, <2>2, <2>3 DEF OnePending
<1>4. OnePending' /\ GoneOK'
  BY DEF TypeOK, OnePending, GoneOK
<1>5. CommitOK'
  BY DEF CommitOK
<1>6. DataOK' /\ StateFollowsData'
  BY DEF TypeOK, CommitOK, DataOK, Kept, Newest, StateFollowsData, Loads
<1> QED BY <1>1, <1>2, <1>3, <1>4, <1>5, <1>6

\* A new save gets its name when its data are there.
LEMMA SetSaveStep == ASSUME IInv, CommitSetSave PROVE IInv'
<1> USE Constants DEF IInv, CommitSetSave, diskVars, memVars, histVars
<1> DiskOK BY DEF TypeOK, DiskOK, Value, Written
<1>1. TypeOK'
  <2>1. DirsOK' /\ MemoryOK'
    BY DEF TypeOK, DirsOK, MemoryOK, CurOK
  <2>2. DiskOK'
    <3>1. json' = json \/ json' = [json EXCEPT ![cur.save] = Torn]
      OBVIOUS
    <3> QED BY <3>1, Values DEF DiskOK
  <2>3. PlaceOK'
    BY DEF TypeOK, PlaceOK
  <2> QED BY ONLY <2>1, <2>2, <2>3 DEF TypeOK, DirsOK, MemoryOK, DiskOK, PlaceOK, Value,
                                       Written
<1>2. CurOK' /\ NamesOK'
  <2>1. CurOK'
    BY DEF CurOK
  <2>2. cur.state \in States /\ installed[cur.save] # <<>>
    BY DEF CurOK, CommitOK
  <2>3. NamesOK'
    BY <2>2 DEF TypeOK, NamesOK
  <2> QED BY <2>1, <2>3
<1>3. PendingOK'
  <2>1. \A o \in States : name'[o] = name[o] \/ name'[o] = cur.save
    BY DEF TypeOK
  <2>2. \A p \in pending : p[1] \in States
    BY DEF TypeOK
  <2>3. cur.save # "unused"
    BY DEF CurOK
  <2> QED BY <2>1, <2>2, <2>3 DEF PendingOK
<1>4. OnePending' /\ GoneOK'
  BY DEF OnePending, GoneOK, CommitOK
<1>5. CommitOK'
  BY DEF CommitOK, Newest
<1>6. DataOK' /\ StateFollowsData'
  <2>1. DataOK'
    BY DEF DataOK, Kept, Newest
  <2>3. StateFollowsData'
    <3>1. CASE json' = json
      BY <3>1 DEF StateFollowsData, Loads
    <3>2. CASE json' = [json EXCEPT ![cur.save] = Torn]
      <4>1. Torn \notin 1 .. MaxCommits
        BY DEF Torn
      <4>2. \A s \in Saves : json'[s] = json[s] \/ json'[s] = Torn
        BY <3>2 DEF TypeOK
      <4> QED BY <4>1, <4>2 DEF StateFollowsData, Loads
    <3> QED BY <3>1, <3>2
  <2> QED BY <2>1, <2>3
<1> QED BY <1>1, <1>2, <1>3, <1>4, <1>5, <1>6

\* The state file describes what has been installed.
LEMMA WriteStateStep == ASSUME IInv, CommitWriteState PROVE IInv'
<1> USE Constants DEF IInv, CommitWriteState, diskVars, memVars, histVars
<1> DiskOK BY DEF TypeOK, DiskOK, Value, Written
<1>1. TypeOK'
  <2>2. DiskOK'
    BY Values DEF DiskOK, CurOK
  <2> QED BY <2>2 DEF TypeOK, DiskOK, Written
<1>2. CurOK' /\ NamesOK'
  BY DEF CurOK, NamesOK
<1>3. PendingOK'
  BY DEF PendingOK
<1>4. OnePending' /\ GoneOK'
  BY DEF OnePending, GoneOK
<1>5. CommitOK'
  BY DEF CommitOK, Newest
<1>6. DataOK' /\ StateFollowsData'
  BY DEF TypeOK, CommitOK, DataOK, Kept, Newest, StateFollowsData, Loads
<1> QED BY <1>1, <1>2, <1>3, <1>4, <1>5, <1>6

\* The backup goes when the new data are there.
LEMMA CleanupStep == ASSUME IInv, CommitCleanup PROVE IInv'
<1> USE Constants DEF IInv, CommitCleanup, Abort, diskVars, memVars, histVars
<1> DiskOK BY DEF TypeOK, DiskOK, Value, Written
<1>1. TypeOK'
  <2>2. DiskOK'
    BY Values DEF DiskOK
  <2> QED BY <2>2 DEF TypeOK, DiskOK, Value
<1>2. CurOK' /\ NamesOK'
  BY DEF CurOK, NamesOK
<1>3. PendingOK'
  BY NewestIsCommit DEF PendingOK, CommitOK
<1>4. OnePending' /\ GoneOK'
  BY DEF TypeOK, OnePending, GoneOK
<1>5. CommitOK'
  BY DEF CommitOK
<1>6. DataOK' /\ StateFollowsData'
  BY DEF TypeOK, CommitOK, DataOK, Kept, Newest, StateFollowsData, Loads
<1> QED BY <1>1, <1>2, <1>3, <1>4, <1>5, <1>6

\* After a restart nothing is pending.
LEMMA CrashStep == ASSUME IInv, Crash PROVE IInv'
<1> USE Constants DEF IInv, Crash, Abort, diskVars, memVars, histVars
<1> DiskOK BY DEF TypeOK, DiskOK, Value, Written
<1>1. TypeOK'
  BY DEF TypeOK
<1>2. CurOK' /\ NamesOK'
  BY DEF CurOK, NamesOK
<1>3. PendingOK'
  BY DEF PendingOK
<1>4. OnePending' /\ GoneOK'
  BY FS_EmptySet DEF OnePending, GoneOK
<1>5. CommitOK'
  BY DEF CommitOK
<1>6. DataOK' /\ StateFollowsData'
  BY DEF DataOK, Kept, Newest, StateFollowsData, Loads
<1> QED BY <1>1, <1>2, <1>3, <1>4, <1>5, <1>6

\* Every step of the game, of a commit and of the system.
LEMMA NextStep == ASSUME IInv, [Next]_vars PROVE IInv'
<1>1. ASSUME NEW o \in States,
             \/ CreateGameState(o) \/ LoadGame(o) \/ BeginSave(o) \/ DeleteSave(o)
             \/ \E s \in Saves : GetSave(o, s)
             \/ \E c \in 1..MaxCommits : ReleasePending(o, c)
      PROVE  IInv'
  <2>1. CASE \E s \in Saves : GetSave(o, s)
    BY <2>1, GetSaveStep
  <2> QED
    BY <1>1, <2>1, CreateStep, LoadStep, BeginStep, DeleteStep, ReleaseStep
<1>2. CASE UNCHANGED vars
  <2>1. UNCHANGED <<diskVars, memVars, pc, cur, histVars>>
    BY <1>2 DEF vars
  <2> USE <2>1 DEF IInv, diskVars, memVars, histVars
  <2>2. TypeOK' /\ CurOK' /\ NamesOK'
    BY DEF TypeOK, CurOK, NamesOK
  <2>3. OnePending' /\ GoneOK' /\ StateFollowsData' /\ PendingOK'
    BY DEF OnePending, GoneOK, StateFollowsData, Loads, PendingOK
  <2>4. CommitOK' /\ DataOK'
    BY DEF CommitOK, DataOK, Kept, Newest
  <2> QED BY <2>2, <2>3, <2>4
<1> QED
  BY <1>1, <1>2, PrepareStep, MoveOldStep, InstalledStep, NotInstalledStep,
     RestoreStep, SetSaveStep, WriteStateStep, CleanupStep, CrashStep DEF Next

\* The invariant holds in every state.
THEOREM SavesInvariant == Spec => []IInv
<1>1. Init => IInv
  BY InitIInv
<1>2. IInv /\ [Next]_vars => IInv'
  BY NextStep
<1> QED BY <1>1, <1>2, PTL DEF Spec

\* At every moment the last commit of a save that has not been deleted is in its
\* data directory, or in the backup that GetVFS brings back when there are no
\* data (run saves).
THEOREM CommitsSurvive == ASSUME Intact PROVE Spec => []CommittedDataSurvives
<1>1. IInv => CommittedDataSurvives
  BY DEF IInv, DataOK, Kept, Newest, CommittedDataSurvives
<1> QED BY <1>1, SavesInvariant, PTL

\* The state file of a save never describes a commit that has not been
\* installed (run saves).
THEOREM StatesFollowData == Spec => []StateFollowsData
<1>1. IInv => StateFollowsData
  BY DEF IInv
<1> QED BY <1>1, SavesInvariant, PTL

\* Where nothing is left nothing comes back: GetVFS finds no backup, a commit
\* finds no directory to install into or no data to move.
LEMMA GoneStaysGone ==
    ASSUME IInv, [Next]_vars, NEW s \in deleted \ dir
    PROVE  s \notin dir' \union saves' /\ data'[s] = 0 /\ backup'[s] = 0
<1> USE DEF IInv
<1>1. s \in Saves /\ s \notin saves /\ data[s] = 0 /\ backup[s] = 0
  BY DEF TypeOK, GoneOK
<1>2. ASSUME NEW o \in States,
             \/ CreateGameState(o) \/ LoadGame(o) \/ BeginSave(o) \/ DeleteSave(o)
             \/ \E r \in Saves : GetSave(o, r)
             \/ \E c \in 1..MaxCommits : ReleasePending(o, c)
      PROVE  s \notin dir' \union saves' /\ data'[s] = 0 /\ backup'[s] = 0
  BY <1>1, <1>2 DEF CreateGameState, LoadGame, BeginSave, DeleteSave, GetSave,
     ReleasePending, GetVFS, NeedsRestore, TypeOK, diskVars, memVars
<1>3. CASE \/ CommitPrepare \/ CommitMoveOld \/ CommitInstall \/ CommitRestore
           \/ CommitSetSave \/ CommitWriteState \/ CommitCleanup
  BY <1>1, <1>3 DEF CommitPrepare, CreatesDirectory, CommitMoveOld, OldKept,
     CommitInstall, CommitRestore, CommitSetSave, CommitWriteState, CommitCleanup,
     CommitOK, TypeOK, memVars
<1>4. CASE Crash \/ UNCHANGED vars
  BY <1>1, <1>4 DEF Crash, vars, diskVars, memVars
<1> QED BY <1>2, <1>3, <1>4 DEF Next

\* A commit of a save whose directory has been deleted does not bring it back,
\* nor does a restart (run saves).
THEOREM NothingComesBack == Spec => DeletedStaysDeleted
<1>1. IInv /\ [Next]_vars =>
          [\A s \in deleted \ dir :
              s \notin dir' \union saves' /\ data'[s] = 0 /\ backup'[s] = 0]_vars
  BY GoneStaysGone
<1> QED BY <1>1, SavesInvariant, PTL DEF Spec, DeletedStaysDeleted

-----------------------------------------------------------------------------
(* The store.  What a game that loads a save finds is a function of what    *)
(* has been installed and deleted (ContentIs), so that only the steps which *)
(* change these two change what is in the store.                            *)

\* A commit has a number of its own.
NumbersOK ==
    /\ \A p \in pending : p[2] \in 1..commits
    /\ \A p, q \in pending : p[2] = q[2] => p = q
    /\ pc # "idle" => /\ cur.commit \in 1..commits
                      /\ \A p \in pending : p[2] # cur.commit

\* The save a commit works on is that of its game state, until SetSave.
BoundOK ==
    pc \in {"prepare", "moveOld", "install", "restore", "setSave"} =>
        name[cur.state] = IF cur.isNew THEN "new" ELSE cur.save

\* Of a save that no commit has reached there is nothing.
NothingOK == \A s \in Saves : installed[s] = <<>> => data[s] = 0 /\ backup[s] = 0

StoreInv == IInv /\ NumbersOK /\ BoundOK /\ NothingOK

\* The numbers of commits stay different.
LEMMA NumbersStep == ASSUME StoreInv, [Next]_vars PROVE NumbersOK'
<1> USE Constants DEF StoreInv, IInv
<1>1. commits \in Nat /\ pending \subseteq States \X (1..MaxCommits)
  BY DEF TypeOK
<1>2. CASE UNCHANGED <<pending, commits>> /\ (pc' = "idle" \/ (pc # "idle" /\ cur' = cur))
  BY <1>2 DEF NumbersOK
<1>3. CASE pending' = {} /\ pc' = "idle"
  BY <1>3 DEF NumbersOK
<1>4. ASSUME NEW o \in States, BeginSave(o) PROVE NumbersOK'
  <2>1. /\ pc = "idle" /\ pc' = "idle" /\ commits' = commits + 1
        /\ pending' = pending \union {<<o, commits + 1>>}
    BY <1>4 DEF BeginSave
  <2>2. \A p \in pending' : p \in pending \/ (p[2] = commits + 1 /\ p = <<o, commits + 1>>)
    BY <2>1
  <2>3. \A p \in pending : p[2] \in 1..commits /\ p[2] # commits + 1
    BY <1>1 DEF NumbersOK
  <2> QED BY <1>1, <2>1, <2>2, <2>3 DEF NumbersOK
<1>5. ASSUME NEW o \in States, NEW c \in 1..MaxCommits, ReleasePending(o, c)
      PROVE  NumbersOK'
  <2>1. /\ pc = "idle" /\ <<o, c>> \in pending /\ pending' = pending \ {<<o, c>>}
        /\ commits' = commits /\ (pc' = "idle" \/ cur'.commit = c)
    BY <1>5 DEF ReleasePending, histVars
  <2>2. c \in 1..commits /\ \A p \in pending' : p[2] # c
    <3>1. PICK r : r = <<o, c>>
      OBVIOUS
    <3>2. r[2] = c
      BY <3>1
    <3> QED BY <2>1, <3>1, <3>2 DEF NumbersOK
  <2> QED BY <2>1, <2>2 DEF NumbersOK
<1>6. CASE \/ CommitPrepare \/ CommitMoveOld \/ CommitInstall \/ CommitRestore
           \/ CommitSetSave \/ CommitWriteState \/ CommitCleanup
  BY <1>2, <1>6 DEF CommitPrepare, CommitMoveOld, CommitInstall, CommitRestore,
     CommitSetSave, CommitWriteState, CommitCleanup, Abort, memVars, histVars
<1>7. CASE Crash
  BY <1>3, <1>7 DEF Crash, Abort
<1>8. ASSUME NEW o \in States,
             \/ CreateGameState(o) \/ LoadGame(o) \/ DeleteSave(o)
             \/ \E s \in Saves : GetSave(o, s)
      PROVE  NumbersOK'
  BY <1>2, <1>8 DEF CreateGameState, LoadGame, DeleteSave, GetSave, memVars, histVars
<1>9. CASE UNCHANGED vars
  BY <1>2, <1>9 DEF vars, memVars, histVars
<1> QED BY <1>4, <1>5, <1>6, <1>7, <1>8, <1>9 DEF Next

\* No call of the game comes while a commit is under way.
LEMMA BoundStep == ASSUME StoreInv, [Next]_vars PROVE BoundOK'
<1> USE Constants DEF StoreInv, IInv
<1>1. CASE pc' \in {"idle", "writeState", "cleanup"}
  BY <1>1 DEF BoundOK
<1>2. CASE UNCHANGED <<name, cur>> /\ pc \in {"prepare", "moveOld", "install", "restore", "setSave"}
  BY <1>2 DEF BoundOK
<1>3. ASSUME NEW o \in States, NEW c \in 1..MaxCommits, ReleasePending(o, c)
      PROVE  BoundOK'
  <2>1. CASE UNCHANGED <<pc, cur>>
    BY <1>1, <1>3, <2>1 DEF ReleasePending
  <2>2. ASSUME NEW s \in Saves,
               name[o] # "new" => s = name[o],
               cur' = [state |-> o, commit |-> c, save |-> s, isNew |-> name[o] = "new"]
        PROVE  BoundOK'
    BY <1>3, <2>2 DEF ReleasePending, BoundOK
  <2> QED BY <1>3, <2>1, <2>2 DEF ReleasePending
<1>4. CASE CommitPrepare \/ CommitMoveOld \/ CommitInstall
  BY <1>1, <1>2, <1>4 DEF CommitPrepare, CommitMoveOld, CommitInstall, Abort, memVars
<1>5. CASE CommitRestore \/ CommitSetSave \/ CommitWriteState \/ CommitCleanup \/ Crash
  BY <1>1, <1>5 DEF CommitRestore, CommitSetSave, CommitWriteState, CommitCleanup,
     Crash, Abort
<1>6. ASSUME NEW o \in States,
             \/ CreateGameState(o) \/ LoadGame(o) \/ BeginSave(o) \/ DeleteSave(o)
             \/ \E s \in Saves : GetSave(o, s)
      PROVE  BoundOK'
  BY <1>1, <1>6 DEF CreateGameState, LoadGame, BeginSave, DeleteSave, GetSave
<1>7. CASE UNCHANGED vars
  BY <1>1, <1>2, <1>7 DEF vars, memVars, TypeOK
<1> QED BY <1>3, <1>4, <1>5, <1>6, <1>7 DEF Next

\* What is on disk of a save comes from a commit of that save.
LEMMA NothingStep == ASSUME StoreInv, [Next]_vars PROVE NothingOK'
<1> USE Constants DEF StoreInv, IInv
<1>1. \A s \in Saves : installed[s] = <<>> => data[s] = 0 /\ backup[s] = 0
  BY DEF NothingOK
<1>2. CASE UNCHANGED <<data, backup, installed>>
  BY <1>1, <1>2 DEF NothingOK
<1>3. ASSUME NEW s \in Saves, GetVFS(s), UNCHANGED installed PROVE NothingOK'
  BY <1>1, <1>3 DEF GetVFS, NeedsRestore, TypeOK, NothingOK
<1>4. ASSUME NEW o \in States, DeleteSave(o) PROVE NothingOK'
  BY <1>1, <1>4 DEF DeleteSave, TypeOK, NothingOK
<1>5. CASE CommitInstall
  <2>1. CASE UNCHANGED <<data, installed>>
    BY <1>1, <1>5, <2>1 DEF CommitInstall, NothingOK
  <2>2. CASE pc' = "setSave"
    <3>1. /\ cur.save \in Saves /\ backup' = backup
          /\ data' = [data EXCEPT ![cur.save] = cur.commit]
          /\ installed' = [installed EXCEPT ![cur.save] = Append(@, cur.commit)]
      BY <1>5, <2>2 DEF CommitInstall, CurOK, Abort
    <3>2. /\ installed'[cur.save] # <<>>
          /\ \A s \in Saves \ {cur.save} : installed'[s] = installed[s] /\ data'[s] = data[s]
      <4>1. PICK q : q = installed[cur.save]
        OBVIOUS
      <4>2. q \in Seq(1..MaxCommits) /\ cur.commit \in 1..MaxCommits
        BY <1>5, <3>1, <4>1 DEF TypeOK, CurOK, CommitInstall
      <4>3. Append(q, cur.commit) # <<>>
        BY <4>2, AppendFacts
      <4> QED BY <3>1, <4>1, <4>3 DEF TypeOK
    <3> QED BY <1>1, <3>1, <3>2 DEF NothingOK
  <2> QED BY <1>5, <2>1, <2>2 DEF CommitInstall
<1>6. CASE CommitPrepare \/ CommitMoveOld \/ CommitRestore \/ CommitCleanup
  <2>1. cur.save \in Saves /\ installed' = installed
    BY <1>6 DEF CommitPrepare, CommitMoveOld, CommitRestore, CommitCleanup, CurOK, histVars
  <2>2. \A s \in Saves \ {cur.save} : data'[s] = data[s] /\ backup'[s] = backup[s]
    BY <1>6 DEF CommitPrepare, CommitMoveOld, OldKept, CommitRestore, CommitCleanup, TypeOK
  <2>3. data[cur.save] = 0 /\ backup[cur.save] = 0 =>
            data'[cur.save] = 0 /\ backup'[cur.save] = 0
    BY <1>6, <2>1 DEF CommitPrepare, CommitMoveOld, OldKept, CommitRestore, CommitCleanup, TypeOK
  <2> QED BY <1>1, <2>1, <2>2, <2>3 DEF NothingOK
<1>7. CASE CommitSetSave \/ CommitWriteState \/ Crash \/ UNCHANGED vars
  BY <1>2, <1>7 DEF CommitSetSave, CommitWriteState, Crash, vars, diskVars, histVars
<1>8. ASSUME NEW o \in States,
             \/ CreateGameState(o) \/ LoadGame(o) \/ BeginSave(o)
             \/ \E s \in Saves : GetSave(o, s)
             \/ \E c \in 1..MaxCommits : ReleasePending(o, c)
      PROVE  NothingOK'
  BY <1>2, <1>3, <1>8 DEF CreateGameState, LoadGame, BeginSave, GetSave, ReleasePending,
     diskVars, histVars
<1> QED BY <1>4, <1>5, <1>6, <1>7, <1>8 DEF Next

LEMMA StoreBegins == Init => StoreInv
<1> SUFFICES ASSUME Init PROVE StoreInv
  OBVIOUS
<1>1. NumbersOK /\ BoundOK /\ NothingOK
  BY DEF Init, NumbersOK, BoundOK, NothingOK
<1> QED BY <1>1, InitIInv DEF StoreInv

\* Every step keeps what the mapping needs.
LEMMA StoreStep == ASSUME StoreInv, [Next]_vars PROVE StoreInv'
BY NextStep, NumbersStep, BoundStep, NothingStep DEF StoreInv

\* What has been installed last.
Latest ==
    [s \in Saves |-> IF s \in deleted \/ installed[s] = <<>> THEN 0 ELSE Newest(s)]

\* What is found of a save is what was installed last.
LEMMA ContentIs == StoreInv /\ Intact => Content = Latest
<1> SUFFICES ASSUME StoreInv, Intact PROVE Content = Latest
  OBVIOUS
<1>1. ASSUME NEW s \in Saves
      PROVE  Found(s) = IF s \in deleted \/ installed[s] = <<>> THEN 0 ELSE Newest(s)
  <2>1. installed[s] = <<>> => data[s] = 0 /\ backup[s] = 0
    BY DEF StoreInv, NothingOK
  <2>2. s \notin deleted => Kept(s)
    BY DEF StoreInv, IInv, DataOK
  <2>3. installed[s] # <<>> => Newest(s) # 0
    BY NewestIsCommit, Constants DEF StoreInv, IInv
  <2> QED BY <2>1, <2>2, <2>3 DEF Found, Kept
<1> QED BY <1>1 DEF Content, Latest

\* After a step as before it.
LEMMA ContentIsThen == (StoreInv /\ Intact => Content = Latest)'
BY ContentIs, PTL

\* Where nothing is installed or deleted, a reader finds the same.
LEMMA ContentStays ==
    ASSUME StoreInv, StoreInv', Intact, UNCHANGED <<installed, deleted>>
    PROVE  Content' = Content
<1>1. \A s \in Saves : Newest(s)' = Newest(s)
  BY DEF Newest
<1>2. Latest' = Latest
  BY <1>1 DEF Latest
<1>3. Content = Latest /\ Content' = Latest'
  BY ContentIs, ContentIsThen DEF Intact
<1> QED BY <1>2, <1>3

\* Between the calls, and in all but one place of a commit, the save of a game
\* state is the one that it names.
LEMMA BoundIs == pc # "setSave" => Bound = [o \in States |-> name[o]]
BY DEF Bound

\* The calls of the game.
LEMMA GameSteps ==
    ASSUME StoreInv, StoreInv', Intact, NEW o \in States,
           \/ CreateGameState(o) \/ LoadGame(o) \/ BeginSave(o) \/ DeleteSave(o)
           \/ \E s \in Saves : GetSave(o, s)
           \/ \E c \in 1..MaxCommits : ReleasePending(o, c)
    PROVE  [Store!Next]_(Store!vars)
<1>1. pc = "idle" /\ name \in [States -> Saves \union {"new", "unused"}]
  BY DEF CreateGameState, LoadGame, BeginSave, DeleteSave, GetSave, ReleasePending,
     StoreInv, IInv, TypeOK
<1>2. Open = pending /\ Bound = name
  BY <1>1, BoundIs DEF Open
<1>3. pc' = "idle" => Open' = pending' /\ Bound' = [u \in States |-> name'[u]]
  BY DEF Open, Bound
<1>4. CASE CreateGameState(o)
  <2>1. /\ name[o] = "unused" /\ name' = [name EXCEPT ![o] = "new"]
        /\ UNCHANGED <<pending, pc, installed, deleted, commits>>
    BY <1>4 DEF CreateGameState, histVars
  <2>2. Content' = Content
    BY <2>1, ContentStays
  <2>3. Bound' = [Bound EXCEPT ![o] = "new"] /\ Open' = Open
    BY <1>1, <1>2, <1>3, <2>1
  <2>4. Store!Create(o)
    BY <1>2, <2>1, <2>2, <2>3 DEF Store!Create
  <2> QED BY <2>4 DEF Store!Next
<1>5. CASE \E s \in Saves : GetSave(o, s)
  <2>1. PICK s \in Saves : GetSave(o, s)
    BY <1>5
  <2>2. /\ name[o] = "unused" /\ Loads(s) /\ name' = [name EXCEPT ![o] = s]
        /\ UNCHANGED <<pending, pc, installed, deleted, commits>>
    BY <2>1 DEF GetSave, histVars
  <2>3. Content[s] # 0 \/ s \in deleted
    <3>1. s \notin deleted => installed[s] # <<>>
      BY <2>2, NothingInEmpty DEF StoreInv, IInv, StateFollowsData
    <3>2. installed[s] # <<>> => Newest(s) # 0
      BY NewestIsCommit, Constants DEF StoreInv, IInv
    <3> QED BY <3>1, <3>2, ContentIs DEF Latest
  <2>4. Content' = Content
    BY <2>2, ContentStays
  <2>5. Bound' = [Bound EXCEPT ![o] = s] /\ Open' = Open
    BY <1>1, <1>2, <1>3, <2>2
  <2>6. Store!Load(o, s)
    BY <1>2, <2>2, <2>3, <2>4, <2>5 DEF Store!Load
  <2> QED BY <2>6 DEF Store!Next
<1>6. CASE LoadGame(o)
  <2>1. UNCHANGED <<name, pending, pc, installed, deleted, commits>>
    BY <1>6 DEF LoadGame, memVars, histVars
  <2>2. Content' = Content
    BY <2>1, ContentStays
  <2>3. Bound' = Bound /\ Open' = Open
    BY <1>1, <1>2, <1>3, <2>1
  <2> QED BY <2>1, <2>2, <2>3 DEF Store!vars
<1>7. CASE BeginSave(o)
  <2>1. /\ name[o] = "new" \/ name[o] \in Saves
        /\ commits' = commits + 1 /\ pending' = pending \union {<<o, commits + 1>>}
        /\ UNCHANGED <<name, pc, installed, deleted>>
    BY <1>7 DEF BeginSave
  <2>2. Content' = Content
    BY <2>1, ContentStays
  <2>3. Bound' = Bound /\ Open' = Open \union {<<o, commits + 1>>}
    BY <1>1, <1>2, <1>3, <2>1
  <2>4. Store!Begin(o)
    BY <1>2, <2>1, <2>2, <2>3 DEF Store!Begin
  <2> QED BY <2>4 DEF Store!Next
<1>8. CASE DeleteSave(o)
  <2>1. /\ name[o] \in saves /\ deleted' = deleted \union {name[o]}
        /\ UNCHANGED <<name, pending, pc, installed, commits>>
    BY <1>8 DEF DeleteSave
  <2>2. name[o] \in Saves
    BY <2>1 DEF StoreInv, IInv, TypeOK
  <2>3. Content' = [Content EXCEPT ![name[o]] = 0]
    <3>1. Content = Latest /\ Content' = Latest'
      BY ContentIs, ContentIsThen DEF Intact
    <3>2. \A s \in Saves : Newest(s)' = Newest(s)
      BY <2>1 DEF Newest
    <3> QED BY <2>1, <2>2, <3>1, <3>2 DEF Latest
  <2>4. Bound' = Bound /\ Open' = Open
    BY <1>1, <1>2, <1>3, <2>1
  <2>5. Store!Delete(o)
    BY <1>2, <2>1, <2>2, <2>3, <2>4 DEF Store!Delete
  <2> QED BY <2>5 DEF Store!Next
<1>9. ASSUME NEW c \in 1..MaxCommits, ReleasePending(o, c)
      PROVE  [Store!Next]_(Store!vars)
  <2>1. /\ <<o, c>> \in pending /\ pending' = pending \ {<<o, c>>}
        /\ UNCHANGED <<name, installed, deleted, commits>>
        /\ \/ pc' = "prepare" /\ cur'.state = o /\ cur'.commit = c
           \/ pc' = "idle"
    BY <1>1, <1>9 DEF ReleasePending, histVars
  <2>2. Content' = Content
    BY <2>1, ContentStays
  <2>3. Bound' = Bound
    BY <1>1, <1>2, <2>1 DEF Bound
  <2>4. CASE pc' = "prepare" /\ cur'.state = o /\ cur'.commit = c
    <3>1. Open' = pending' \union {<<o, c>>}
      BY <2>4 DEF Open
    <3>2. Open' = Open
      BY <1>2, <2>1, <3>1
    <3> QED BY <2>1, <2>2, <2>3, <3>2 DEF Store!vars
  <2>5. CASE pc' = "idle"
    <3>1. Open' = Open \ {<<o, c>>}
      BY <1>2, <1>3, <2>1, <2>5
    <3>2. Store!Fail(o, c)
      BY <1>2, <2>1, <2>2, <2>3, <3>1 DEF Store!Fail
    <3>3. c \in 1..commits
      <4>1. PICK p : p = <<o, c>>
        OBVIOUS
      <4> QED BY <2>1, <4>1 DEF StoreInv, NumbersOK
    <3> QED BY <3>2, <3>3 DEF Store!Next
  <2> QED BY <2>1, <2>4, <2>5
<1> QED BY <1>4, <1>5, <1>6, <1>7, <1>8, <1>9

\* What a commit that is given up, or goes on, does to the store: nothing, but
\* that it is no longer open.
LEMMA QuietSteps ==
    ASSUME StoreInv, StoreInv', Intact,
           UNCHANGED <<name, pending, installed, deleted, commits>>,
           pc \in {"prepare", "moveOld", "install"},
           \/ pc' \in {"prepare", "moveOld", "install"} /\ cur' = cur
           \/ pc' \in {"idle", "restore"}
    PROVE  [Store!Next]_(Store!vars)
<1>1. Content' = Content
  BY ContentStays
<1>2. Bound' = Bound
  BY DEF Bound
<1>3. Open = pending \union {<<cur.state, cur.commit>>}
  BY DEF Open
<1>4. CASE pc' \in {"prepare", "moveOld", "install"} /\ cur' = cur
  <2>1. Open' = Open
    BY <1>3, <1>4 DEF Open
  <2> QED BY <1>1, <1>2, <2>1 DEF Store!vars
<1>5. CASE pc' \in {"idle", "restore"}
  <2>1. PICK o, c : o = cur.state /\ c = cur.commit
    OBVIOUS
  <2>2. o \in States /\ c \in 1..commits /\ <<o, c>> \notin pending
    <3>1. PICK p : p = <<o, c>>
      OBVIOUS
    <3>2. p[2] = c
      BY <3>1
    <3> QED BY <2>1, <3>1, <3>2 DEF StoreInv, NumbersOK, IInv, CurOK
  <2>3. Open' = pending
    BY <1>5 DEF Open
  <2>4. Open' = Open \ {<<o, c>>} /\ <<o, c>> \in Open
    BY <1>3, <2>1, <2>2, <2>3
  <2>5. Store!Fail(o, c)
    BY <1>1, <1>2, <2>4 DEF Store!Fail
  <2> QED BY <2>2, <2>5 DEF Store!Next
<1> QED BY <1>4, <1>5

\* The rename of the pending directory is the commit.
LEMMA InstalledCommits ==
    ASSUME StoreInv, StoreInv', Intact, CommitInstall, pc' = "setSave"
    PROVE  [Store!Next]_(Store!vars)
<1>1. PICK o, c, s : o = cur.state /\ c = cur.commit /\ s = cur.save
  OBVIOUS
<1>2. /\ pc = "install" /\ cur' = cur
      /\ installed' = [installed EXCEPT ![s] = Append(@, c)]
      /\ UNCHANGED <<name, pending, commits, deleted>>
  BY <1>1 DEF CommitInstall, Abort, memVars
<1>3. /\ o \in States /\ c \in 1..MaxCommits /\ s \in Saves
      /\ name \in [States -> Saves \union {"new", "unused"}]
      /\ installed \in [Saves -> Seq(1..MaxCommits)]
  BY <1>1, <1>2 DEF StoreInv, IInv, CurOK, TypeOK
<1>4. c \in 1..commits /\ <<o, c>> \notin pending
  <2>1. PICK p : p = <<o, c>>
    OBVIOUS
  <2>2. p[2] = c
    BY <2>1
  <2> QED BY <1>1, <1>2, <2>1, <2>2 DEF StoreInv, NumbersOK
<1>5. <<o, c>> \in Open /\ Open' = Open \ {<<o, c>>}
  <2>1. Open = pending \union {<<o, c>>} /\ Open' = pending
    BY <1>1, <1>2 DEF Open
  <2> QED BY <1>4, <2>1
<1>6. Bound' = [Bound EXCEPT ![o] = s]
  BY <1>1, <1>2, <1>3 DEF Bound
<1>7. Content = Latest
  BY ContentIs
<1>8. Content' = IF s \in deleted THEN Content ELSE [Content EXCEPT ![s] = c]
  <2>1. Content' = Latest'
    BY ContentIsThen DEF Intact
  <2>2. \A t \in Saves \ {s} : installed'[t] = installed[t] /\ Newest(t)' = Newest(t)
    BY <1>2, <1>3 DEF Newest
  <2>3. installed'[s] # <<>> /\ Newest(s)' = c
    <3>1. PICK q \in Seq(1..MaxCommits) : q = installed[s]
      BY <1>3
    <3>2. Append(q, c) # <<>> /\ Last(Append(q, c)) = c
      BY <1>3, Constants, AppendFacts
    <3> QED BY <1>2, <1>3, <3>1, <3>2 DEF Newest
  <2> QED BY <1>2, <1>3, <1>7, <2>1, <2>2, <2>3 DEF Latest
<1>9. IF Bound[o] = "new" THEN Content[s] = 0 /\ s \notin deleted ELSE s = Bound[o]
  <2>1. Bound[o] = IF cur.isNew THEN "new" ELSE s
    BY <1>1, <1>2, <1>3 DEF Bound, StoreInv, BoundOK
  <2>2. cur.isNew => installed[s] = <<>> /\ s \notin deleted
    BY <1>1, <1>2 DEF StoreInv, IInv, CommitOK
  <2>3. s # "new"
    BY <1>3, Constants
  <2> QED BY <1>3, <1>7, <2>1, <2>2, <2>3 DEF Latest
<1>10. Store!Commit(o, c, s)
  BY <1>2, <1>5, <1>6, <1>8, <1>9 DEF Store!Commit
<1> QED BY <1>3, <1>4, <1>10 DEF Store!Next

\* When the data are there or back, nothing of the store changes.
LEMMA LaterSteps ==
    ASSUME StoreInv, StoreInv', Intact,
           CommitRestore \/ CommitSetSave \/ CommitWriteState \/ CommitCleanup
    PROVE  [Store!Next]_(Store!vars)
<1>1. /\ UNCHANGED <<pending, installed, deleted, commits>>
      /\ pc \in {"restore", "setSave", "writeState", "cleanup"}
      /\ pc' \in {"idle", "writeState", "cleanup"}
  BY DEF CommitRestore, CommitSetSave, CommitWriteState, CommitCleanup, Abort, memVars,
     histVars
<1>2. Content' = Content
  BY <1>1, ContentStays
<1>3. Open' = Open
  BY <1>1 DEF Open
<1>4. Bound' = Bound
  <2>1. Bound' = [o \in States |-> name'[o]]
    BY <1>1 DEF Bound
  <2>2. CASE CommitSetSave
    <3>1. /\ pc = "setSave" /\ cur.state \in States
          /\ name' = IF cur.isNew THEN [name EXCEPT ![cur.state] = cur.save] ELSE name
          /\ name \in [States -> Saves \union {"new", "unused"}]
      BY <2>2 DEF CommitSetSave, StoreInv, IInv, CurOK, TypeOK
    <3>2. name'[cur.state] = cur.save
      BY <3>1 DEF StoreInv, BoundOK
    <3>3. \A o \in States : o # cur.state => name'[o] = name[o]
      BY <3>1
    <3> QED BY <2>1, <3>1, <3>2, <3>3 DEF Bound
  <2>3. CASE CommitRestore \/ CommitWriteState \/ CommitCleanup
    <3>1. pc # "setSave" /\ name' = name
      BY <2>3 DEF CommitRestore, CommitWriteState, CommitCleanup, memVars
    <3> QED BY <2>1, <3>1, BoundIs
  <2> QED BY <2>2, <2>3
<1> QED BY <1>1, <1>2, <1>3, <1>4 DEF Store!vars

\* What is forgotten at a restart has not happened.
LEMMA CrashRestarts ==
    ASSUME StoreInv, StoreInv', Intact, Crash
    PROVE  [Store!Next]_(Store!vars)
<1>1. /\ pc' = "idle" /\ pending' = {} /\ name' = [o \in States |-> "unused"]
      /\ UNCHANGED <<installed, deleted, commits>>
  BY DEF Crash, Abort
<1>2. Content' = Content
  BY <1>1, ContentStays
<1>3. Open' = {} /\ Bound' = [o \in States |-> "unused"]
  BY <1>1 DEF Open, Bound
<1>4. Store!Restart
  BY <1>1, <1>2, <1>3 DEF Store!Restart
<1> QED BY <1>4 DEF Store!Next

\* Each step of the saves is one of the store, or none.
LEMMA StepOfStore ==
    ASSUME StoreInv, StoreInv', Intact, [Next]_vars
    PROVE  [Store!Next]_(Store!vars)
<1>1. CASE CommitPrepare \/ CommitMoveOld
  <2>1. /\ UNCHANGED <<name, pending, installed, deleted, commits>>
        /\ pc \in {"prepare", "moveOld"}
        /\ (pc' \in {"moveOld", "install"} /\ cur' = cur) \/ pc' = "idle"
    BY <1>1 DEF CommitPrepare, CommitMoveOld, Abort, memVars, histVars
  <2> QED BY <2>1, QuietSteps
<1>2. CASE CommitInstall
  <2>1. pc' # "setSave" =>
            /\ UNCHANGED <<name, pending, installed, deleted, commits>>
            /\ pc = "install" /\ pc' \in {"idle", "restore"}
    BY <1>2 DEF CommitInstall, Abort, memVars, histVars
  <2> QED BY <1>2, <2>1, QuietSteps, InstalledCommits
<1>3. CASE UNCHANGED vars
  <2>1. UNCHANGED <<name, pending, installed, deleted, commits, pc, cur>>
    BY <1>3 DEF vars, memVars, histVars
  <2>2. Content' = Content /\ Bound' = Bound /\ Open' = Open
    BY <2>1, ContentStays DEF Bound, Open
  <2> QED BY <2>1, <2>2 DEF Store!vars
<1> QED BY <1>1, <1>2, <1>3, GameSteps, LaterSteps, CrashRestarts DEF Next

\* The saves begin as an empty store.
LEMMA EmptyStore == ASSUME Init, Intact PROVE Store!Init
<1>1. /\ deleted = {} /\ commits = 0 /\ pending = {} /\ pc = "idle"
      /\ \A s \in Saves : data[s] = 0 /\ backup[s] = 0
      /\ \A o \in States : name[o] = "unused"
  BY DEF Init
<1>2. Content = [s \in Saves |-> 0]
  BY <1>1 DEF Content, Found
<1>3. Bound = [o \in States |-> "unused"] /\ Open = {}
  BY <1>1 DEF Bound, Open
<1> QED BY <1>1, <1>2, <1>3 DEF Store!Init

\* SaveManager implements SaveStore, if one save is pending at a time or
\* restores do not fail: whatever call fails and wherever the process dies, a
\* commit happens at once or not at all, and goes to the right save (run saves).
THEOREM SavesAreAStore == ASSUME Intact PROVE Spec => ImplementsStore
<1>1. Init => Store!Init
  BY EmptyStore
<1>2. Init => StoreInv
  BY StoreBegins
<1>3. StoreInv /\ [Next]_vars => StoreInv'
  BY StoreStep
<1>4. StoreInv /\ StoreInv' /\ [Next]_vars => [Store!Next]_(Store!vars)
  BY StepOfStore
<1> QED BY <1>1, <1>2, <1>3, <1>4, PTL DEF Spec, Store!Spec, ImplementsStore
=============================================================================
