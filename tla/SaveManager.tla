----------------------------- MODULE SaveManager -----------------------------
(***************************************************************************)
(* Saved games: SaveManager, GameState and PendingSave of                  *)
(* core.impl/MGDFSaveManagerImpl.cpp, and the directories they keep.  A    *)
(* game writes into a pending directory; releasing it commits: the old     *)
(* data directory is renamed to backup, the pending directory is renamed   *)
(* to data, gameState.json is written and the backup is removed.           *)
(*                                                                         *)
(* The calls come one at a time, from the sim thread.  What interferes is  *)
(* the file system, any call of which may fail, and a crash between any    *)
(* two calls.  The contents of a save are the number of its commit.        *)
(***************************************************************************)
EXTENDS Naturals, Sequences, SequencesExt, FiniteSets

CONSTANTS
    Saves,          \* the save names GuidString makes up
    States,         \* the GameState objects of one run of the process
    MaxCommits,     \* bound: how many pending saves are begun
    MaxPending,     \* bound: how many are pending at the same time
    MaxCrashes,     \* bound: how often the process crashes
    RestoreMayFail  \* the rename that undoes a failed commit may fail

ASSUME SavesAssumption ==
    /\ {MaxCommits, MaxPending, MaxCrashes} \subseteq Nat
    /\ RestoreMayFail \in BOOLEAN
    /\ Saves \intersect {"new", "unused", "none"} = {}

VARIABLES
    dir,        \* the save directories that exist
    data,       \* what the data directory of a save holds; 0 is none
    backup,     \* what its backup directory holds
    json,       \* the commit gameState.json was written by; Torn if in part
    name,       \* GameState::_saveName, "new", or "unused" if not made yet
    saves,      \* SaveManager::_saves
    pending,    \* the pending saves of the game states, as pairs
    pc,         \* where ~PendingSave is, "idle" between the calls
    cur,        \* what it works on: game state, commit, save name, is new
    commits,    \* how many pending saves have been begun
    crashes,    \* how often the process has crashed
    installed,  \* per save, the commits that have reached its data directory
    deleted     \* the saves the game has begun to delete

Torn == MaxCommits + 1
Partial == MaxCommits + 2

diskVars == <<dir, data, backup, json>>
memVars == <<name, saves, pending>>
histVars == <<commits, crashes, installed, deleted>>
vars == <<diskVars, memVars, pc, cur, histVars>>

NoCommit == [state |-> "none", commit |-> 0, save |-> "none", isNew |-> FALSE]

Init ==
    /\ dir = {}
    /\ data = [s \in Saves |-> 0]
    /\ backup = [s \in Saves |-> 0]
    /\ json = [s \in Saves |-> 0]
    /\ name = [o \in States |-> "unused"]
    /\ saves = {}
    /\ pending = {}
    /\ pc = "idle" /\ cur = NoCommit
    /\ commits = 0 /\ crashes = 0
    /\ installed = [s \in Saves |-> <<>>]
    /\ deleted = {}

-----------------------------------------------------------------------------
(* The calls of the game.                                                  *)

CreateGameState(o) ==
    /\ pc = "idle"
    /\ name[o] = "unused"
    /\ name' = [name EXCEPT ![o] = "new"]
    /\ UNCHANGED <<diskVars, saves, pending, pc, cur, histVars>>

Loads(s) == json[s] \in 1..MaxCommits

\* GetSave of a listed save whose gameState.json can be parsed.
GetSave(o, s) ==
    /\ pc = "idle"
    /\ name[o] = "unused"
    /\ s \in saves
    /\ Loads(s)
    /\ name' = [name EXCEPT ![o] = s]
    /\ UNCHANGED <<diskVars, saves, pending, pc, cur, histVars>>

\* Mutant of NeedsRestore: a backup is brought back also where there are data.
RestoresAnyway(s) == backup[s] # 0

NeedsRestore(s) == data[s] = 0 /\ backup[s] # 0

\* GetVFS of a save: an interrupted commit is undone before the data is
\* mounted.  It fails when there is neither data nor backup.
GetVFS(s) ==
    /\ NeedsRestore(s) \/ data[s] # 0
    /\ IF NeedsRestore(s)
       THEN /\ data' = [data EXCEPT ![s] = backup[s]]
            /\ backup' = [backup EXCEPT ![s] = 0]
       ELSE UNCHANGED <<data, backup>>
    /\ UNCHANGED <<dir, json>>

LoadGame(o) ==
    /\ pc = "idle"
    /\ name[o] \in Saves
    /\ GetVFS(name[o])
    /\ UNCHANGED <<memVars, pc, cur, histVars>>

BeginSave(o) ==
    /\ pc = "idle"
    /\ Cardinality(pending) < MaxPending
    /\ commits < MaxCommits
    /\ \/ name[o] = "new" /\ UNCHANGED diskVars
       \/ name[o] \in Saves /\ GetVFS(name[o])
    /\ commits' = commits + 1
    /\ pending' = pending \union {<<o, commits + 1>>}
    /\ UNCHANGED <<name, saves, pc, cur, crashes, installed, deleted>>

\* DeleteSave: remove_all either removes the directory, or fails after it has
\* removed a part of it.
DeleteSave(o) ==
    LET s == name[o] IN
    /\ pc = "idle"
    /\ s \in saves
    /\ deleted' = deleted \union {s}
    /\ \/ /\ dir' = dir \ {s}
          /\ data' = [data EXCEPT ![s] = 0]
          /\ backup' = [backup EXCEPT ![s] = 0]
          /\ json' = [json EXCEPT ![s] = 0]
          /\ saves' = saves \ {s}
       \/ /\ data' \in {data, [data EXCEPT ![s] = 0]}
          /\ json' \in {json, [json EXCEPT ![s] = 0]}
          /\ UNCHANGED <<dir, backup, saves>>
    /\ UNCHANGED <<name, pending, pc, cur, commits, crashes, installed>>

-----------------------------------------------------------------------------
(* ~PendingSave: the commit, one file system call at a time.               *)

\* A name that GuidString makes up has never been used.
ReleasePending(o, c) ==
    /\ pc = "idle"
    /\ <<o, c>> \in pending
    /\ pending' = pending \ {<<o, c>>}
    /\ \/ \E s \in Saves :
            /\ IF name[o] = "new"
               THEN s \notin dir \union deleted /\ installed[s] = <<>>
               ELSE s = name[o]
            /\ cur' = [state |-> o, commit |-> c, save |-> s,
                       isNew |-> name[o] = "new"]
            /\ pc' = "prepare"
       \/ name[o] = "new" /\ UNCHANGED <<pc, cur>>
    /\ UNCHANGED <<diskVars, name, saves, histVars>>

Abort == pc' = "idle" /\ cur' = NoCommit

\* Mutant of CreatesDirectory: every commit makes sure the directory is there.
CreatesAnyway == cur.isNew \/ cur.save \notin dir

CreatesDirectory == cur.isNew

\* create_directories for a new save, remove_all(backup) for an old one.
CommitPrepare ==
    /\ pc = "prepare"
    /\ \/ /\ CreatesDirectory
          /\ dir' = dir \union {cur.save}
          /\ pc' = "install"
          /\ UNCHANGED <<backup, cur>>
       \/ /\ ~CreatesDirectory
          /\ backup' = [backup EXCEPT ![cur.save] = 0]
          /\ pc' = "moveOld"
          /\ UNCHANGED <<dir, cur>>
       \/ /\ \/ UNCHANGED backup
             \/ /\ ~cur.isNew /\ backup[cur.save] # 0
                /\ backup' = [backup EXCEPT ![cur.save] = Partial]
          /\ Abort
          /\ UNCHANGED dir
    /\ UNCHANGED <<data, json, memVars, histVars>>

\* Mutant of OldKept: the old data is removed instead of renamed.
OldRemoved == backup

OldKept == [backup EXCEPT ![cur.save] = data[cur.save]]

\* rename(data, backup).
CommitMoveOld ==
    /\ pc = "moveOld"
    /\ \/ /\ data[cur.save] # 0
          /\ backup' = OldKept
          /\ data' = [data EXCEPT ![cur.save] = 0]
          /\ pc' = "install"
          /\ UNCHANGED cur
       \/ Abort /\ UNCHANGED <<data, backup>>
    /\ UNCHANGED <<dir, json, memVars, histVars>>

\* Mutant of StateAfterFailure: the state file is written all the same.
StateWrittenAnyway == [json EXCEPT ![cur.save] = cur.commit]

StateAfterFailure == json

\* rename(pending, data).
CommitInstall ==
    /\ pc = "install"
    /\ \/ /\ cur.save \in dir
          /\ data' = [data EXCEPT ![cur.save] = cur.commit]
          /\ installed' = [installed EXCEPT ![cur.save] = Append(@, cur.commit)]
          /\ pc' = "setSave"
          /\ UNCHANGED <<cur, json>>
       \/ /\ ~cur.isNew
          /\ pc' = "restore"
          /\ json' = StateAfterFailure
          /\ UNCHANGED <<data, installed, cur>>
       \/ /\ cur.isNew
          /\ Abort
          /\ json' = StateAfterFailure
          /\ UNCHANGED <<data, installed>>
    /\ UNCHANGED <<dir, backup, memVars, commits, crashes, deleted>>

\* rename(backup, data), which undoes the failed commit.
CommitRestore ==
    /\ pc = "restore"
    /\ \/ /\ data' = [data EXCEPT ![cur.save] = backup[cur.save]]
          /\ backup' = [backup EXCEPT ![cur.save] = 0]
       \/ RestoreMayFail /\ UNCHANGED <<data, backup>>
    /\ Abort
    /\ UNCHANGED <<dir, json, memVars, histVars>>

\* SetSave for a new save; then the state file is opened, and so truncated, or
\* can't be, which is not looked at.
CommitSetSave ==
    /\ pc = "setSave"
    /\ IF cur.isNew
       THEN /\ name' = [name EXCEPT ![cur.state] = cur.save]
            /\ saves' = saves \union {cur.save}
       ELSE UNCHANGED <<name, saves>>
    /\ \/ json' = [json EXCEPT ![cur.save] = Torn] /\ pc' = "writeState"
       \/ UNCHANGED json /\ pc' = "cleanup"
    /\ UNCHANGED <<dir, data, backup, pending, cur, histVars>>

\* Whether the write succeeds is not looked at.
CommitWriteState ==
    /\ pc = "writeState"
    /\ json' \in {json, [json EXCEPT ![cur.save] = cur.commit]}
    /\ pc' = "cleanup"
    /\ UNCHANGED <<dir, data, backup, memVars, cur, histVars>>

\* remove_all(backup); a failure is only logged.
CommitCleanup ==
    /\ pc = "cleanup"
    /\ \/ backup' = [backup EXCEPT ![cur.save] = 0]
       \/ UNCHANGED backup
       \/ /\ backup[cur.save] # 0
          /\ backup' = [backup EXCEPT ![cur.save] = Partial]
    /\ Abort
    /\ UNCHANGED <<dir, data, json, memVars, histVars>>

\* The process dies and is started again: SaveManager lists the directories.
Crash ==
    /\ crashes < MaxCrashes
    /\ crashes' = crashes + 1
    /\ Abort
    /\ name' = [o \in States |-> "unused"]
    /\ pending' = {}
    /\ saves' = dir
    /\ UNCHANGED <<diskVars, commits, installed, deleted>>

Next ==
    \/ \E o \in States :
          \/ CreateGameState(o) \/ LoadGame(o) \/ BeginSave(o) \/ DeleteSave(o)
          \/ \E s \in Saves : GetSave(o, s)
          \/ \E c \in 1..MaxCommits : ReleasePending(o, c)
    \/ CommitPrepare \/ CommitMoveOld \/ CommitInstall \/ CommitRestore
    \/ CommitSetSave \/ CommitWriteState \/ CommitCleanup
    \/ Crash

Spec == Init /\ [][Next]_vars

-----------------------------------------------------------------------------
\* The type invariant of the saves.
TypeOK ==
    /\ dir \subseteq Saves /\ saves \subseteq Saves /\ deleted \subseteq Saves
    /\ data \in [Saves -> 0..MaxCommits \union {Partial}]
    /\ backup \in [Saves -> 0..MaxCommits \union {Partial}]
    /\ json \in [Saves -> 0..Torn]
    /\ name \in [States -> Saves \union {"new", "unused"}]
    /\ pending \subseteq States \X (1..MaxCommits)
    /\ pc \in {"idle", "prepare", "moveOld", "install", "restore", "setSave",
               "writeState", "cleanup"}
    /\ cur = NoCommit <=> pc = "idle"
    /\ commits \in 0..MaxCommits /\ crashes \in 0..MaxCrashes
    /\ installed \in [Saves -> Seq(1..MaxCommits)]

\* What a commit has put into a save is not lost, nor replaced by anything
\* older, until the next commit replaces it or the game deletes the save: at
\* every moment, whatever fails and wherever the process dies, the last
\* commit that succeeded is in the data directory, or there is none and the
\* backup, which GetVFS will bring back, holds it.
CommittedDataSurvives ==
    /\ TypeOK
    /\ \A s \in Saves \ deleted :
        installed[s] # <<>> =>
            \/ data[s] = Last(installed[s])
            \/ data[s] = 0 /\ backup[s] = Last(installed[s])

\* Nothing brings a save back whose directory has been deleted: not the commit
\* of a pending save begun before the deletion, nor a restart.
DeletedStaysDeleted ==
    [][\A s \in deleted \ dir :
          s \notin dir' \union saves' /\ data'[s] = 0 /\ backup'[s] = 0]_vars

\* The state file never describes a commit that has not reached the data.
StateFollowsData ==
    \A s \in Saves \ deleted : Loads(s) => json[s] \in ToSet(installed[s])

\* What GetVFS would mount: of a save that the game has deleted, nothing.
Found(s) ==
    IF s \in deleted THEN 0 ELSE IF data[s] # 0 THEN data[s] ELSE backup[s]

Content == [s \in Saves |-> Found(s)]

\* The save of each game state, which SetSave sets only after the commit.
Bound ==
    [o \in States |-> IF pc = "setSave" /\ cur.state = o THEN cur.save ELSE name[o]]

\* A commit has happened when the pending directory has been renamed to data.
Open ==
    pending \union (IF pc \in {"prepare", "moveOld", "install"}
                    THEN {<<cur.state, cur.commit>>} ELSE {})

Store == INSTANCE SaveStore WITH
             content <- Content, removed <- deleted, bound <- Bound,
             begun <- commits, open <- Open

\* However the calls of the file system fail and wherever the process dies, the
\* saves are as if each commit were one step: a game that loads a save finds
\* what the last commit that happened has put there, and a commit goes to the
\* save of its game state, to one that is not in use if that is new.
ImplementsStore == Store!Spec

-----------------------------------------------------------------------------
(* What the documentation of the interface says and the code does not do.  *)

\* GetSaveCount is "the number of saved gamestates available"; GetSave: "index
\* which gamestate, valid values are 0 to GetSaveCount - 1".
ListedSavesLoad ==
    pc = "idle" => \A s \in saves \ deleted : Loads(s)
=============================================================================
