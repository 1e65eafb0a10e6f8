---------------------------- MODULE Installation ----------------------------
(* What the GamesManager puts on disk: the parts of a game as GameUpdater   *)
(* copies them, and the files of the framework as FrameworkUpdater copies   *)
(* them.  A part is the set of the versions its files come from: {v} is a   *)
(* whole part of version v, {u, v} one whose update from u to v is not      *)
(* finished (files removed, a file cut short, some copied), and Garbage     *)
(* stands for bytes of no version.  Icon and preferences are copied like    *)
(* bin and are left out.                                                    *)
EXTENDS Naturals, Sequences, FiniteSets

Garbage == 0

Parts == {"config", "content", "bin"}

\* the order UpdateFullGame copies in
CopyOrder == <<"config", "content", "bin">>

WholeGame(v) == [p \in Parts |-> {v}]

\* A configuration that was cut short doesn't parse, and nothing starts.
Readable(config) == Cardinality(config) = 1 /\ Garbage \notin config

VersionOf(file) == CHOOSE v \in file : TRUE

IsUpdate(archive) == archive.from # Garbage

Brings(archive) == IF archive.genuine THEN archive.to ELSE Garbage

\* A whole part replaces what was there; an update replaces the files that
\* changed since the version it is made for, and no others.
Copied(part, archive) ==
  IF IsUpdate(archive) THEN (part \ {archive.from}) \cup {Brings(archive)}
                       ELSE {Brings(archive)}

\* RemoveFiles of an update, inside content and bin only
FilesRemoved(game, archive) ==
  [p \in Parts |-> IF p = "config" \/ ~IsUpdate(archive) THEN game[p]
                   ELSE game[p] \cup {Brings(archive)}]

\* A copy that doesn't end: opening a file to write it empties it first.
CutShort(part, archive) == part \cup {Brings(archive)}

\* The GamesManager's own file can't be overwritten while it runs.
FrameworkCopied(files, f, v) == [files EXCEPT ![f] = {v}]

\* one executable cut short is none; of the other files some are replaced
CutFramework(files, f, v) ==
  [files EXCEPT ![f] = IF f = "newExe" THEN {Garbage} ELSE @ \cup {v}]

\* GetUpdate of the check: newer than what is installed, and the archive
\* made for the installed version when there is one
GameOffer(installed, latest, updatesFrom) ==
  IF latest <= installed THEN {}
  ELSE {[to |-> latest,
         from |-> IF installed \in updatesFrom THEN installed ELSE Garbage,
         genuine |-> TRUE]}

FrameworkOffer(installed, latest) == IF latest <= installed THEN {} ELSE {latest}
=============================================================================
