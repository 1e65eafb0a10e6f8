--------------------------- MODULE WriteableFiles ---------------------------
(***************************************************************************)
(* The files of the writeable file system (MGDFDefaultFileBase.hpp,        *)
(* MGDFWriteableVirtualFileSystem.cpp): objects that stand for a path and  *)
(* count their references (ComObject.hpp), and the readers and writers     *)
(* that keep their file alive until their destructor has run.              *)
(*                                                                         *)
(* An operation under a file's _mutex is one step, the destructor of a     *)
(* stream three.  Paths are siblings below the root.  The operating system *)
(* may refuse what it is asked, and does not let go of a path that some    *)
(* stream has open.                                                        *)
(***************************************************************************)
EXTENDS Naturals, FiniteSets

CONSTANTS
    Files,      \* the file objects there may be at a time
    Streams,    \* the readers and writers there may be at a time
    Paths,      \* the paths below the root
    MaxRefs     \* bound: references to a file its users hold

VARIABLES
    disk,       \* each path: "none", "file" or "folder"
    file,       \* each object: [path, folder: _isFolder, refs: _references,
                \* reader: _reader, writer: _writer]; refs 0 when deleted
    users,      \* the references to each object that its users hold
    stream      \* each stream: [of: its file, mode, stage]; the stages are
                \* "none", "open", "closed" and "cleaned"

fileVars == <<disk, file, users, stream>>

Root == "root"

Null == "null"

NoFile == [path |-> Root, folder |-> FALSE, refs |-> 0,
           reader |-> Null, writer |-> Null]

NoStream == [of |-> Null, mode |-> "read", stage |-> "none"]

FilesInit ==
    /\ disk = [p \in Paths |-> "none"]
    /\ file = [f \in Files |-> NoFile]
    /\ users = [f \in Files |-> 0]
    /\ stream = [s \in Streams |-> NoStream]

-----------------------------------------------------------------------------
Alive(f) == file[f].refs > 0

Exists(p) == p = Root \/ disk[p] # "none"

\* The operating system has the path open for one stream or more.
Busy(p) ==
    \E s \in Streams : stream[s].stage = "open" /\ file[stream[s].of].path = p

Kind(p) == IF p = Root THEN "folder" ELSE disk[p]

Released(files, f) == [files EXCEPT ![f].refs = files[f].refs - 1]

\* GetFile, GetRoot, GetChild: an object for a path, whether or not there is
\* anything at it; what is at it now decides whether it is a folder for good.
GetFile(f, p) ==
    /\ ~Alive(f)
    /\ file' = [file EXCEPT ![f] = [path |-> p, folder |-> Kind(p) = "folder", refs |-> 1,
                                    reader |-> Null, writer |-> Null]]
    /\ users' = [users EXCEPT ![f] = 1]
    /\ UNCHANGED <<disk, stream>>

\* GetParent: the root has none.
GetParent(f, g) ==
    /\ users[f] > 0
    /\ file[f].path # Root
    /\ GetFile(g, Root)

AddRef(f) ==
    /\ users[f] \in 1 .. MaxRefs - 1
    /\ file' = [file EXCEPT ![f].refs = file[f].refs + 1]
    /\ users' = [users EXCEPT ![f] = users[f] + 1]
    /\ UNCHANGED <<disk, stream>>

Release(f) ==
    /\ users[f] > 0
    /\ file' = Released(file, f)
    /\ users' = [users EXCEPT ![f] = users[f] - 1]
    /\ UNCHANGED <<disk, stream>>

\* Mutant of Kept: the stream has its file without a reference.
NotKept(f) == file[f].refs

\* self(this, true), which the stream's cleanup function captures.
Kept(f) == file[f].refs + 1

\* Open looks for a reader only, not for a writer.
Open(f, s) ==
    /\ users[f] > 0
    /\ ~file[f].folder
    /\ file[f].reader = Null
    /\ Kind(file[f].path) = "file"
    /\ stream[s].stage = "none"
    /\ stream' = [stream EXCEPT ![s] = [of |-> f, mode |-> "read", stage |-> "open"]]
    /\ file' = [file EXCEPT ![f].reader = s, ![f].refs = Kept(f)]
    /\ UNCHANGED <<disk, users>>

\* A file that is not there is made.
OpenWrite(f, s) ==
    /\ users[f] > 0
    /\ ~file[f].folder
    /\ file[f].reader = Null /\ file[f].writer = Null
    /\ Kind(file[f].path) # "folder"
    /\ stream[s].stage = "none"
    /\ stream' = [stream EXCEPT ![s] = [of |-> f, mode |-> "write", stage |-> "open"]]
    /\ file' = [file EXCEPT ![f].writer = s, ![f].refs = Kept(f)]
    /\ disk' = [disk EXCEPT ![file[f].path] = "file"]
    /\ UNCHANGED users

\* The last reference to a reader or a writer goes: its destructor closes it.
CloseStream(s) ==
    /\ stream[s].stage = "open"
    /\ stream' = [stream EXCEPT ![s].stage = "closed"]
    /\ UNCHANGED <<disk, file, users>>

\* The cleanup function, with the file's _mutex.
CleanUp(s) ==
    LET f == stream[s].of IN
    /\ stream[s].stage = "closed"
    /\ stream' = [stream EXCEPT ![s].stage = "cleaned"]
    /\ file' = IF stream[s].mode = "read" THEN [file EXCEPT ![f].reader = Null]
               ELSE [file EXCEPT ![f].writer = Null]
    /\ UNCHANGED <<disk, users>>

\* The function is destroyed with the stream, and its reference with it.
FreeStream(s) ==
    /\ stream[s].stage = "cleaned"
    /\ stream' = [stream EXCEPT ![s] = NoStream]
    /\ file' = Released(file, stream[s].of)
    /\ UNCHANGED <<disk, users>>

CreateFolder(f) ==
    /\ users[f] > 0
    /\ ~Exists(file[f].path)
    /\ disk' = [disk EXCEPT ![file[f].path] = "folder"]
    /\ file' = [file EXCEPT ![f].folder = TRUE]
    /\ UNCHANGED <<users, stream>>

Delete(f) ==
    /\ users[f] > 0
    /\ file[f].path # Root
    /\ Exists(file[f].path)
    /\ ~Busy(file[f].path)
    /\ disk' = [disk EXCEPT ![file[f].path] = "none"]
    /\ UNCHANGED <<file, users, stream>>

\* Where something is moved or copied to there is nothing; neither object
\* learns of it.
MoveTo(f, g) ==
    /\ users[f] > 0 /\ users[g] > 0
    /\ file[f].path # Root /\ ~Busy(file[f].path)
    /\ Exists(file[f].path) /\ ~Exists(file[g].path)
    /\ disk' = [disk EXCEPT ![file[g].path] = disk[file[f].path],
                            ![file[f].path] = "none"]
    /\ UNCHANGED <<file, users, stream>>

CopyTo(f, g) ==
    /\ users[f] > 0 /\ users[g] > 0
    /\ ~Exists(file[g].path)
    /\ file[f].path # Root /\ Exists(file[f].path)
    /\ disk' = [disk EXCEPT ![file[g].path] = disk[file[f].path]]
    /\ UNCHANGED <<file, users, stream>>

FilesNext ==
    \/ \E f \in Files : \/ AddRef(f) \/ Release(f) \/ CreateFolder(f) \/ Delete(f)
                        \/ \E p \in Paths \cup {Root} : GetFile(f, p)
                        \/ \E g \in Files : GetParent(f, g) \/ MoveTo(f, g) \/ CopyTo(f, g)
                        \/ \E s \in Streams : Open(f, s) \/ OpenWrite(f, s)
    \/ \E s \in Streams : CloseStream(s) \/ CleanUp(s) \/ FreeStream(s)

-----------------------------------------------------------------------------
\* A file object outlives its streams, whoever releases what first: the count
\* of its references is that of its users and its streams, and the pointers it
\* keeps are to streams that have not cleaned up.
FilesOutliveStreams ==
    /\ \A f \in Files :
        file[f].refs = users[f] + Cardinality({s \in Streams : stream[s].of = f})
    /\ \A f \in Files : \A s \in {file[f].reader, file[f].writer} \ {Null} :
        stream[s].of = f /\ stream[s].stage \in {"open", "closed"}

-----------------------------------------------------------------------------
(* What the interface's documentation says and the code does not do.       *)

\* "Only one fileReader can be open for a file at any time".
OneStreamPerPath ==
    \A s, t \in Streams :
        stream[s].stage = "open" /\ stream[t].stage = "open"
        /\ file[stream[s].of].path = file[stream[t].of].path => s = t

\* "if the path to this file doesn't exist it will be created": an object of a
\* folder that is gone refuses.
MissingFilesCanBeMade ==
    \A f \in Files : Alive(f) /\ ~Exists(file[f].path) => ~file[f].folder
=============================================================================
