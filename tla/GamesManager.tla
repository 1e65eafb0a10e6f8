---------------------------- MODULE GamesManager ----------------------------
(* The GamesManager: it launches the game, asks once a day whether there    *)
(* are updates, restarts itself elevated to download and install them, and  *)
(* leaves to FrameworkUpdater.exe to replace its own file and start it      *)
(* again.  While it updates three threads meet: the worker that downloads   *)
(* and installs, the timer that shows the progress, and the UI thread,      *)
(* which takes the lock of the other two when the user cancels, and which   *)
(* both call into, holding that lock.  The machine may stop at any point.   *)
EXTENDS Installation

CONSTANTS
  MaxVersion,     \* the last version published of the game and the framework
  MaxDay,         \* days
  MaxCrashes,     \* times the machine stops or the process is killed
  Blocks,         \* reads a download takes
  MaxRedirects,   \* HttpRequestManager's maxRedirects
  UpdatesFrom     \* versions the publisher makes smaller archives for

ASSUME GamesManagerAssumption ==
  /\ MaxVersion \in Nat \ {0} /\ MaxDay \in Nat \ {0} /\ MaxCrashes \in Nat
  /\ Blocks \in Nat \ {0} /\ MaxRedirects \in Nat
  /\ UpdatesFrom \subseteq 1..MaxVersion

VARIABLES
  running,        \* which of the programs runs
  game,           \* the game's parts on disk
  exe,            \* GamesManager.exe
  files,          \* GamesManager.New.exe and the framework's other files
  lastCheck,      \* the day stamped in the last-update file
  credentials,    \* those the settings file keeps for the download
  registered,     \* the version the list of installed programs shows
  current,        \* Game.Current's version: the configuration at the start
  day, latest, crashes,
  checks,         \* how many times the service was asked, by the day stamped
  boot,           \* what the update process was told to update
  at, job,        \* where the worker is, and what it works on
  download,       \* each stage's file in the downloads directory
  lock,           \* who holds the presenter's lock
  timer,          \* the progress timer: idle, holding the lock, or disposed
  ui,             \* idle, in the cancel button's handler, closing, or closed
  allowCancel, downloader, cancelPending,
  byUser          \* the user closed the window

diskVars == <<game, exe, files, lastCheck, credentials, registered>>
worldVars == <<day, latest, crashes>>
windowVars == <<lock, timer, ui, allowCancel, downloader, cancelPending, byUser>>
updateVars == <<current, boot, at, job, download>>
vars == <<running, game, exe, files, lastCheck, credentials, registered,
          current, day, latest, crashes, checks, boot, at, job, download, lock, timer, ui,
          allowCancel, downloader, cancelPending, byUser>>

Versions == 1..MaxVersion
Stages == {"framework", "game"}
NoJob == [stage |-> "none", tries |-> 0, sent |-> "none", manual |-> FALSE,
          left |-> 0, result |-> "none", todo |-> <<>>, tried |-> {},
          raised |-> FALSE]
Nothing == [framework |-> {}, game |-> {}]
NoFile == "none"

Init ==
  /\ running = "none"
  /\ game = WholeGame(1) /\ exe = {1}
  /\ files = [newExe |-> {}, libs |-> {1}]
  /\ lastCheck = 0 /\ credentials = "none" /\ registered = 1 /\ current = 1
  /\ day = 1 /\ latest = [framework |-> 1, game |-> 1] /\ crashes = 0
  /\ checks = [d \in 1..MaxDay |-> 0]
  /\ boot = Nothing /\ at = "ended" /\ job = NoJob
  /\ download = [s \in Stages |-> NoFile]
  /\ lock = "free" /\ timer = "disposed" /\ ui = "closed"
  /\ allowCancel = FALSE /\ downloader = "none" /\ cancelPending = FALSE
  /\ byUser = FALSE

-----------------------------------------------------------------------------
(* Launching.                                                               *)

\* Main: a file or a configuration that can't be read ends it.
Starts ==
  IF exe = {} \/ Garbage \in exe \/ ~Readable(game.config)
  THEN running' = "none" /\ UNCHANGED current
  ELSE running' = "launcher" /\ current' = VersionOf(game.config)

StartManager ==
  /\ running = "none" /\ at = "ended" /\ Starts
  /\ UNCHANGED <<checks, diskVars, worldVars, boot, at, job, download, windowVars>>

Due == lastCheck # day

Stamped == day

\* The constructor stamps the file before anything is asked.
SkipCheck ==
  /\ running = "launcher" /\ ~Due
  /\ running' = "launching"
  /\ UNCHANGED <<checks, diskVars, worldVars, updateVars, windowVars>>

StampCheck ==
  /\ running = "launcher" /\ Due
  /\ lastCheck' = Stamped
  /\ running' = "checking"
  /\ UNCHANGED <<game, exe, files, credentials, registered, checks, worldVars, updateVars,
                 windowVars>>

Offers ==
  [framework |-> FrameworkOffer(VersionOf(exe), latest.framework),
   game |-> GameOffer(current, latest.game, UpdatesFrom)]

\* CheckForUpdate: a service that doesn't answer is no update.
CheckForUpdate ==
  /\ running = "checking"
  /\ \E answered \in BOOLEAN :
       /\ boot' = IF answered THEN Offers ELSE Nothing
       /\ running' = IF answered /\ Offers # Nothing THEN "asking" ELSE "launching"
  /\ checks' = [checks EXCEPT ![day] = @ + 1]
  /\ UNCHANGED <<diskVars, current, at, job, download, worldVars, windowVars>>

Answered(next) ==
  /\ running = "asking" /\ running' = next /\ boot' = Nothing
  /\ UNCHANGED <<checks, diskVars, current, at, job, download, worldVars,
                 windowVars>>

DeclineUpdate == Answered("launching")

\* RestartElevated returns, and with it the launcher's worker: the window
\* stays and nothing happens any more.
RefuseElevation == Answered("stuck")

\* The process that was started finds it has no administrator's token.
NotElevated == Answered("none")

\* UpdateGamePresenter's constructor: the window, the worker, the timer
RestartElevated ==
  /\ running = "asking"
  /\ running' = "manager"
  /\ at' = "framework" /\ job' = [NoJob EXCEPT !.stage = "framework"]
  /\ timer' = "idle" /\ ui' = "idle" /\ byUser' = FALSE
  /\ allowCancel' = FALSE /\ downloader' = "none" /\ cancelPending' = FALSE
  /\ UNCHANGED <<checks, diskVars, current, boot, download, worldVars, lock>>

Launch ==
  /\ running = "launching"
  /\ running' = "game" /\ boot' = Nothing
  /\ UNCHANGED <<checks, diskVars, current, at, job, download, worldVars, windowVars>>

GameExited ==
  /\ running = "game"
  /\ running' = "none"
  /\ UNCHANGED <<checks, diskVars, worldVars, updateVars, windowVars>>

\* At any point of it
CloseLauncher ==
  /\ running \in {"launching", "checking", "stuck"}
  /\ running' = "none" /\ boot' = Nothing
  /\ UNCHANGED <<checks, diskVars, current, at, job, download, worldVars, windowVars>>

-----------------------------------------------------------------------------
(* The worker of an update.                                                 *)

Alive == at # "ended"

\* View.Invoke returns when the UI thread has run what it was given, and
\* raises when the window is gone.
CanInvoke == ui = "idle"
InvokeRaises == ui = "closed"

After(stage) == IF stage = "framework" THEN "game" ELSE "close"

\* The file of the stage the worker is in: that of no other stage is touched.
Stored(content) ==
  download' = [s \in Stages |-> IF s = job.stage THEN content ELSE download[s]]

Content == download[job.stage]

\* A file that can't be deleted stays, and the attempt is only logged.
Cleanup == Stored(NoFile) \/ UNCHANGED download

\* On the way to DoWork's outer catch, which reports it: no stage follows.
Raises(tried) ==
  /\ at' = "report"
  /\ job' = [NoJob EXCEPT !.stage = "close", !.tried = tried, !.raised = TRUE]

\* InitUpdaterDirectories: there is no downloads directory and none is made.
DirectoryFails ==
  /\ at = "framework"
  /\ Raises(job.tried)
  /\ UNCHANGED <<running, checks, diskVars, worldVars, current, boot, download, windowVars>>

\* A stage begins if it was asked for: the downloader is made and shown to
\* the window while the lock is held; until then nothing can be cancelled.
EnterStage ==
  /\ at \in Stages
  /\ IF boot[at] = {}
     THEN /\ at' = After(at) /\ job' = [job EXCEPT !.stage = After(at)]
          /\ UNCHANGED <<downloader, cancelPending, allowCancel>>
     ELSE /\ lock = "free" /\ CanInvoke
          /\ at' = "connect"
          /\ job' = [NoJob EXCEPT !.stage = at, !.tried = job.tried \cup {at}]
          /\ downloader' = at /\ cancelPending' = FALSE /\ allowCancel' = TRUE
  /\ UNCHANGED <<running, checks, diskVars, worldVars, current, boot, download, lock,
                 timer, ui, byUser>>

Concluded(result) ==
  /\ at' = "take" /\ job' = [job EXCEPT !.result = result, !.left = 0,
                                         !.tries = 0, !.sent = "none",
                                         !.manual = FALSE]

NoResult == UNCHANGED <<running, checks, game, exe, files, lastCheck, registered,
                        worldVars, current, boot, windowVars>>

\* Another request: where Location says, or with credentials
Again(sent, manual) ==
  IF job.tries < MaxRedirects
  THEN at' = at /\ job' = [job EXCEPT !.tries = @ + 1, !.sent = sent,
                                       !.manual = manual]
  ELSE Concluded("error")

Connect ==
  /\ at = "connect"
  /\ \/ /\ at' = "read" /\ job' = [job EXCEPT !.left = Blocks]
        /\ Stored("partial") /\ UNCHANGED credentials
     \/ Again(job.sent, job.manual) /\ UNCHANGED <<download, credentials>>
     \/ Concluded("error") /\ UNCHANGED <<download, credentials>>
  /\ NoResult

\* GetCredentials: the stored ones first, then those the user types, and
\* no credentials at all for the framework
Authorise ==
  /\ at = "connect" /\ job.sent # "right"
  /\ \/ /\ job.stage = "framework"
        /\ Concluded("error") /\ UNCHANGED credentials
     \/ /\ job.stage = "game" /\ credentials # "none" /\ ~job.manual
        /\ Again(credentials, TRUE) /\ UNCHANGED credentials
     \/ /\ job.stage = "game" /\ (credentials = "none" \/ job.manual)
        /\ CanInvoke
        /\ \/ \E given \in {"right", "wrong"} :
                Again(given, TRUE) /\ credentials' = given
           \/ Concluded("error") /\ credentials' = "none"
  /\ UNCHANGED download /\ NoResult

\* A block is read; a cancellation is noticed then and only then, and the
\* rest is read all the same.
Read ==
  /\ at = "read" /\ job.left > 0
  /\ \/ job' = [job EXCEPT !.left = @ - 1,
                          !.result = IF cancelPending THEN "cancelled" ELSE @]
        /\ UNCHANGED at
     \/ Concluded("error")
  /\ UNCHANGED <<download, credentials>> /\ NoResult

HashIgnored(genuine) == TRUE

HashMatches(genuine) == genuine

\* What was read is what was published, or something else.
Verify ==
  /\ at = "read" /\ job.left = 0
  /\ IF job.result = "cancelled"
     THEN Concluded("cancelled") /\ Cleanup
     ELSE \E genuine \in BOOLEAN :
            /\ Concluded(IF HashMatches(genuine) THEN "completed" ELSE "error")
            /\ Stored(IF genuine THEN "genuine" ELSE "other")
  /\ UNCHANGED credentials /\ NoResult

\* lock (_lock) { _currentDownloader = null; View.Invoke(...) }
TakeLock ==
  /\ at = "take" /\ lock = "free"
  /\ lock' = "worker" /\ downloader' = "none"
  /\ at' = "withdraw"
  /\ UNCHANGED <<running, checks, diskVars, worldVars, current, boot, job, download,
                 timer, ui, allowCancel, cancelPending, byUser>>

StillOffered == TRUE

Withdrawn == FALSE

ReleasedOnSuccess(result) == IF result = "error" THEN "worker" ELSE "free"

Released(result) == "free"

\* An error of the framework's stage doesn't bail out.
Bails(stage) == stage = "game"

Withdraw ==
  /\ at = "withdraw" /\ CanInvoke
  /\ lock' = Released(job.result) /\ allowCancel' = Withdrawn
  /\ at' = CASE job.result = "cancelled" -> "leave"
             [] job.result = "completed" -> "install"
             [] OTHER -> IF Bails(job.stage) THEN "leave" ELSE "finally"
  /\ UNCHANGED <<running, checks, diskVars, worldVars, current, boot, job, download,
                 timer, ui, downloader, cancelPending, byUser>>

\* The archive is opened and checked; RemoveFiles of an update comes first.
\* What is no game is deleted and registered all the same; what can't be opened
\* at all ends the framework's stage, and makes the game's Cleanup raise.
Install ==
  /\ at = "install" /\ lock = "free" /\ CanInvoke
  /\ \/ /\ job.stage = "framework"
        /\ \E order \in {<<"newExe", "libs">>, <<"libs", "newExe">>} :
             job' = [job EXCEPT !.todo = order]
        /\ at' = "copy" /\ UNCHANGED <<game, download>>
     \/ /\ job.stage = "framework"
        /\ at' = "finally" /\ Cleanup /\ UNCHANGED <<job, game>>
     \/ /\ job.stage = "game"
        /\ \E archive \in boot.game :
             game' = FilesRemoved(game, [archive EXCEPT !.genuine = Content = "genuine"])
        /\ job' = [job EXCEPT !.todo = CopyOrder]
        /\ at' = "copy" /\ UNCHANGED download
     \/ /\ job.stage = "game"
        /\ at' = "register" /\ Cleanup /\ UNCHANGED <<job, game>>
     \/ /\ job.stage = "game"
        /\ at' = "finally" /\ job' = [job EXCEPT !.raised = TRUE]
        /\ UNCHANGED <<game, download>>
  /\ UNCHANGED <<running, checks, exe, files, lastCheck, credentials, registered,
                 worldVars, current, boot, windowVars>>

Archive == [(CHOOSE a \in boot.game : TRUE) EXCEPT !.genuine = Content = "genuine"]

NewFramework == CHOOSE v \in boot.framework : TRUE

Installed ==
  /\ at' = IF job.stage = "game" THEN "register" ELSE "finally"
  /\ job' = [job EXCEPT !.todo = <<>>]

\* One part or file is copied over, and with the last of them the archive is
\* closed and deleted by Cleanup.
Copy ==
  /\ at = "copy"
  /\ IF job.stage = "game"
     THEN game' = [game EXCEPT ![Head(job.todo)] = Copied(@, Archive)]
          /\ UNCHANGED files
     ELSE files' = FrameworkCopied(files, Head(job.todo),
                     IF Content = "genuine" THEN NewFramework ELSE Garbage)
          /\ UNCHANGED game
  /\ IF Len(job.todo) > 1
     THEN at' = at /\ job' = [job EXCEPT !.todo = Tail(@)] /\ UNCHANGED download
     ELSE Installed /\ Cleanup
  /\ UNCHANGED <<running, checks, exe, lastCheck, credentials, registered,
                 worldVars, current, boot,
                 windowVars>>

Cut ==
  IF job.stage = "game"
  THEN game' = [game EXCEPT ![Head(job.todo)] = CutShort(@, Archive)]
       /\ UNCHANGED files
  ELSE files' = CutFramework(files, Head(job.todo), NewFramework)
       /\ UNCHANGED game

\* The disk is full, a file in use: what was copied stays.
CopyFails ==
  /\ at = "copy" /\ Cut /\ Installed /\ Cleanup
  /\ UNCHANGED <<running, checks, exe, lastCheck, credentials, registered,
                 worldVars, current, boot,
                 windowVars>>

\* GameRegistrar, whether or not the game was installed, for the game as
\* it was when the process started
Register ==
  /\ at = "register" /\ lock = "free"
  /\ registered' = current
  /\ at' = "finally"
  /\ UNCHANGED <<running, checks, game, exe, files, lastCheck, credentials,
                 worldVars, current, boot, job, download, windowVars>>

Finally ==
  /\ at = "finally"
  /\ Stored(NoFile)
  /\ at' = IF job.raised THEN "report" ELSE After(job.stage)
  /\ job' = [NoJob EXCEPT !.stage = After(job.stage), !.tried = job.tried,
                          !.raised = job.raised]
  /\ UNCHANGED <<running, checks, diskVars, worldVars, current, boot, windowVars>>

\* DeleteWithTimeout gives up after eight attempts, and the exception leaves
\* DoWork's try.
FinallyFails ==
  /\ at = "finally" /\ Content # NoFile
  /\ Raises(job.tried)
  /\ UNCHANGED <<running, checks, diskVars, worldVars, current, boot, download, windowVars>>

\* The outer catch: the user is told, and the application can't be ended from
\* there because the window can't be cancelled.
Report ==
  /\ at = "report" /\ CanInvoke
  /\ at' = "close"
  /\ UNCHANGED <<running, checks, diskVars, worldVars, current, boot, job, download,
                 windowVars>>

WindowGone ==
  /\ ui' = "closed" /\ timer' = IF timer = "idle" THEN "disposed" ELSE timer

\* return inside the try: the window is closed, then the file deleted
Leave ==
  /\ at = "leave" /\ CanInvoke
  /\ WindowGone /\ at' = "discard"
  /\ UNCHANGED <<running, checks, diskVars, worldVars, current, boot, job, download,
                 lock, allowCancel, downloader, cancelPending, byUser>>

Close ==
  /\ at = "close" /\ CanInvoke
  /\ WindowGone /\ at' = "ended"
  /\ UNCHANGED <<running, checks, diskVars, worldVars, current, boot, job, download,
                 lock, allowCancel, downloader, cancelPending, byUser>>

\* The finally block of a worker that returns or was aborted
Discard ==
  /\ at = "discard"
  /\ Stored(NoFile) /\ at' = "ended"
  /\ UNCHANGED <<running, checks, diskVars, worldVars, current, boot, job, windowVars>>

Invoking ==
  \/ at \in {"withdraw", "report", "leave", "close"}
  \/ at = "connect" /\ job.stage = "game"

Killed ==
  /\ at' = "ended" /\ lock' = "free" /\ timer' = "disposed" /\ ui' = "closed"
  /\ running' = IF running = "manager" THEN "none" ELSE running

\* Invoke raises, and raises again for the message about it: the finally
\* block runs and the process dies.
InvokeFails ==
  /\ Invoking /\ InvokeRaises
  /\ Killed /\ Cleanup
  /\ UNCHANGED <<checks, diskVars, worldVars, current, boot, job, allowCancel, downloader,
                 cancelPending, byUser>>

\* The file can't be deleted, and the outer catch finds no window to report it
\* in; an aborted worker may end there instead.
DiscardFails ==
  /\ at = "discard" /\ Content # NoFile
  /\ \/ Killed
     \/ byUser /\ at' = "ended" /\ UNCHANGED <<lock, timer, ui, running>>
  /\ UNCHANGED <<checks, diskVars, worldVars, current, boot, job, download, allowCancel,
                 downloader, cancelPending, byUser>>

-----------------------------------------------------------------------------
(* The timer and the user.                                                  *)

TimerTicks ==
  /\ timer = "idle" /\ lock = "free" /\ job.tried # {}
  /\ timer' = "holding" /\ lock' = "timer"
  /\ UNCHANGED <<running, checks, diskVars, worldVars, updateVars, ui,
                 allowCancel, downloader, cancelPending, byUser>>

TimerShows ==
  /\ timer = "holding" /\ CanInvoke
  /\ timer' = "idle" /\ lock' = "free"
  /\ UNCHANGED <<running, checks, diskVars, worldVars, updateVars, ui,
                 allowCancel, downloader, cancelPending, byUser>>

\* The window went while the timer waited for it: the exception is nobody's.
TimerFails ==
  /\ timer = "holding" /\ InvokeRaises
  /\ Killed
  /\ UNCHANGED <<checks, diskVars, worldVars, current, boot, job, download, allowCancel,
                 downloader, cancelPending, byUser>>

\* The button, or the window's close box: both need AllowCancel.
UserCancels ==
  /\ running = "manager" /\ ui = "idle" /\ allowCancel
  /\ ui' \in {"cancelling", "closing"}
  /\ UNCHANGED <<running, checks, diskVars, worldVars, updateVars, lock, timer,
                 allowCancel, downloader, cancelPending, byUser>>

\* View_OnCancel
Cancels ==
  /\ ui \in {"cancelling", "closing"} /\ lock = "free"
  /\ cancelPending' = (cancelPending \/ downloader # "none")
  /\ ui' = IF ui = "closing" THEN "going" ELSE "idle"
  /\ UNCHANGED <<running, checks, diskVars, worldVars, updateVars, lock, timer,
                 allowCancel, downloader, byUser>>

\* View_Closed aborts a worker that runs; one that waits, for the lock, the
\* window or the network, it leaves alone.
Closed ==
  /\ ui = "going"
  /\ WindowGone /\ byUser' = TRUE
  /\ \/ /\ at \in {"connect", "read"}
        /\ at' = "discard" /\ UNCHANGED job
     \/ /\ at # "ended" /\ UNCHANGED <<at, job>>
  /\ UNCHANGED <<running, checks, diskVars, worldVars, current, boot, download, lock,
                 allowCancel, downloader, cancelPending>>

-----------------------------------------------------------------------------
(* The main thread once the window is gone, and FrameworkUpdater.exe.       *)

MainEnds ==
  /\ running = "manager" /\ ui = "closed"
  /\ running' = "updater"
  /\ UNCHANGED <<checks, diskVars, worldVars, updateVars, windowVars>>

\* The file can't be deleted while the GamesManager's process is there.
Gone == ~Alive /\ timer # "holding"

DeleteOld ==
  /\ running = "updater" /\ Gone /\ files.newExe # {} /\ exe # {}
  /\ exe' = {}
  /\ UNCHANGED <<running, game, files, lastCheck, credentials, registered, checks, worldVars,
                 updateVars, windowVars>>

MoveNew ==
  /\ running = "updater" /\ files.newExe # {} /\ exe = {}
  /\ exe' = files.newExe /\ files' = [files EXCEPT !.newExe = {}]
  /\ UNCHANGED <<running, game, lastCheck, credentials, registered, checks, worldVars,
                 updateVars, windowVars>>

Reset ==
  /\ boot' = Nothing /\ job' = NoJob /\ byUser' = FALSE /\ allowCancel' = FALSE
  /\ downloader' = "none" /\ cancelPending' = FALSE /\ lock' = "free"
  /\ timer' = "disposed" /\ ui' = "closed"

StartAgain ==
  /\ running = "updater" /\ Gone /\ files.newExe = {}
  /\ Starts /\ Reset
  /\ UNCHANGED <<at, download, checks, diskVars, worldVars>>

-----------------------------------------------------------------------------
(* The world.                                                               *)

\* A copy may be cut short; a download that was never deleted stays.
Crash ==
  /\ crashes < MaxCrashes /\ (running # "none" \/ Alive)
  /\ crashes' = crashes + 1
  /\ running' = "none" /\ at' = "ended" /\ Reset
  /\ \/ at = "copy" /\ Cut
     \/ UNCHANGED <<game, files>>
  /\ UNCHANGED <<exe, lastCheck, credentials, registered, current, day, latest, checks,
                 download>>

Publish ==
  /\ \E s \in Stages : latest[s] < MaxVersion /\ latest' = [latest EXCEPT ![s] = @ + 1]
  /\ running = "none"
  /\ UNCHANGED <<running, checks, diskVars, day, crashes, updateVars, windowVars>>

NextDay ==
  /\ day < MaxDay /\ day' = day + 1
  /\ running \in {"none", "game"}
  /\ UNCHANGED <<running, checks, diskVars, latest, crashes, updateVars, windowVars>>

Worker ==
  \/ EnterStage \/ Connect \/ Authorise \/ Read \/ Verify \/ TakeLock \/ Withdraw
  \/ Install \/ Copy \/ CopyFails \/ Register \/ Finally \/ FinallyFails
  \/ DirectoryFails \/ Report \/ Leave \/ Close \/ Discard \/ DiscardFails
  \/ InvokeFails

Timer == TimerTicks \/ TimerShows \/ TimerFails

Window == UserCancels \/ Cancels \/ Closed

Updater == MainEnds \/ DeleteOld \/ MoveNew \/ StartAgain

Launcher ==
  \/ StartManager \/ SkipCheck \/ StampCheck \/ CheckForUpdate \/ DeclineUpdate
  \/ RefuseElevation \/ NotElevated \/ RestartElevated \/ Launch \/ GameExited
  \/ CloseLauncher

World == Crash \/ Publish \/ NextDay

Next == Worker \/ Timer \/ Window \/ Updater \/ Launcher \/ World

\* Threads run, a tick of the timer is answered, the user answers what the
\* worker asks; nobody has to cancel, to crash or to publish.
Spec ==
  /\ Init /\ [][Next]_vars
  /\ SF_vars(Worker) /\ WF_vars(TimerShows \/ TimerFails) /\ WF_vars(Cancels \/ Closed)
  /\ WF_vars(Updater)

-----------------------------------------------------------------------------
TypeOK ==
  /\ running \in {"none", "launcher", "checking", "asking", "stuck", "launching",
                  "game", "manager", "updater"}
  /\ game \in [Parts -> SUBSET (Versions \cup {Garbage})]
  /\ at \in Stages \cup {"connect", "read", "take", "withdraw", "install", "copy",
                         "register", "finally", "report", "leave", "close",
                         "discard", "ended"}
  /\ lock \in {"free", "worker", "timer"}
  /\ ui \in {"idle", "cancelling", "closing", "going", "closed"}

\* Once the user has closed the window of an update nothing more is
\* installed: cancelling is withdrawn, on the UI thread, before an
\* installation begins, and a worker that comes later finds no window to
\* call (UpdateGamePresenter's View_Closed and DoWork).
ClosedWindowInstallsNothing ==
  byUser => at \notin {"install", "copy", "register"}

\* What is installed came out of a download that was verified: no file of
\* the game or the framework has bytes nobody published (FileDownloader).
OnlyVerifiedIsInstalled ==
  TypeOK /\ Garbage \notin files.libs \cup UNION {game[p] : p \in Parts}

\* Updates are asked for once a day, however often the GamesManager is
\* started, stopped or killed (LaunchGamePresenter).
ChecksOncePerDay == \A d \in 1..MaxDay : checks[d] <= 1

\* A worker that gets to its end without a cancellation has tried all it
\* was asked for, whatever failed to download or to be installed; only a
\* downloads directory that can't be made, or the file of a stage that it
\* couldn't delete, keeps it from the stage that follows (DoWork).
EveryUpdateIsTried ==
  at \in {"leave", "close"} /\ job.result # "cancelled" =>
    \/ \A s \in Stages : boot[s] # {} => s \in job.tried
    \/ /\ job.raised
       /\ job.tried = {} \/ \E s \in job.tried : download[s] # NoFile

\* Left alone, an update comes to an end: the worker ends, the window
\* closes and the GamesManager is started again, or one of its threads
\* died of the window's end.
UpdateEnds ==
  running = "manager" ~> \/ running \notin {"manager", "updater"}
                         \/ ui \in {"cancelling", "closing"}

\* Updates run their course: asked for once, all of them tried, and ended.
UpdatesRunTheirCourse ==
  []ChecksOncePerDay /\ []EveryUpdateIsTried /\ UpdateEnds

-----------------------------------------------------------------------------
(* What the code doesn't hold.                                              *)

\* No download that the user cancelled is installed.
CancelledIsNotInstalled == [][Install => ~cancelPending]_vars

\* The GamesManager can be started after any crash or failure.
ManagerStaysRunnable == running = "none" => exe # {} /\ Garbage \notin exe

\* A game whose configuration says a version has it.
GameIsWhole == running = "game" => game = WholeGame(VersionOf(game.config))

\* The list of installed programs shows the version that is installed.
RegistersWhatIsInstalled ==
  at = "finally" /\ job.stage = "game" /\ job.result = "completed" =>
    game.config = {registered}

\* A failure of the framework's stage doesn't keep the game from its own.
FailuresDontBailOut ==
  at \in {"leave", "close"} /\ job.result # "cancelled" =>
    \A s \in Stages : boot[s] # {} => s \in job.tried

\* A cancelled elevation leaves a launcher that launches.
LauncherGoesOn == running # "stuck"
=============================================================================
