-------------------------- MODULE GamesManagerProofs ------------------------
(* For any number of versions, days, crashes, blocks and redirects: a       *)
(* window that the user has closed installs nothing more, the service is    *)
(* asked for updates once a day at most, nothing is on disk that wasn't     *)
(* verified, and a worker that isn't cancelled tries all it was asked for,  *)
(* or was kept from it by a file it couldn't delete.                        *)
(*                                                                          *)
(* The first rests on the order of DoWork, which takes the cancel button    *)
(* back on the UI thread before it installs: from there to the next stage   *)
(* the window is idle and can't be closed by the user.  The second rests on *)
(* the constructor of LaunchGamePresenter, which stamps the day before it   *)
(* asks.  The others rest on what is in hand at each place of DoWork: the   *)
(* stage, which was asked for and is being tried, and the file downloaded   *)
(* for it, which was verified before its result is "completed".             *)
EXTENDS GamesManager, TLAPS

-----------------------------------------------------------------------------
(* The window.                                                              *)

\* Where the worker can't be cancelled: before a stage and after Withdraw.
Committed ==
  Stages \cup {"install", "copy", "register", "finally", "report", "leave",
             "close"}

WindowOK ==
  /\ byUser => ui = "closed"
  /\ at \in Committed => ui = "idle" /\ ~allowCancel

\* The worker's actions leave the window as it is, but for the button.
LEMMA WorkerKeepsWindow == ASSUME WindowOK, Worker PROVE WindowOK'
<1> USE DEF WindowOK, Committed, Stages
<1>1. CASE EnterStage
  <2>1. /\ at \in Stages /\ UNCHANGED <<ui, byUser>>
        /\ \/ at' \in {"game", "close"} /\ UNCHANGED allowCancel
           \/ at' = "connect"
    BY <1>1 DEF EnterStage, After
  <2> QED BY <2>1
<1>2. CASE Connect \/ Authorise \/ Read \/ Verify
  <2>1. at \in {"connect", "read"} /\ UNCHANGED windowVars
    BY <1>2, Zenon DEF Connect, Authorise, Read, Verify, NoResult
  <2>2. \A result : Concluded(result) => at' = "take"
    BY DEF Concluded
  <2>3. \A sent, manual : Again(sent, manual) => at' \in {at, "take"}
    BY <2>2 DEF Again
  <2>4. at' \in {"connect", "read", "take"}
    <3>1. CASE Connect
      BY <3>1, <2>2, <2>3, Zenon DEF Connect
    <3>2. CASE Authorise
      BY <3>2, <2>2, <2>3, Zenon DEF Authorise
    <3>3. CASE Read
      BY <3>3, <2>2, Zenon DEF Read
    <3>4. CASE Verify
      BY <3>4, <2>2, Zenon DEF Verify
    <3> QED BY <1>2, <3>1, <3>2, <3>3, <3>4
  <2> QED BY <2>1, <2>4 DEF windowVars
<1>3. CASE TakeLock
  BY <1>3 DEF TakeLock
<1>4. CASE Withdraw
  BY <1>4 DEF Withdraw, CanInvoke, Withdrawn
<1>5. CASE Install \/ Copy \/ CopyFails \/ Register
  BY <1>5 DEF Install, Copy, CopyFails, Register, Installed, windowVars
<1>6. CASE Finally \/ FinallyFails \/ DirectoryFails \/ Report
  BY <1>6 DEF Finally, FinallyFails, DirectoryFails, Report, Raises, After, windowVars
<1>7. CASE Leave \/ Close \/ Discard \/ DiscardFails \/ InvokeFails
  BY <1>7 DEF Leave, Close, Discard, DiscardFails, InvokeFails, WindowGone, Killed,
     CanInvoke, windowVars
<1> QED BY <1>1, <1>2, <1>3, <1>4, <1>5, <1>6, <1>7 DEF Worker

\* Everybody else's: the user can close a window only while he can cancel.
LEMMA OthersKeepWindow ==
  ASSUME WindowOK, Timer \/ Window \/ Updater \/ Launcher \/ World PROVE WindowOK'
<1> USE DEF WindowOK, Committed, Stages
<1>1. CASE Timer
  BY <1>1 DEF Timer, TimerTicks, TimerShows, TimerFails, Killed, updateVars
<1>2. CASE Window
  BY <1>2 DEF Window, UserCancels, Cancels, Closed, WindowGone, updateVars
<1>3. CASE Updater
  BY <1>3 DEF Updater, MainEnds, DeleteOld, MoveNew, StartAgain, Reset, Gone, Alive,
     updateVars, windowVars
<1>4. CASE Launcher
  BY <1>4 DEF Launcher, StartManager, SkipCheck, StampCheck, CheckForUpdate,
     DeclineUpdate, RefuseElevation, NotElevated, Answered, RestartElevated,
     Launch, GameExited, CloseLauncher, updateVars, windowVars
<1>5. CASE World
  BY <1>5 DEF World, Crash, Publish, NextDay, Reset, updateVars, windowVars
<1> QED BY <1>1, <1>2, <1>3, <1>4, <1>5

\* Once the user has closed the window of an update, nothing more is installed.
THEOREM ClosedWindow == Spec => []ClosedWindowInstallsNothing
<1>1. Init => WindowOK
  BY DEF Init, WindowOK, Committed, Stages
<1>2. WindowOK /\ [Next]_vars => WindowOK'
  <2> SUFFICES ASSUME WindowOK, [Next]_vars PROVE WindowOK'
    OBVIOUS
  <2>1. CASE UNCHANGED vars
    BY <2>1 DEF vars, WindowOK
  <2> QED BY <2>1, WorkerKeepsWindow, OthersKeepWindow DEF Next
<1>3. WindowOK => ClosedWindowInstallsNothing
  BY DEF WindowOK, Committed, ClosedWindowInstallsNothing
<1> QED BY <1>1, <1>2, <1>3, PTL DEF Spec

-----------------------------------------------------------------------------
(* The daily check.                                                         *)

\* A day that isn't stamped was not asked about, nor was any day to come.
StampOK ==
  /\ day \in 1..MaxDay /\ lastCheck \in 0..day
  /\ checks \in [1..MaxDay -> Nat]
  /\ \A d \in 1..MaxDay : checks[d] <= 1 /\ (d > day => checks[d] = 0)
  /\ lastCheck # day => checks[day] = 0
  /\ running = "checking" => lastCheck = day /\ checks[day] = 0

\* A new day comes while neither launcher nor updater runs.
LEMMA StampStep == ASSUME StampOK, [Next]_vars PROVE StampOK'
<1> USE DEF StampOK
<1>1. CASE Worker
  <2>1. UNCHANGED <<day, lastCheck, checks>> /\ (running' = running \/ running' = "none")
    BY <1>1, Zenon DEF Worker, EnterStage, Connect, Authorise, Read, Verify, TakeLock,
       Withdraw, Install, Copy, CopyFails, Register, Finally, FinallyFails,
       DirectoryFails, Report, Leave, Close, Discard, DiscardFails, InvokeFails, Killed,
       NoResult, diskVars, worldVars, Cut
  <2> QED BY <2>1
<1>2. CASE Timer \/ Window
  <2>1. UNCHANGED <<day, lastCheck, checks>> /\ (running' = running \/ running' = "none")
    BY <1>2 DEF Timer, TimerTicks, TimerShows, TimerFails, Killed, Window, UserCancels,
       Cancels, Closed, diskVars, worldVars
  <2> QED BY <2>1
<1>3. CASE Updater
  <2>1. /\ UNCHANGED <<day, lastCheck, checks>>
        /\ running' = "checking" => running = "checking"
    BY <1>3 DEF Updater, MainEnds, DeleteOld, MoveNew, StartAgain, Starts,
       diskVars, worldVars
  <2> QED BY <2>1
<1>4. CASE StampCheck
  BY <1>4 DEF StampCheck, Due, Stamped, worldVars
<1>5. CASE CheckForUpdate
  <2>1. /\ UNCHANGED <<day, lastCheck>> /\ running = "checking"
        /\ running' # "checking"
        /\ checks' = [checks EXCEPT ![day] = @ + 1]
    BY <1>5 DEF CheckForUpdate, diskVars, worldVars
  <2> QED BY <2>1
<1>6. CASE Launcher /\ ~StampCheck /\ ~CheckForUpdate
  <2>1. UNCHANGED <<day, lastCheck, checks>> /\ running' # "checking"
    BY <1>6 DEF Launcher, StartManager, Starts, SkipCheck, DeclineUpdate,
       RefuseElevation, NotElevated, Answered, RestartElevated, Launch, GameExited,
       CloseLauncher, diskVars, worldVars
  <2> QED BY <2>1
<1>7. CASE Crash \/ Publish
  <2>1. UNCHANGED <<day, lastCheck, checks>> /\ (running' = running \/ running' = "none")
    BY <1>7, Zenon DEF Crash, Publish, diskVars
  <2> QED BY <2>1
<1>8. CASE NextDay
  BY <1>8, GamesManagerAssumption DEF NextDay, diskVars
<1>9. CASE UNCHANGED vars
  BY <1>9 DEF vars
<1> QED BY <1>1, <1>2, <1>3, <1>4, <1>5, <1>6, <1>7, <1>8, <1>9 DEF Next, World

\* The service is asked for updates once a day at most, however often the
\* GamesManager is started, stopped or killed.
THEOREM OneCheckPerDay == Spec => []ChecksOncePerDay
<1>1. Init => StampOK
  BY GamesManagerAssumption DEF Init, StampOK
<1>2. StampOK => ChecksOncePerDay
  BY DEF StampOK, ChecksOncePerDay
<1> QED BY <1>1, <1>2, StampStep, PTL DEF Spec

-----------------------------------------------------------------------------
(* What is installed, and what is tried.                                    *)

\* An archive as the service offers it.
Offer == [to : Versions, from : Versions \cup {Garbage}, genuine : BOOLEAN]

\* The worker is at work on a stage.
Working ==
  {"connect", "read", "take", "withdraw", "install", "copy", "register", "finally"}

Places ==
  Stages \cup Working \cup {"report", "leave", "close", "discard", "ended"}

\* What the worker works on.
Job ==
  [stage : Stages \cup {"none", "close"}, tries : Nat,
   sent : {"none", "right", "wrong"}, manual : BOOLEAN, left : Nat,
   result : {"none", "error", "cancelled", "completed"},
   todo : Seq({"config", "content", "bin", "newExe", "libs"}), tried : SUBSET Stages,
   raised : BOOLEAN]

\* What a stage's file may hold.
Contents == {NoFile, "partial", "genuine", "other"}

\* The worker lives in the update's process only, which asks nobody for
\* updates: what it was told to update doesn't change.
ProcessOK ==
  /\ running \in {"none", "launcher", "checking", "asking", "stuck", "launching",
                  "game", "manager", "updater"}
  /\ at \in Places /\ job \in Job /\ download \in [Stages -> Contents]
  /\ credentials \in {"none", "right", "wrong"}
  /\ lock \in {"free", "worker", "timer"}
  /\ ui \in {"idle", "cancelling", "closing", "going", "closed"}
  /\ at # "ended" => running \in {"manager", "updater"}

\* The game has files of versions and nothing else, and so have the framework's
\* libraries.
CleanOK ==
  /\ game \in [Parts -> SUBSET Versions]
  /\ files \in [newExe : SUBSET (Versions \cup {Garbage}), libs : SUBSET Versions]

\* What is offered is a version that was published.
OffersOK ==
  /\ boot \in [framework : SUBSET Versions, game : SUBSET Offer]
  /\ latest \in [framework : Versions, game : Versions]

\* The stage is one that was asked for, and its download verified before its
\* result is "completed".
WorkOK ==
  /\ at \in Stages => job.stage = at
  /\ at \in Working =>
       job.stage \in Stages /\ boot[job.stage] # {} /\ job.stage \in job.tried
  /\ at \in {"take", "withdraw"} /\ job.result = "completed" => Content = "genuine"
  /\ at \in {"install", "copy"} => Content = "genuine"

\* No downloads directory, or a stage's file that could not be deleted, is what
\* brought the worker to its outer catch.
Excused == job.tried = {} \/ \E s \in job.tried : download[s] # NoFile

\* The framework comes before the game; a worker that leaves early was cancelled
\* or is in the last stage, and an exception ends one before its time only for a
\* reason.
TriedOK ==
  /\ /\ at \in Working \cup {"game", "leave"}
     /\ job.stage # "framework" /\ boot.framework # {}
     => "framework" \in job.tried
  /\ at = "leave" /\ job.result # "cancelled" =>
       job.stage = "game" /\ "game" \in job.tried
  /\ at = "finally" /\ job.raised => job.stage = "game"
  /\ at \in {"report", "close"} =>
       /\ job.stage = "close"
       /\ \/ \A s \in Stages : boot[s] # {} => s \in job.tried
          \/ job.raised /\ Excused
  /\ at \in Stages \cup (Working \ {"finally"}) => ~job.raised
  /\ at = "framework" => job.tried = {}

UpdateOK == ProcessOK /\ CleanOK /\ OffersOK /\ WorkOK /\ TriedOK

\* The job as a worker begins and as it is left.
LEMMA NoJobIsJob == NoJob \in Job
BY DEF NoJob, Job

\* Version numbers are not Garbage.
LEMMA VersionsAreGood ==
    Garbage \notin Versions /\ 1 \in Versions /\ UpdatesFrom \subseteq Versions
BY GamesManagerAssumption DEF Garbage, Versions

\* A stage begins, or is skipped because nothing is offered.
LEMMA EnterStep == ASSUME UpdateOK, EnterStage PROVE UpdateOK'
<1> USE NoJobIsJob DEF UpdateOK, Stages
<1>1. /\ at \in Stages /\ job.stage = at
      /\ UNCHANGED <<running, game, files, credentials, latest, boot, download, lock, ui>>
  BY DEF EnterStage, diskVars, worldVars, WorkOK
<1>2. CASE boot[at] = {}
  <2>1. at' = After(at) /\ job' = [job EXCEPT !.stage = After(at)]
    BY <1>2 DEF EnterStage
  <2>2. /\ job' \in Job /\ job'.stage = After(at) /\ job'.tried = job.tried
        /\ job'.result = job.result /\ job'.raised = job.raised
    BY <1>1, <2>1 DEF After, ProcessOK, Job
  <2>3. at' = "close" => \A s \in Stages : boot[s] # {} => s \in job.tried
    BY <1>1, <1>2, <2>1 DEF After, TriedOK
  <2> QED
    BY <1>1, <1>2, <2>1, <2>2, <2>3
    DEF ProcessOK, CleanOK, OffersOK, WorkOK, TriedOK, Places, Working, After
<1>3. CASE boot[at] # {}
  <2>1. /\ at' = "connect"
        /\ job' = [NoJob EXCEPT !.stage = at, !.tried = job.tried \cup {at}]
    BY <1>3 DEF EnterStage
  <2>2. /\ job' \in Job /\ job'.stage = at /\ job'.tried = job.tried \cup {at}
        /\ job'.result = "none" /\ ~job'.raised
    BY <1>1, <2>1 DEF ProcessOK, Job, NoJob
  <2> QED
    BY <1>1, <1>3, <2>1, <2>2
    DEF ProcessOK, CleanOK, OffersOK, WorkOK, TriedOK, Places, Working
<1> QED BY <1>2, <1>3

\* A download ends: the job keeps its stage and gets its result.
LEMMA ConcludedJob ==
  ASSUME job \in Job, NEW result \in {"error", "cancelled", "completed"}, Concluded(result)
  PROVE  /\ at' = "take" /\ job' \in Job /\ job'.result = result
         /\ job'.stage = job.stage /\ job'.tried = job.tried
         /\ job'.raised = job.raised
BY DEF Concluded, Job

\* Another request of the same download.
LEMMA AgainJob ==
  ASSUME job \in Job, NEW sent \in {"none", "right", "wrong"}, NEW manual \in BOOLEAN,
         Again(sent, manual)
  PROVE  /\ at' = at \/ (at' = "take" /\ job'.result = "error")
         /\ job' \in Job /\ job'.stage = job.stage /\ job'.tried = job.tried
         /\ job'.raised = job.raised
<1>1. CASE job.tries < MaxRedirects
  <2>1. /\ at' = at
        /\ job' = [job EXCEPT !.tries = @ + 1, !.sent = sent, !.manual = manual]
    BY <1>1 DEF Again
  <2>2. job.tries + 1 \in Nat
    BY DEF Job
  <2>3. job' \in Job
    BY <2>1, <2>2 DEF Job
  <2>4. job'.stage = job.stage /\ job'.tried = job.tried /\ job'.raised = job.raised
    BY <2>1 DEF Job
  <2> QED BY <2>1, <2>3, <2>4
<1>2. CASE ~(job.tries < MaxRedirects)
  BY <1>2, ConcludedJob DEF Again
<1> QED BY <1>1, <1>2

\* While it is downloaded nothing is installed, and only a download that was
\* verified is completed.
Fetches ==
  /\ at \in {"connect", "read"} /\ at' \in {"connect", "read", "take"}
  /\ job' \in Job /\ job'.stage = job.stage /\ job'.tried = job.tried
  /\ job'.raised = job.raised
  /\ at' = "take" /\ job'.result = "completed" => Content' = "genuine"
  /\ download' \in [Stages -> Contents]
  /\ credentials' \in {"none", "right", "wrong"}
  /\ UNCHANGED <<running, game, files, latest, boot, lock, ui>>

\* A step that fetches keeps the invariant.
LEMMA FetchStep == ASSUME UpdateOK, Fetches PROVE UpdateOK'
BY DEF Fetches, UpdateOK, ProcessOK, CleanOK, OffersOK, WorkOK, TriedOK, Places, Working,
   Stages

\* A file is written to, or deleted, or not.
LEMMA FileStored ==
  ASSUME ProcessOK, NEW content \in Contents, Stored(content)
  PROVE  /\ download' \in [Stages -> Contents]
         /\ job.stage \in Stages => download'[job.stage] = content
BY DEF ProcessOK, Stored

\* Deleted, or kept because it can't be.
LEMMA FileCleaned == ASSUME ProcessOK, Cleanup PROVE download' \in [Stages -> Contents]
BY FileStored DEF ProcessOK, Cleanup, Contents

\* The four steps of a download fetch.
LEMMA DownloadStep == ASSUME UpdateOK, Connect \/ Authorise \/ Read \/ Verify PROVE Fetches
<1> USE DEF UpdateOK
<1>1. UNCHANGED <<running, game, files, latest, boot, lock, ui>> /\ at \in {"connect", "read"}
  BY Zenon DEF Connect, Authorise, Read, Verify, NoResult, worldVars, windowVars
<1>2. /\ job \in Job /\ credentials \in {"none", "right", "wrong"}
      /\ job.sent \in {"none", "right", "wrong"} /\ job.manual \in BOOLEAN
      /\ download \in [Stages -> Contents] /\ job.stage \in Stages
  BY <1>1 DEF ProcessOK, WorkOK, Working, Job
<1>3. CASE Connect
  <2>1. UNCHANGED credentials /\ at = "connect"
    BY <1>3 DEF Connect
  <2>2. CASE at' = "read" /\ job' = [job EXCEPT !.left = Blocks] /\ Stored("partial")
    <3>1. download' \in [Stages -> Contents]
      BY <2>2, FileStored DEF Contents
    <3> QED BY <1>1, <1>2, <2>1, <2>2, <3>1, GamesManagerAssumption DEF Fetches, Job
  <2>5. CASE UNCHANGED download /\ (Again(job.sent, job.manual) \/ Concluded("error"))
    <3>1. /\ at' = at \/ (at' = "take" /\ job'.result = "error")
          /\ job' \in Job /\ job'.stage = job.stage /\ job'.tried = job.tried
          /\ job'.raised = job.raised
      BY <1>2, <2>5, AgainJob, ConcludedJob
    <3> QED BY <1>1, <1>2, <2>1, <2>5, <3>1 DEF Fetches
  <2> QED BY <1>3, <2>2, <2>5, Zenon DEF Connect
<1>4. CASE Authorise
  <2>1. at = "connect" /\ UNCHANGED download
    BY <1>4 DEF Authorise
  <2>2. CASE Concluded("error") /\ credentials' \in {"none", credentials}
    BY <1>1, <1>2, <2>1, <2>2, ConcludedJob DEF Fetches
  <2>3. ASSUME NEW given \in {"right", "wrong", credentials}, Again(given, TRUE),
               credentials' \in {given, credentials}
        PROVE  Fetches
    <3>1. /\ at' = at \/ (at' = "take" /\ job'.result = "error")
          /\ job' \in Job /\ job'.stage = job.stage /\ job'.tried = job.tried
          /\ job'.raised = job.raised
      BY <1>2, <2>3, AgainJob
    <3> QED BY <1>1, <1>2, <2>1, <2>3, <3>1 DEF Fetches
  <2> QED BY <1>4, <2>2, <2>3 DEF Authorise
<1>5. CASE Read
  <2>1. UNCHANGED <<credentials, download>> /\ at = "read" /\ job.left > 0
    BY <1>5 DEF Read
  <2>2. CASE /\ job' = [job EXCEPT !.left = @ - 1,
                          !.result = IF cancelPending THEN "cancelled" ELSE @]
             /\ UNCHANGED at
    <3> DEFINE result == IF cancelPending THEN "cancelled" ELSE job.result
    <3>1. result \in {"none", "error", "cancelled", "completed"}
      BY <1>2 DEF Job
    <3>2. job' = [job EXCEPT !.left = @ - 1, !.result = result]
      BY <2>2
    <3> HIDE DEF result
    <3>3. job.left - 1 \in Nat
      BY <1>2, <2>1 DEF Job
    <3>4. job' \in Job
      BY <1>2, <3>1, <3>2, <3>3 DEF Job
    <3>5. job'.stage = job.stage /\ job'.tried = job.tried /\ job'.raised = job.raised
      BY <1>2, <3>2 DEF Job
    <3> QED BY <1>1, <1>2, <2>1, <2>2, <3>4, <3>5 DEF Fetches
  <2>3. CASE Concluded("error")
    BY <1>1, <1>2, <2>1, <2>3, ConcludedJob DEF Fetches
  <2> QED BY <1>5, <2>2, <2>3 DEF Read
<1>6. CASE Verify
  <2>1. UNCHANGED credentials
    BY <1>6 DEF Verify
  <2>2. CASE Concluded("cancelled") /\ Cleanup
    <3>1. /\ at' = "take" /\ job' \in Job /\ job'.result = "cancelled"
          /\ job'.stage = job.stage /\ job'.tried = job.tried /\ job'.raised = job.raised
      BY <1>2, <2>2, ConcludedJob
    <3>2. download' \in [Stages -> Contents]
      BY <2>2, FileCleaned
    <3> QED BY <1>1, <1>2, <2>1, <3>1, <3>2 DEF Fetches
  <2>3. ASSUME NEW genuine \in BOOLEAN,
               Concluded(IF genuine THEN "completed" ELSE "error"),
               Stored(IF genuine THEN "genuine" ELSE "other")
        PROVE  Fetches
    <3> DEFINE result == IF genuine THEN "completed" ELSE "error"
               content == IF genuine THEN "genuine" ELSE "other"
    <3>1. /\ result \in {"completed", "error"} /\ content \in Contents
          /\ result = "completed" => content = "genuine"
      BY DEF Contents
    <3>2. Concluded(result) /\ Stored(content)
      BY <2>3
    <3> HIDE DEF result, content
    <3>3. /\ at' = "take" /\ job' \in Job /\ job'.result = result
          /\ job'.stage = job.stage /\ job'.tried = job.tried /\ job'.raised = job.raised
      BY <1>2, <3>1, <3>2, ConcludedJob
    <3>4. download' \in [Stages -> Contents] /\ download'[job.stage] = content
      BY <1>2, <3>1, <3>2, FileStored
    <3> QED BY <1>1, <1>2, <2>1, <3>1, <3>3, <3>4 DEF Fetches, Content
  <2> QED BY <1>6, <2>2, <2>3, Zenon DEF Verify, HashMatches
<1> QED BY <1>3, <1>4, <1>5, <1>6

\* A verified archive brings files of the version it is made for.
LEMMA BringsVersion ==
  ASSUME NEW a \in Offer, Content = "genuine"
  PROVE  Brings([a EXCEPT !.genuine = Content = "genuine"]) \in Versions
BY DEF Brings, Offer

\* What it leaves in a part, removed, copied or cut short, is of a version.
LEMMA PartsStayGood ==
  ASSUME NEW part \in SUBSET Versions, NEW archive, Brings(archive) \in Versions
  PROVE  /\ Copied(part, archive) \in SUBSET Versions
         /\ CutShort(part, archive) \in SUBSET Versions
         /\ part \cup {Brings(archive)} \in SUBSET Versions
BY DEF Copied, CutShort

\* Installing, up to the last file.
LEMMA InstallsGood ==
  ASSUME UpdateOK, Install \/ Copy \/ CopyFails \/ (at = "copy" /\ Cut)
  PROVE  CleanOK'
<1> USE DEF UpdateOK
<1>1. /\ Content = "genuine" /\ job.stage \in Stages /\ boot[job.stage] # {}
      /\ game \in [Parts -> SUBSET Versions]
      /\ files \in [newExe : SUBSET (Versions \cup {Garbage}), libs : SUBSET Versions]
  BY DEF Install, Copy, CopyFails, WorkOK, Working, CleanOK
<1>2. CASE Install
  <2>1. UNCHANGED files
    BY <1>2 DEF Install
  <2>2. CASE UNCHANGED game
    BY <1>1, <2>1, <2>2 DEF CleanOK
  <2>3. ASSUME NEW a \in boot.game,
               game' = FilesRemoved(game, [a EXCEPT !.genuine = Content = "genuine"])
        PROVE  CleanOK'
    <3> DEFINE archive == [a EXCEPT !.genuine = Content = "genuine"]
    <3>1. Brings(archive) \in Versions
      BY <1>1, <2>3, BringsVersion DEF OffersOK
    <3> HIDE DEF archive
    <3>2. \A p \in Parts : game[p] \cup {Brings(archive)} \in SUBSET Versions
      BY <1>1, <3>1, PartsStayGood
    <3>3. game' = FilesRemoved(game, archive)
      BY <2>3 DEF archive
    <3>4. game' \in [Parts -> SUBSET Versions]
      BY <1>1, <3>2, <3>3 DEF FilesRemoved
    <3> QED BY <1>1, <2>1, <3>4 DEF CleanOK
  <2> QED BY <1>2, <2>2, <2>3 DEF Install
<1>3. CASE (Copy \/ CopyFails \/ Cut) /\ job.stage = "game"
  <2>1. Brings(Archive) \in Versions
    <3>1. (CHOOSE a \in boot.game : TRUE) \in Offer
      BY <1>1, <1>3 DEF OffersOK
    <3> QED BY <1>1, <3>1, BringsVersion DEF Archive
  <2>2. \A p \in Parts : /\ Copied(game[p], Archive) \in SUBSET Versions
                         /\ CutShort(game[p], Archive) \in SUBSET Versions
    BY <1>1, <2>1, PartsStayGood
  <2>3. /\ UNCHANGED files
        /\ \/ game' = [game EXCEPT ![Head(job.todo)] = Copied(@, Archive)]
           \/ game' = [game EXCEPT ![Head(job.todo)] = CutShort(@, Archive)]
    BY <1>3 DEF Copy, CopyFails, Cut
  <2>4. game' \in [Parts -> SUBSET Versions]
    BY <1>1, <2>2, <2>3
  <2> QED BY <1>1, <2>3, <2>4 DEF CleanOK
<1>4. CASE (Copy \/ CopyFails \/ Cut) /\ job.stage = "framework"
  <2>1. NewFramework \in Versions
    BY <1>1, <1>4 DEF NewFramework, OffersOK
  <2>2. /\ UNCHANGED game
        /\ \/ files' = [files EXCEPT ![Head(job.todo)] = {NewFramework}]
           \/ files' = CutFramework(files, Head(job.todo), NewFramework)
    BY <1>1, <1>4 DEF Copy, CopyFails, Cut, FrameworkCopied
  <2> DEFINE f == Head(job.todo)
  <2>3. CASE f \notin {"newExe", "libs"}
    <3>1. files' = files
      BY <1>1, <2>2, <2>3 DEF CutFramework
    <3> QED BY <1>1, <2>2, <3>1 DEF CleanOK
  <2>4. CASE f = "newExe"
    BY <1>1, <2>1, <2>2, <2>4 DEF CutFramework, CleanOK
  <2>5. CASE f = "libs"
    BY <1>1, <2>1, <2>2, <2>5 DEF CutFramework, CleanOK
  <2> QED BY <2>3, <2>4, <2>5
<1> QED BY <1>1, <1>2, <1>3, <1>4 DEF Stages

\* The worker takes the result, and goes on to install what was verified.
LEMMA TakeStep == ASSUME UpdateOK, TakeLock \/ Withdraw PROVE UpdateOK'
<1> USE DEF UpdateOK
<1>1. /\ UNCHANGED <<running, game, files, credentials, latest, boot, job, download, ui>>
      /\ at \in {"take", "withdraw"} /\ at' \in {"withdraw", "install", "leave", "finally"}
      /\ lock' \in {"free", "worker"}
  BY DEF TakeLock, Withdraw, Released, diskVars, worldVars
<1>2. /\ at' \in {"withdraw", "install"} /\ job.result = "completed" => Content = "genuine"
      /\ at' = "install" => job.result = "completed"
      /\ at' = "leave" => job.result = "cancelled" \/ job.stage = "game"
  BY DEF TakeLock, Withdraw, Bails, WorkOK
<1>3. ProcessOK' /\ CleanOK' /\ OffersOK'
  BY <1>1 DEF ProcessOK, CleanOK, OffersOK, Places, Working
<1>4. WorkOK' /\ TriedOK'
  BY <1>1, <1>2 DEF WorkOK, TriedOK, Content, Working, Stages
<1> QED BY <1>3, <1>4

\* What a worker has to copy.
Copies == {"config", "content", "bin", "newExe", "libs"}

\* It is a sequence to begin with, and stays one.
LEMMA CopiesInOrder ==
  /\ CopyOrder \in Seq(Copies) /\ <<>> \in Seq(Copies)
  /\ <<"newExe", "libs">> \in Seq(Copies) /\ <<"libs", "newExe">> \in Seq(Copies)
BY DEF Copies, CopyOrder

\* What is left of a sequence when its head is taken.
LEMMA TailOfSeq == ASSUME NEW S, NEW q \in Seq(S), Len(q) > 1 PROVE Tail(q) \in Seq(S)
OBVIOUS

\* What remains to be copied is a part of what was.
LEMMA InstallStep == ASSUME UpdateOK, Install \/ Copy \/ CopyFails PROVE UpdateOK'
<1> USE DEF UpdateOK
<1>1. /\ UNCHANGED <<running, credentials, latest, boot, lock, ui>>
      /\ at \in {"install", "copy"} /\ at' \in {"copy", "register", "finally"}
      /\ at' = "copy" => UNCHANGED download
  BY DEF Install, Copy, CopyFails, Installed, worldVars, windowVars
<1>2. job \in Job /\ job.todo \in Seq(Copies)
  BY DEF ProcessOK, Job, Copies
<1>7. download' \in [Stages -> Contents]
  <2>1. UNCHANGED download \/ Cleanup
    BY Zenon DEF Install, Copy, CopyFails
  <2> QED BY <2>1, FileCleaned DEF ProcessOK
<1>3. \/ job' = job \/ \E q \in Seq(Copies) : job' = [job EXCEPT !.todo = q]
      \/ job' = [job EXCEPT !.raised = TRUE] /\ job.stage = "game" /\ at' = "finally"
  <2>1. CASE Install
    <3>1. \/ job' = job \/ job' = [job EXCEPT !.todo = CopyOrder]
          \/ job' = [job EXCEPT !.raised = TRUE] /\ job.stage = "game" /\ at' = "finally"
          \/ job' = [job EXCEPT !.todo = <<"newExe", "libs">>]
          \/ job' = [job EXCEPT !.todo = <<"libs", "newExe">>]
      BY <2>1, Zenon DEF Install
    <3> QED BY <3>1, CopiesInOrder, Zenon
  <2>2. CASE Copy
    <3>1. CASE Len(job.todo) > 1
      <4>1. Tail(job.todo) \in Seq(Copies)
        BY <1>2, <3>1, TailOfSeq
      <4>2. job' = [job EXCEPT !.todo = Tail(@)]
        BY <2>2, <3>1 DEF Copy
      <4> DEFINE q == Tail(job.todo)
      <4>3. job' = [job EXCEPT !.todo = q]
        BY <4>2
      <4> HIDE DEF q
      <4> QED BY <4>1, <4>3, Zenon DEF q
    <3>2. CASE ~(Len(job.todo) > 1)
      <4>1. job' = [job EXCEPT !.todo = <<>>]
        BY <2>2, <3>2, Zenon DEF Copy, Installed
      <4> QED BY <4>1, CopiesInOrder, Zenon
    <3> QED BY <3>1, <3>2
  <2>3. CASE CopyFails
    BY <2>3, CopiesInOrder, Zenon DEF CopyFails, Installed
  <2> QED BY <2>1, <2>2, <2>3
<1>4. /\ job' \in Job /\ job'.stage = job.stage /\ job'.tried = job.tried
      /\ job'.result = job.result
      /\ job'.raised = job.raised \/ (job.stage = "game" /\ at' = "finally")
  BY <1>2, <1>3 DEF Job, Copies
<1>5. ProcessOK' /\ OffersOK'
  BY <1>1, <1>4, <1>7 DEF ProcessOK, OffersOK, Places, Working
<1>6. WorkOK' /\ TriedOK'
  BY <1>1, <1>4 DEF WorkOK, TriedOK, Content, Working, Stages
<1> QED BY <1>5, <1>6, InstallsGood

\* A stage's last step: its file is deleted, and the next stage follows, or the
\* end, or what was raised is reported.
LEMMA FinallyStep == ASSUME UpdateOK, Finally PROVE UpdateOK'
<1> USE DEF UpdateOK
<1>1. /\ at = "finally" /\ UNCHANGED <<running, game, files, credentials, latest, boot, lock, ui>>
      /\ at' = IF job.raised THEN "report" ELSE After(job.stage)
      /\ job' = [NoJob EXCEPT !.stage = After(job.stage), !.tried = job.tried,
                              !.raised = job.raised]
      /\ Stored(NoFile)
  BY DEF Finally, diskVars, worldVars, windowVars
<1>2. job \in Job /\ job.raised \in BOOLEAN
  BY DEF ProcessOK, Job
<1>3. job.stage \in Stages /\ boot[job.stage] # {} /\ job.stage \in job.tried
  BY <1>1 DEF WorkOK, Working
<1>4. /\ job' \in Job /\ job'.stage = After(job.stage) /\ job'.tried = job.tried
      /\ job'.raised = job.raised
  <2> DEFINE next == After(job.stage)
  <2>1. next \in Stages \cup {"none", "close"}
    BY DEF After, Stages
  <2>2. job' = [NoJob EXCEPT !.stage = next, !.tried = job.tried, !.raised = job.raised]
    BY <1>1
  <2> HIDE DEF next
  <2>3. /\ job' \in Job /\ job'.stage = next /\ job'.tried = job.tried
        /\ job'.raised = job.raised
    BY <1>2, <2>1, <2>2, NoJobIsJob DEF Job
  <2> QED BY <2>3 DEF next
<1>5. download' \in [Stages -> Contents]
  BY <1>1, FileStored DEF Contents
<1>6. job.raised => job.stage = "game"
  BY <1>1 DEF TriedOK
<1>7. job.stage = "game" => \A s \in Stages : boot[s] # {} => s \in job.tried
  BY <1>1, <1>3 DEF TriedOK, Working, Stages
<1>8. ProcessOK'
  BY <1>1, <1>2, <1>3, <1>4, <1>5 DEF ProcessOK, Places, After, Stages
<1>9. CleanOK' /\ OffersOK' /\ WorkOK'
  BY <1>1, <1>2, <1>3, <1>4, <1>6 DEF CleanOK, OffersOK, WorkOK, Working, After, Stages
<1>10. TriedOK'
  BY <1>1, <1>2, <1>3, <1>4, <1>6, <1>7 DEF TriedOK, Working, After, Stages
<1> QED BY <1>8, <1>9, <1>10

\* An exception on its way to the outer catch: there is no directory to download
\* to, or a file is left behind.
LEMMA RaiseStep == ASSUME UpdateOK, FinallyFails \/ DirectoryFails PROVE UpdateOK'
<1> USE DEF UpdateOK
<1>1. /\ UNCHANGED <<running, game, files, credentials, latest, boot, download, lock, ui>>
      /\ Raises(job.tried) /\ at \in {"finally", "framework"}
  BY DEF FinallyFails, DirectoryFails, diskVars, worldVars, windowVars
<1>2. job \in Job
  BY DEF ProcessOK
<1>3. /\ at' = "report" /\ job' \in Job /\ job'.stage = "close" /\ job'.tried = job.tried
      /\ job'.raised
  BY <1>1, <1>2, NoJobIsJob DEF Raises, Job
<1>4. Excused
  <2>1. CASE FinallyFails
    BY <2>1 DEF FinallyFails, Content, WorkOK, Working, Excused
  <2>2. CASE DirectoryFails
    BY <2>2 DEF DirectoryFails, TriedOK, Excused
  <2> QED BY <2>1, <2>2
<1>5. ProcessOK' /\ CleanOK' /\ OffersOK'
  BY <1>1, <1>3 DEF ProcessOK, CleanOK, OffersOK, Places
<1>6. WorkOK' /\ TriedOK'
  BY <1>1, <1>3, <1>4 DEF WorkOK, TriedOK, Excused, Working, Stages
<1> QED BY <1>5, <1>6

\* The window closes, and the worker with it.
LEMMA EndStep ==
  ASSUME UpdateOK,
         Register \/ Report \/ Leave \/ Close \/ Discard \/ DiscardFails \/ InvokeFails
  PROVE  UpdateOK'
<1> USE DEF UpdateOK
<1>1. /\ UNCHANGED <<game, files, credentials, latest, boot, job>>
      /\ lock' \in {lock, "free"} /\ ui' \in {ui, "closed"}
      /\ running' = running \/ (running' = "none" /\ at' = "ended")
  BY DEF Register, Report, Leave, Close, Discard, DiscardFails, InvokeFails, Killed,
     WindowGone, diskVars, worldVars, windowVars, updateVars
<1>2. CleanOK' /\ OffersOK'
  BY <1>1 DEF CleanOK, OffersOK
<1>3. \/ at = "register" /\ at' = "finally" /\ running' = running /\ UNCHANGED download
      \/ at = "report" /\ at' = "close" /\ running' = running /\ UNCHANGED download
      \/ at' = "discard" /\ at # "ended" /\ running' = running
      \/ at' = "ended"
  BY DEF Register, Report, Leave, Close, Discard, DiscardFails, InvokeFails, Killed,
     diskVars, updateVars
<1>4. download' \in [Stages -> Contents]
  <2>1. UNCHANGED download \/ Cleanup
    BY Zenon DEF Register, Report, Leave, Close, Discard, DiscardFails, InvokeFails, Cleanup
  <2> QED BY <2>1, FileCleaned DEF ProcessOK
<1>5. ProcessOK'
  BY <1>1, <1>3, <1>4 DEF ProcessOK, Places, Working
<1>6. WorkOK' /\ TriedOK'
  BY <1>1, <1>3 DEF WorkOK, TriedOK, Excused, Working, Stages
<1> QED BY <1>2, <1>5, <1>6

\* The timer, the user and the main thread leave what the worker does alone, but
\* for the user who closes the window on a download.
LEMMA WindowStep == ASSUME UpdateOK, Timer \/ Window PROVE UpdateOK'
<1> USE DEF UpdateOK
<1>1. /\ UNCHANGED <<game, files, credentials, latest, boot, job, download>>
      /\ lock' \in {lock, "free", "timer"}
      /\ ui' \in {ui, "cancelling", "closing", "going", "idle", "closed"}
      /\ \/ at' = at /\ running' = running
         \/ at' = "ended" /\ running' \in {running, "none"}
         \/ at' = "discard" /\ at # "ended" /\ running' = running
  BY DEF Timer, TimerTicks, TimerShows, TimerFails, Window, UserCancels, Cancels, Closed,
     WindowGone, Killed, diskVars, worldVars, updateVars
<1>2. ProcessOK' /\ CleanOK' /\ OffersOK'
  BY <1>1 DEF ProcessOK, CleanOK, OffersOK, Places
<1>3. WorkOK' /\ TriedOK'
  BY <1>1 DEF WorkOK, TriedOK, Content, Excused, Working, Stages
<1> QED BY <1>2, <1>3

\* A worker's step.
LEMMA WorkerStep == ASSUME UpdateOK, Worker PROVE UpdateOK'
BY EnterStep, DownloadStep, FetchStep, TakeStep, InstallStep, FinallyStep, RaiseStep,
   EndStep DEF Worker

\* With the worker gone nothing is left of its work but the files.
LEMMA WithoutWorker ==
  ASSUME UpdateOK, at' = "ended", job' \in Job, CleanOK', OffersOK',
         UNCHANGED <<credentials, download>>, lock' \in {lock, "free"}, ui' \in {ui, "closed"},
         running' \in {"none", "launcher", "checking", "asking", "stuck", "launching",
                       "game", "manager", "updater"}
  PROVE  UpdateOK'
BY DEF UpdateOK, ProcessOK, WorkOK, TriedOK, Places, Working, Stages

\* The main thread and FrameworkUpdater.exe come after it, or only wait for it.
LEMMA UpdaterStep == ASSUME UpdateOK, Updater PROVE UpdateOK'
<1> USE DEF UpdateOK
<1>1. CASE MainEnds
  <2>1. /\ running = "manager" /\ running' = "updater"
        /\ UNCHANGED <<game, files, credentials, latest, boot, at, job, download, lock, ui>>
    BY <1>1 DEF MainEnds, diskVars, worldVars, updateVars, windowVars
  <2> QED BY <2>1 DEF ProcessOK, CleanOK, OffersOK, WorkOK, TriedOK, Content, Excused
<1>2. CASE DeleteOld \/ MoveNew
  <2>1. /\ UNCHANGED <<running, game, credentials, latest, boot, at, job, download, lock, ui>>
        /\ files' = files \/ files' = [files EXCEPT !.newExe = {}]
    BY <1>2 DEF DeleteOld, MoveNew, worldVars, updateVars, windowVars
  <2> QED BY <2>1 DEF ProcessOK, CleanOK, OffersOK, WorkOK, TriedOK, Content, Excused
<1>3. CASE StartAgain
  <2>1. /\ at = "ended" /\ at' = "ended" /\ UNCHANGED <<game, files, credentials, latest, download>>
        /\ boot' = Nothing /\ job' = NoJob /\ lock' = "free" /\ ui' = "closed"
        /\ running' \in {"none", "launcher"}
    BY <1>3 DEF StartAgain, Gone, Alive, Starts, Reset, diskVars, worldVars
  <2>2. CleanOK' /\ OffersOK'
    BY <2>1 DEF CleanOK, OffersOK, Nothing
  <2> QED BY <2>1, <2>2, NoJobIsJob, WithoutWorker
<1> QED BY <1>1, <1>2, <1>3 DEF Updater

\* The service offers what was published.
LEMMA OffersArePublished ==
  ASSUME OffersOK PROVE Offers \in [framework : SUBSET Versions, game : SUBSET Offer]
<1>1. FrameworkOffer(VersionOf(exe), latest.framework) \in SUBSET Versions
  BY DEF OffersOK, FrameworkOffer
<1>2. GameOffer(current, latest.game, UpdatesFrom) \in SUBSET Offer
  BY VersionsAreGood DEF OffersOK, GameOffer, Offer
<1> QED BY <1>1, <1>2 DEF Offers

\* The launcher runs while no worker does, and starts the next.
LEMMA LauncherStep == ASSUME UpdateOK, Launcher PROVE UpdateOK'
<1> USE DEF UpdateOK
<1>1. /\ UNCHANGED <<game, files, credentials, latest, download, lock>>
      /\ running \notin {"manager", "updater"}
  BY DEF Launcher, StartManager, SkipCheck, StampCheck, CheckForUpdate, DeclineUpdate,
     RefuseElevation, NotElevated, Answered, RestartElevated, Launch, GameExited,
     CloseLauncher, diskVars, worldVars, updateVars, windowVars
<1>2. at = "ended"
  BY <1>1 DEF ProcessOK
<1>3. CleanOK'
  BY <1>1 DEF CleanOK
<1>4. CASE RestartElevated
  <2>1. /\ running' = "manager" /\ at' = "framework" /\ ui' = "idle" /\ UNCHANGED boot
        /\ job' = [NoJob EXCEPT !.stage = "framework"]
    BY <1>4 DEF RestartElevated
  <2>2. job' \in Job /\ job'.stage = "framework" /\ job'.tried = {} /\ ~job'.raised
    BY <2>1, NoJobIsJob DEF Job, NoJob, Stages
  <2> QED
    BY <1>1, <1>3, <2>1, <2>2
    DEF ProcessOK, OffersOK, WorkOK, TriedOK, Places, Working, Stages
<1>5. CASE ~RestartElevated
  <2>1. /\ UNCHANGED <<at, job, ui>> /\ boot' \in {boot, Nothing, Offers}
        /\ running' \in {"none", "launcher", "checking", "asking", "stuck", "launching",
                         "game", "manager", "updater"}
    BY <1>5 DEF Launcher, StartManager, Starts, SkipCheck, StampCheck, CheckForUpdate,
       DeclineUpdate, RefuseElevation, NotElevated, Answered, Launch, GameExited,
       CloseLauncher, updateVars, windowVars
  <2>2. OffersOK'
    BY <1>1, <2>1, OffersArePublished DEF OffersOK, Nothing
  <2>3. job' \in Job
    BY <2>1 DEF ProcessOK
  <2> QED BY <1>1, <1>2, <1>3, <2>1, <2>2, <2>3, WithoutWorker
<1> QED BY <1>4, <1>5

\* A crash may cut a copy short; a version is published while nothing runs.
LEMMA WorldStep == ASSUME UpdateOK, World PROVE UpdateOK'
<1> USE DEF UpdateOK
<1>1. CASE Crash
  <2>1. /\ running' = "none" /\ at' = "ended" /\ boot' = Nothing /\ job' = NoJob
        /\ lock' = "free" /\ ui' = "closed" /\ UNCHANGED <<credentials, latest, download>>
        /\ (at = "copy" /\ Cut) \/ UNCHANGED <<game, files>>
    BY <1>1 DEF Crash, Reset
  <2>2. CleanOK'
    BY <2>1, InstallsGood DEF CleanOK
  <2>3. OffersOK'
    BY <2>1 DEF OffersOK, Nothing
  <2> QED BY <2>1, <2>2, <2>3, NoJobIsJob, WithoutWorker
<1>2. CASE Publish
  <2>1. /\ UNCHANGED <<running, game, files, credentials, boot, at, job, download, lock, ui>>
        /\ \E s \in Stages : latest[s] < MaxVersion /\ latest' = [latest EXCEPT ![s] = @ + 1]
    BY <1>2 DEF Publish, diskVars, updateVars, windowVars
  <2>2. latest' \in [framework : Versions, game : Versions]
    BY <2>1, GamesManagerAssumption DEF OffersOK, Versions, Stages
  <2> QED BY <2>1, <2>2 DEF ProcessOK, CleanOK, OffersOK, WorkOK, TriedOK, Content, Excused
<1>3. CASE NextDay
  <2>1. UNCHANGED <<running, game, files, credentials, latest, boot, at, job, download,
                    lock, ui>>
    BY <1>3 DEF NextDay, diskVars, updateVars, windowVars
  <2> QED BY <2>1 DEF ProcessOK, CleanOK, OffersOK, WorkOK, TriedOK, Content, Excused
<1> QED BY <1>1, <1>2, <1>3 DEF World

\* What an update works on, and what it has installed, is as UpdateOK says.
THEOREM UpdateInvariant == Spec => []UpdateOK
<1>1. Init => UpdateOK
  <2> SUFFICES ASSUME Init PROVE UpdateOK
    OBVIOUS
  <2>1. CleanOK
    BY VersionsAreGood DEF Init, CleanOK, WholeGame
  <2>2. OffersOK
    BY VersionsAreGood DEF Init, OffersOK, Nothing
  <2> QED
    BY <2>1, <2>2, NoJobIsJob
    DEF Init, UpdateOK, ProcessOK, WorkOK, TriedOK, Contents, Places, Working, Stages
<1>2. UpdateOK /\ [Next]_vars => UpdateOK'
  <2> SUFFICES ASSUME UpdateOK, [Next]_vars PROVE UpdateOK'
    OBVIOUS
  <2>1. CASE UNCHANGED vars
    BY <2>1
    DEF vars, UpdateOK, ProcessOK, CleanOK, OffersOK, WorkOK, TriedOK, Content, Excused
  <2> QED
    BY <2>1, WorkerStep, WindowStep, UpdaterStep, LauncherStep, WorldStep DEF Next
<1> QED BY <1>1, <1>2, PTL DEF Spec

\* What is installed came out of a download that was verified: no file of the
\* game or of the framework has bytes nobody published, whatever was cut short.
THEOREM VerifiedOnly == Spec => []OnlyVerifiedIsInstalled
<1>1. UpdateOK => OnlyVerifiedIsInstalled
  <2> SUFFICES ASSUME UpdateOK PROVE OnlyVerifiedIsInstalled
    OBVIOUS
  <2>1. TypeOK
    BY DEF UpdateOK, ProcessOK, CleanOK, TypeOK, Places, Working, Stages
  <2>2. Garbage \notin files.libs /\ \A p \in Parts : Garbage \notin game[p]
    BY VersionsAreGood DEF UpdateOK, CleanOK
  <2> QED BY <2>1, <2>2 DEF OnlyVerifiedIsInstalled
<1> QED BY <1>1, UpdateInvariant, PTL

\* A worker that gets to its end without a cancellation has tried all it was
\* asked for, whatever failed to download or to be installed, or there was no
\* downloads directory, or a stage's file that it couldn't delete.
THEOREM AllAreTried == Spec => []EveryUpdateIsTried
<1>1. UpdateOK => EveryUpdateIsTried
  <2> SUFFICES ASSUME UpdateOK, at \in {"leave", "close"}, job.result # "cancelled",
                      ~(job.raised /\ Excused), NEW s \in Stages, boot[s] # {}
               PROVE  s \in job.tried
    BY DEF EveryUpdateIsTried, Excused
  <2> QED BY DEF UpdateOK, TriedOK, Stages
<1> QED BY <1>1, UpdateInvariant, PTL
=============================================================================
