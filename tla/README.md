# A verification project for MGDF

TLA+ models of the Matchstick game development framework (`src/src/core`), the
TLC runs that check them on small instances, and TLAPS proofs about the HTTP
client with its groups, the WebSocket client, the HTTP server, the saves, the
services, the sounds, the host with its render loop, displays and render settings,
both back ends, the bridge to Streamline and the Games manager. Each module is
translated from the source lines that `PROJECT.json` names under `map`. Every
safety invariant and action property that a run checks is also a theorem, for
every value of the constants that its hypotheses admit; what is left to TLC is
liveness, and listed at the end of "Proofs".

## The system

`core.exe` starts a host process, loads a game's module (a DLL) and runs it on
three threads. What it offers to the module is a set of COM interfaces; behind
them are components with threads, queues and files of their own.

| Component | State | Operations | Talks to | Hard because |
|---|---|---|---|---|
| HTTP client (`NetworkManagerComponentImpl.cpp`) | queue of new requests, map of active ones, per request a state and a handler | send, cancel, poll, stop, destroy | curl; handlers called on the poll thread, on a cancelling thread or on the owner's | cancellation, completion and shutdown race for the one call of the handler |
| WebSocket client (same file) | socket state, message queue, plan of reconnections, raw pointers in the poll thread | send, connect, pump, fail, destroy | curl, the poll thread, the user's handlers | the last reference may go on either thread; reconnecting after a failure in the middle of a message |
| Request groups (`MGDFNetworkImpl.cpp`) | the pending request, its response, the group's map of responses | send, cancel, both kinds of get | HTTP client | the answer may come before the send has returned; responses are keyed by an address |
| HTTP server (`HttpServer.cpp`, `WebServerImpl`) | pending responses, web sockets by the address of their connection, the queue the module polls | handle, respond, send, discard, close, destroy | civetweb's worker threads, the module | workers wait for the consumer; a socket and its connection end in either order; addresses are used again |
| Logger | buffer, flush thread, file | log, flush, flush at a crash | file, HTTP client | batches written outside the lock |
| Statistics manager | buffer, flush thread | push, destroy | HTTP client | the network stops first |
| Save manager | list of saves, pending saves, three names per save on disk | begin, commit, load, delete | file system | seven file system calls per commit, any of which fails or is the last |
| Sounds (`audio/openal`) | pool of sources, per sound the source, the command to start, the memory of having played | create, play, stop, cull, update | OpenAL | more sounds than sources; sources change hands |
| Vorbis streams | a state machine, queued buffers, a count of library users | play, pause, stop, update | OpenAL, Vorbis | errors on the way to playing |
| Host (`MGDFHostImpl.cpp`, builder, module factory) | what has been built, the module, the device it hands out | build, call the module, fatal error, take apart | every component, the module | any thread may end the process; references outlive the device |
| Render loop (`MGDFD3DAppFramework.cpp`, `MGDFApp.cpp`) | device, window, flags of three threads | draw, resize, reset the device, close | the module, the window, the driver | the device is lost at any moment, threads wait for each other |
| Displays and render settings | modes, levels, settings, the pending change, the swap chain | set, save, apply, resize, switch displays | module's threads, render thread, DXGI | settings and displays change while a chain is made of them |
| D3D12 back end and GPU timers | frames in flight, fences, queries | begin, end, wait, resolve | the graphics card | slots and queries are reused while the card works |
| Streamline | what the plugins were told, the chain, the frame's inputs | begin, tag, upscale, present, suspend | NVIDIA's plugins, the back end | a difference between what is believed and what the plugin does |
| Input | lists of events, sets of pads | handle, update, clear, look for pads | main, sim and check thread | three threads, two locks, one writer without |
| Files | objects, their streams, the disk | open, close, create, move, delete | any thread | objects and streams refer to each other |
| Read-only files, storage, metrics | trees of files, JSON, counters | mount, read | | sequential |
| Games manager (C#) | the game and the framework on disk, a download, a window | check, download, install, register, restart | network, file system, the user | failures half way; a worker, a timer and the window |

What each component has to get right:

* HTTP client: an accepted request is answered once, with one outcome, whatever
  races it, also when the client is stopped or destroyed.
* WebSocket client: no message twice or out of order; no access to a socket that
  is gone; a wanted socket is connected again; its destructor returns.
* HTTP server: a request that was let in is answered, by the first who answers; no
  frame goes to a connection that has ended; the destructor returns.
* Groups: a response is found under the handle its sender was given, and kept.
* Logger, statistics: nothing is lost, doubled or reordered; the destructor
  returns.
* Saves: committed data survives failures and crashes.
* Sounds: a source has one holder; priorities decide who is silenced; a culled
  loop comes back.
* Host, render loop: the module is called as its interface says; frames are
  drawn on a device the module knows; a device is replaced after the module has
  let go of the old one; closing ends.
* Displays: the swap chain is that of the last settings, on the displays there
  are; a change is applied once the window is left alone.
* Back ends: nothing is written while the card reads it; samples are measured by
  whoever asked for them.
* Streamline: generation stops before the chain is touched and uses what was
  given for the frame.
* Input, files: a released key reads up; pads are noticed; files outlive streams.
* Games manager: nothing unverified is installed, nothing after the window has
  been closed, and the update ends.

The behaviours that are hard to test are listed one by one in `PROJECT.json`
under `hazards`, each at its line with the properties that look at it.

## Modules

| Module | Models | Checked with |
|---|---|---|
| `HttpPromise` | the abstract promise: a request is sent or refused, settled once, delivered once | refined by `HttpClient` |
| `HttpClient` | the HTTP client and the poll thread | `HttpClient.cfg` |
| `HttpClientProofs` | theorems about `HttpClient` and `HttpClientGroup` | TLAPS |
| `WebSocketClient` | one socket, the poll thread, the user | `WebSocketClient.cfg` |
| `HttpClientGroup` | requests and groups of the module interface | `HttpClientGroup.cfg` |
| `HttpServer` | the HTTP server, its web sockets and the `WebServerImpl` | `HttpServer.cfg` |
| `WebSocketClientProofs` | theorems about `WebSocketClient` and `HttpServer` | TLAPS |
| `Services` | the parts with threads of their own, each with its module below | `Services.cfg` |
| `Logger` | buffer, flush thread, `FlushSync`, destructor | `Services.cfg` |
| `StatisticsManager` | buffer, flush thread, host destructor | `Services.cfg` |
| `RawInput` | keyboard and mouse between the main and the sim thread | `Services.cfg` |
| `Gamepads` | pads between the sim thread and the one that looks for them | `Services.cfg` |
| `WriteableFiles` | file objects, streams, the disk | `Services.cfg` |
| `ServicesProofs` | theorems about all five and `SoundManager` | TLAPS |
| `SaveStore` | the abstract store of saves: a commit happens at once or not at all | refined by `SaveManager` |
| `SaveManager` | commits, restores and restarts | `SaveManager.cfg` |
| `SaveManagerProofs` | theorems about it | TLAPS |
| `SoundManager` | sounds, sources, streams on their sources | `MCSoundManager`, `SoundManager.cfg` |
| `VorbisStream` | a stream's queue and state, the library's users | through `SoundManager` |
| `RenderLoop` | render, sim and main thread, device and window | through `Host` |
| `Host` | WinMain, the builder, the host under `RenderLoop` | `RenderLoop.cfg` |
| `ModuleProtocol` | the abstract promise to a module: the order of its calls | refined by `Host` |
| `RenderSettings` | settings, modes, levels, preferences | through `Display` |
| `Display` | the render thread where it makes swap chains of them | `MCDisplay`, `Display.cfg` |
| `HostProofs` | theorems about `Host`, `ModuleProtocol` and `Display` | TLAPS |
| `D3D12Frames` | frames in flight, fences, GPU counters | through `RenderBackends` |
| `D3D11Timer` | disjoint queries and timestamps | through `RenderBackends` |
| `RenderBackends` | either of them, by the choice of the API | `RenderBackends.cfg` |
| `RenderBackendsProofs` | theorems about both under it | TLAPS |
| `Streamline` | the bridge to the plugins | `Streamline.cfg` |
| `StreamlineProofs` | theorems about it | TLAPS |
| `Installation` | what archives do to files | through `GamesManager` |
| `GamesManager` | launcher, update process, FrameworkUpdater | `GamesManager.cfg` |
| `GamesManagerProofs` | theorems about it | TLAPS |

The proof modules extend two components each where one theorem module covers both;
so `HttpClientGroup`, `HttpServer`, `Display` and `SoundManager` give their `Init`,
`Next` and `Spec` names of their own (`GroupInit`, `ServerInit`, ...).

### HttpClient

`state` and `armed` are `_state` and `_responseHandler` of a request; `loc` says
which container of the manager holds it (`_newRequests`, the batch that `Poll`
has swapped out, `_activeRequests`), `attached` whether its easy handle is in
the multi handle. `pc`, `todo` and `cur` are the poll thread's place in `Poll`.
One action is one critical section or one call: the handler is taken under the
request's mutex (`SetResponse`) and called after it (`CallHandler`), so anything
may come between the two. What curl says (`Perform`, `CompleteConnection`,
`CreateConnection` failing) is a choice. `Stop` and the destructor are actions of
the owner. The destructor's second drain of the queue is `CancelLeftover`.

### WebSocketClient

The socket's `_state`, its life (`alive`, the destructor before, in and after
its wait), the references the user and the poll thread hold, the plan
(`_pendingWebSockets`), the raw pointer in `_activeWebSockets`, the outgoing queue
with the offset of a message partly sent, and what arrived of a fragmented
message. `wire` and `cut` are history: what the server has received whole, and
which messages a connection was cut in. A condition variable that wakes up on its
own is an action, as the standard allows it.

### HttpClientGroup

Addresses of pending requests are model values that are allocated and, with
`Reuses`, given out again when nobody refers to the object any more.
`CoreSend` and `Assign` are the two halves of `_pending = SendRequest(...)`, and
`ReturnHandle` is the second read of `_pending` for the handle; `CancelTests`,
`CancelLoads` and `CancelCalls` are the test, the read and the call of
`CancelRequest`. None of them takes the mutex, and the handler, which resets
`_pending`, may run between any two: `SendRequest` can return nullptr though the
response waits under the address, and `CancelRequest` can call a member of no
object (`broken`). Both are listed under "Disagreements without a run", and the
properties that are checked hold in spite of them. A request is used from one
thread of the game.

### HttpServer

Civetweb gives every request and every connection a worker. `work` is the place
of a request's worker in `HandleRequest`, `wpc` that of a connection's in the web
socket handlers; `cur` is the socket that was made for the connection now at an
address, `listed` the keys of `_webSockets`. The shared pointers are not counted:
`Referenced` says who has one, `DropSocket` and `DropServer` start a destructor
on the thread that may have dropped the last. `~ServerWebSocket` is two actions
(`DestructorReads`, `CloseWebSocket`), as it lets go of the lock in between, and
`SendFrame`/`FrameSent` hold the shared lock that `ForceClose` waits for. With
`Reuses` an address may be that of a later connection. `http_server` is without:
with it a socket of which the entry was taken by another's destructor is never
told that its connection has ended, and `OpenSocketsHaveConnections` fails too.
A worker that drops the last reference to the server joins itself in `mg_stop`:
the model lets it wait for ever, and `ServerStops` speaks of the other threads.

### Services: Logger, StatisticsManager, RawInput, Gamepads, WriteableFiles

They share no state, so `Services` chooses at the start which of them moves;
what it checks of each it checks of all their interleavings.

A buffer under a mutex, the thread that takes it and writes it outside the lock,
and the destructor. `pc` is the thread's place, `batch` what it has taken. The
wait with a time out is `asleep`, from which a notification or the time out wake
it. The statistics manager adds that `_run` is cleared without the mutex and that
`Host::~Host` stops the network while the manager still lives.

`RawInput` has the pending lists with the `UINT8` of their length (`ListSize` is
2^8 of it), what `ProcessSim` has read of them, and what the module is shown;
`ClearInput` is two steps without a lock between those of the sim thread.
`Gamepads` has the two sets, each walker's copy and the pad it is about to move.
`WriteableFiles` has the count of references of every object with the pointers
between it and its streams, and the disk as folder, file or nothing per path.

### SaveManager

What is on disk of a save: whether its directory is there, which commit its
`data` and its `backup` hold (0: none), which commit `gameState.json` describes,
with values for a file that is torn and a directory partly removed. `~PendingSave`
is one action per file system call, each with its failure. `Crash` is a restart
at any point: only the disk is left. `installed` and `deleted` are history.

`SaveStore` is what a game can know of this: per save the commit that a load finds,
the save of each game state, the commits begun. Under the mapping (`Found`,
`Bound`, `Open`) a commit happens at one call, the rename of the pending directory
to `data`; the calls before it and after it leave the store alone, since `GetVFS`
brings back the backup while `data` is missing. A failed call before the rename is
the store's `Fail`, and of a deleted save nothing is promised.

### SoundManager

`mix` is what an operation works on: the pool of free sources, per sound its
source and the flags `_isActive`, `_startPlaying`, `_wasPlaying`, per source what
OpenAL plays. Operators take and return it, as the code calls `Deactivate` and
`Reactivate` in loops. `Orders` are the outcomes that `std::sort` may leave with
the comparison of the code. `SizeT` is 2^w of `size_t`. A stream is a record of
module `VorbisStream`: the pieces queued on its source, how many the source has
played, and what is decoded; the operators there are the stream's methods.

### RenderLoop

`device` is the back end's (`up`, `lost` once the driver has removed it, `none`
when uninitialised); `awaiting` is `_awaitingD3DReset`; `owed` and `holds` are the
module's side of the protocol. `rpc`, `mpc`, `spc` are the places of the render,
main and sim threads. `sent` is a window message that the render thread has sent
and waits for.

### Host, ModuleProtocol

`stage` is how far `WinMain` has come, `module` the life of the module,
`hasDevice` and `backBuffer` what the host hands out; every action of the loop
that calls the host is conjoined with what the host does. `fatals` has the place
of each thread in `Host::FatalError`. `ModuleProtocol` is what interface
`IMGDFModule` says of the order of calls, and `Host` implements it: its variables
are functions of the host's (`Protocol`).

### RenderSettings, Display

`want` is what the module has set, `seen` the output as last described, `desc`
what the render thread has made of both. Levels are numbers, modes a size and a
rate. `change` is the change object that the module has open: `Setter` checks a
setting and keeps it there, `ApplyChange`, its release, gives `want` what it holds
and checks nothing again, as in the code, however much later. `LoadPreferences` is
four steps, what it does before, in and after its section under the mutex, and
saves what it had to choose. `Display` takes the render thread from the top of a
turn through the new chain and back; what the module, the user and the displays do
comes between any two of its steps. `SetFullscreenState(FALSE)`, whose result
`RTSetWindowed` doesn't look at, is taken to succeed.

### D3D12Frames, D3D11Timer, RenderBackends

`queue` holds what has been submitted to each queue of the GPU and not run yet;
`completed` the two fences. A slot of a frame is its number modulo
`FramesInFlight`. `results` is what the query heap holds, by who wrote it, so that
a sample made of two writers' stamps can be told. `D3D11Timer` has the pool of
disjoint queries and each counter's pairs, and a serial number for every scope.

### Streamline

`s` is the bridge's `StreamlineState`, `plugin` what the plugins have been told,
`given` what the module gave for this frame: the properties are about their
difference. `Failing` names the calls that may fail.

### Installation, GamesManager

The game is three parts on disk, each the set of versions whose bytes are in it
(more than one when a copy was cut short), `Garbage` for bytes nobody published.
`at` is the worker's place in `DoWork`, `ui` and `timer` those of the other two
threads, `lock` the presenter's. `running` says which program runs. `download` is
each stage's file. Deleting one may fail: where the code catches that
(`Cleanup`) the file stays; in the finally block of a stage (`FinallyFails`,
`DiscardFails`) the exception goes to `DoWork`'s outer catch (`report`), and the
stages that follow are skipped (`job.raised`). So it does when no downloads directory
can be made (`DirectoryFails`) and when a game's archive can't be opened (`Install`).

## Runs

`PROJECT.json` says of every run what it shows, and names for each of its
properties a mutation of the model that breaks it.

| Run | Shows |
|---|---|
| `http_client` | answered once whatever races it; implements `HttpPromise` |
| `websocket_client` | no access to a dead socket, messages in order and once, destructors on the owner's thread return |
| `http_group` | a settled request has its response; responses wait under the handle that was returned, if one was, and no other's |
| `http_server` | first answer final, discarded requests answered, frames to live connections, destructor returns |
| `services` | entries and statistics reach their destination, destructors return, keys and pads are read right, files outlive streams |
| `saves` | committed data survives failures and crashes; implements `SaveStore` |
| `sounds` | a source has one holder, culled loops resume, streams play to their end |
| `render_loop` | implements `ModuleProtocol`; devices live where used and replaced after the acknowledgement; closing ends |
| `backends` | memory of the GPU is idle when reused, samples are whole, waits end |
| `streamline` | generation off around the chain and from this frame's inputs only |
| `display` | the swap chain follows settings and displays; a change is applied unless the user resizes once more |
| `updates` | nothing unverified or after a closed window is installed; updates end |

### Disagreements without a run

Each of these is stated as a property in its module, and TLC refutes it when it
is put in place of the others in the configuration named, with the change given.
It is what a comment, an assertion or the interface definition (`MGDF.idl`) says
and the code does not do:

| Property | Configuration | The code |
|---|---|---|
| `WebSocketClient!ClosedIsTheLastAccess` | `WebSocketClient.cfg` | `Fail` notifies a condition variable after storing CLOSED, although the comment calls the store the last access |
| `WebSocketClient!EveryCloseIsAcknowledged` | `WebSocketClient.cfg` | the poll thread may drop the last reference (NetworkManagerComponentImpl.cpp:601) and then waits in the destructor for itself; the comment at NetworkManagerComponentImpl.hpp:183 says the destructor blocks until the poll thread has acknowledged |
| `HttpClientGroup!HandlesAreUnique` | `HttpClientGroup.cfg`, `Reuses = TRUE` | a freed request's address is handed out as a new handle while the old response waits |
| `HttpClientGroup!HandlerFindsPending` | `HttpClientGroup.cfg` | the handler runs before the assignment of `_pending` that its assertion expects |
| `HttpClientGroup!GroupedRequestsGetHandles` | `HttpClientGroup.cfg` | `SendRequest` reads `_pending` a second time for the handle, without the mutex (MGDFNetworkImpl.cpp:149, :168); when the handler has reset it (:158) it returns nullptr for a request sent in a group (MGDF.idl:2030) |
| `HttpClientGroup!CancelFindsItsRequest` | `HttpClientGroup.cfg` | `CancelRequest` tests `_pending` and reads it again for the call, without the mutex (MGDFNetworkImpl.cpp:172): the call may be on nullptr or a freed object |
| `HttpServer!CloseReachesItsSocket` | `HttpServer.cfg`, `Reuses = TRUE` | a socket's destructor finds its connection ended and the address in use by the next, and closes that (HttpServer.cpp:126; comments at :269 and HttpServer.hpp:100) |
| `Logger!FlushedAtDestruction` | `Services.cfg`, `L!` | entries logged during the thread's last write stay in the buffer |
| `Logger!FileIsOrdered` | `Services.cfg`, `L!` | `FlushSync` overtakes the batch the flush thread has taken |
| `StatisticsManager!FlushedAtDestruction` | `Services.cfg`, `S!` | the same loop as the logger's |
| `RawInput!ClearedReadsUp` | `Services.cfg` | `ClearInput` (XInputManagerComponentImpl.cpp:65) takes no lock: an update under way writes back what was cleared |
| `RawInput!PressesWereMade` | `Services.cfg` | it zeroes the lists and keeps their lengths: key 0 reads as pressed |
| `RawInput!EveryReleaseIsTaken` | `Services.cfg` | a list's `UINT8` length wraps at 256 events (:101) |
| `Gamepads!GonePadsReadUp` | `Services.cfg` | a pad that is taken away keeps its last state |
| `WriteableFiles!OneStreamPerPath` | `Services.cfg`, `F!` | two objects of one path don't know each other, and `Open` doesn't look at the writer |
| `WriteableFiles!MissingFilesCanBeMade` | `Services.cfg`, `F!` | `_isFolder` is read once, so the object of a folder that is gone refuses to be written |
| `SaveManager!ListedSavesLoad` | `SaveManager.cfg` | a directory made for a commit that failed is listed after a restart |
| `SoundManager!AsManyActiveAsPossible` | `SoundManager.cfg` | the number to deactivate is a `size_t` that wraps below zero (OpenALSoundManagerComponentImpl.cpp:331) |
| `SoundManager!StoppedSoundsStaySilent` | `SoundManager.cfg` | `Stop` leaves the command to start in place |
| `SoundManager!SortsByPriority` | `SoundManager.cfg`, `Volumes = {1, 2}` | the comparison given to `std::sort` holds both ways |
| `SoundManager!StreamsPlayWhenAsked` | `SoundManager.cfg` | a stream's source goes on for a moment in a state that says it doesn't |
| `SoundManager!SourceHasOneHolder` | `SoundManager.cfg`, `OpenFails = TRUE` | a stream that can't be played again keeps the number of a source that it has given back |
| `SoundManager!LibraryOutlivesStreams` | `SoundManager.cfg`, `OpenFails = TRUE`, `Streams = {m1, m2}` | a stream that can't be opened counts itself off the library twice (VorbisStream.cpp:212), under another that decodes with it |
| `RenderLoop!ResetHasDevice` | `RenderLoop.cfg` | a device removed inside `RTInitD3D` is uninitialised again before the module is told of the reset |
| `Host!AcknowledgedDevicesAreGone` | `RenderLoop.cfg` | the host forgets the device after it has told the module, which may take it again in between (MGDFHostImpl.cpp:345) |
| `Host!RunsWithoutSound` | `RenderLoop.cfg`, `HasSound = FALSE` | the destructor stops a sound manager that isn't there (:215), "we can still probably run" (MGDFHostBuilder.cpp:72) |
| `Host!PanicsAfterNew` | `RenderLoop.cfg` | a fatal error of the render thread reaches `Panic` while `STNew` runs |
| `Host!FirstDrawHasDevice` | `RenderLoop.cfg` | `RTBeforeFirstDraw` comes after a device that was removed in the first `RTInitD3D` |
| `D3D11Timer!SamplesBelongToTheirScope`, `ScopesEndWithTheirFrame` | `RenderBackends.cfg`, `Late = TRUE` | `Timer::End` (MGDFTimer.cpp:486) forces no open counter to end |
| `Streamline!PausesWithoutInputs`, `PausedHoldsNothing` | `Streamline.cfg` | a frame without a token leaves generation and the tags as they were |
| `Streamline!ChainChangesWithoutGeneration`, `GeneratesOnlyFromThisFrame` | `Streamline.cfg`, `"generation"` in `Failing` | when the plugin refuses to be turned off, nothing else is done |
| `Streamline!GenerationNeedsLowLatency` | `Streamline.cfg`, `"latency"` in `Failing` | likewise for Reflex |
| `Display!WindowFollowsSettings` | `Display.cfg` | the style is that of the last chain that was made |
| `Display!ChoosesHighestRate` | `Display.cfg`, with modes of rates 60000/1001 and 120/1 in `MCOutputs` | numerators of refresh rates are compared, not rates (MGDFRenderSettingsManagerImpl.cpp:504) |
| `Display!RemovalIsNotFatal` | `Display.cfg` | a device removed while a chain is made ends the program |
| `Display!HDRFollowsDisplay` | `Display.cfg`, white level 1000 in `MCOutputs` | HDR that is turned on or off is noticed by the white level only (MGDFRenderSettingsManagerImpl.cpp:397), and a display in HDR can have that of one without; then the chain stays what it was, against MGDF.idl:732 |
| `Display!ChainHasSupportedLevel` | `Display.cfg`, levels {1, 2} and {1, 4} | a preference is compared with the highest level of the device only (:763), "ensure the multisample level is not above what is supported"; one between two levels is taken, and the chain made with the quality of a level that isn't there less one (:611) |
| `Display!ChainHasSupportedLevel` | `Display.cfg`, `KeepsChanges = TRUE` | a level is checked when it is set (:95-105) and not again when the change is released (:25-82), after a reset of the device; the chain is made with one it hasn't, likewise (:611) |
| `Display!GeneratesWhatIsSupported` | `Display.cfg` | frames checked against the last device's support, between `InitFromDevice` and `SetGraphicsSupport` for one, are applied to this one's (:159-164, :25-82), against MGDF.idl:765-767 |
| `Display!AppliedWhileResizing` | `Display.cfg` | a turn that resizes doesn't look for a pending change (MGDFD3DAppFramework.cpp:700-716), "the settings will be applied to the render system on the next frame" |
| `Display!DisplaysAreKnown` | `Display.cfg`, `CheckFails = TRUE` | a check that fails is not repeated (MGDFD3DAppFramework.cpp:671) |
| `GamesManager!CancelledIsNotInstalled` | `GamesManager.cfg` | a cancellation after the last block is not noticed |
| `GamesManager!ManagerStaysRunnable` | `GamesManager.cfg` | FrameworkUpdater deletes the old file before it moves the new one (Program.cs:32) |
| `GamesManager!GameIsWhole` | `GamesManager.cfg` | the configuration is copied first (GameUpdater.cs:105), so a copy cut short has the new version's name |
| `GamesManager!RegistersWhatIsInstalled` | `GamesManager.cfg` | what is registered is the game as it was at the start (UpdateGamePresenter.cs:223) |
| `GamesManager!FailuresDontBailOut` | `GamesManager.cfg` | a downloads directory that can't be made, or a framework file that can't be deleted (UpdateGamePresenter.cs:162, FileSystemExtensions.cs:30-35), takes `DoWork` to its outer catch (:250) and past the game's stage; the comment at :133 says of the framework's failures "we may still be able to download a game update, so don't bail out yet" |
| `GamesManager!LauncherGoesOn` | `GamesManager.cfg` | a refused elevation leaves a launcher that does nothing (UACControl.cs:150) |

### Read, not checked

Seen in the code while it was modelled, and in no property: a window restored
while there is no chain keeps `_minimized` (MGDFD3DAppFramework.cpp:901); the
window's size is read before the flag of the pending resize is cleared; a fatal
error before `SetFatalErrorHandler` goes nowhere, a module that calls `FatalError`
from `Panic` waits for itself, threads go on after `Panic`, and `_hasDumped`
(main.cpp:151) is read by several; `GetFrameFence` takes no lock. A virtual key
above 255 drops the rest of its batch of input; `RI_KEY_MAKE` and
`MOUSE_MOVE_RELATIVE` are zero, so that their tests always hold; `IsButtonPress`
sees a press only if it is asked in between. The progress timer calls into the
UI thread holding the lock that the cancel button takes: the model has that
deadlock, and `UpdateEnds` ends where it may begin (`ui` cancelling or closing).

### Bounds

* Three requests and two callers: one request settled by each of cancellation,
  completion and shutdown, with two threads cancelling the same one. There is no
  symmetry set, as the run checks liveness too.
* Three messages on a socket: one sent, one cut, one behind it. The number of
  reconnections is not bounded; what a socket remembers of an old connection
  (`Aged`) is one value.
* One request and two sockets on two connections, each socket and the request
  being able to outlive the `WebServerImpl`: a socket keeps the server up while the
  other's connection is handled. Requests share only the drain with each other.
  For `CloseReachesItsSocket` one address is enough.
* Four log entries and a threshold of two: two batches, one of them full.
* Three commits of two saves by two states with two crashes: a commit over an
  interrupted commit over a good one. One save is pending at a time. With
  `MaxPending = 2` `CommittedDataSurvives` holds as long as `RestoreMayFail =
  FALSE`: after a restore that failed, the next pending save's commit removes the
  backup that is the only copy. That is the code's behaviour, listed as a hazard.
* Two sounds of one file and a stream of three pieces and two buffers on two
  sources: every operation that culls has something to cull, and something it
  must not; a buffer is filled again and the end is reached with one queued.
* Two removals of the device, two closes, one retry, two threads in a fatal
  error: a removal inside the replacement of a removed device, inside a close.
* One key and one button with lists of four events (`ListSize`): the wrap is two
  rounds of down and up away. Two pads: one lost while the other is found. Two
  file objects, two streams, two paths and the root.
* Two frames in flight, three frames, two queries per frame, a device replaced
  once: a slot is used, waited for, used again, and its results read.
* Two displays, one in HDR with a mode in HDR and a larger one without, the other
  without HDR and with the smaller mode only; two levels; two settings set or saves in
  any number of changes, one change of displays, one device lost; resizes without
  bound. A change can set one setting over another, span a step of the render thread,
  or meet another change; one is open at a time. In HDR the display has another white
  level than 1000, the one device's levels are among the other's, and no change is
  open while the device is replaced (`KeepsChanges`): the disagreements above are what
  happens otherwise.
* Two versions, two days, one crash, one block and one redirect: an update, an
  interrupted one, the next day's. One manager runs at a time; versions are
  published while none does.

`CHECK_DEADLOCK FALSE` stands where the system may stop: the manager is
destroyed, the messages or entries of the bound are used up, `Run` has returned.

### Fairness

Threads that can run do run: weak fairness of each thread's step. Beyond that:

* `WebSocketClient`: the server does not send for ever without a pause
  (`ReceiveEnds`, strong), and a planned time comes.
* `HttpServer`: `mg_stop` closes the connections, and senders do not keep a
  socket's lock from `ForceClose` for ever (strong). Nobody has to answer or to
  release anything.
* `Logger`, `StatisticsManager`: waits time out, as `wait_for` does.
* `Gamepads`: the sim thread updates and the check thread wakes up.
* `SoundManager`: the source plays and the sim thread updates.
* `Host`: the pump serves queued messages in order and sent ones between
  them; the user does not resize for ever. The module need not answer a reset:
  the render thread's deadline is what liveness rests on there.
* `D3D12Frames`: the GPU works while there is a device (nothing is assumed of it
  when it has been removed).
* `Display`: the render thread runs. The user may resize for ever: the property, not
  the specification, says "applied or resized once more". The module need not release
  its change.
* `GamesManager`: its threads run, the worker also when the lock it needs is
  taken and given back for ever (strong); the user answers what is asked.

Nothing is assumed of servers, of users, of modules, or of a decision to stop.

## Proofs

`HttpClientProofs` proves for any sets of requests and callers:

* `Invariant`: `IInv` is an invariant of `SafeSpec`.
* `TypeCorrect`, `AtMostOnce`, `DroppedDetached`, `DestructionAnswers`: the
  invariants of run `http_client`; `NoneOrphaned`: where a request that nobody has
  answered is to be found.
* `Refinement`: `SafeSpec` implements `Promise!SafeSpec`.

`HandlerFiresAtMostOnce` is not inductive: that a handler is called once depends
on who holds it. `IInv` adds, beside the types,

* `CallingOK`: a thread that has taken a handler is the only one, and the request
  is settled and not yet answered;
* `SettledOK`: a request is armed exactly while it is requesting, is somewhere in
  the manager while it is, and if it is settled and unanswered some thread has
  its handler;
* `PollOK`: what the poll thread's place says of the containers (nothing is in
  the batch outside the loop that starts it; nothing is active after its exit);
* `ManagerOK`: what the destructor's progress says (it begins when the poll
  thread has been joined, and ends with the queue empty).

The proof that a step preserves `IInv` has a lemma for `SetResponse`, which five
actions use, and one case per action. It rests on `ThreadsAssumption` only: the
poll thread, the owner and the callers are different threads, and `NoReq` is no
request.

`StreamlineProofs` proves for any calls that may fail but those that set the
options of generation and of the latency (`Obeyed`), and any sizes, the three
invariants of run `streamline`. None of them is inductive: what the plugin does
is decided frames before. `IInv` adds `Believes`, which says that the bridge may
believe more of the plugin than is so but never less (a plugin that generates is
believed to, under a chain made for it), `ChainOK`, `FrameOK` (what the bridge has
of this frame is what was given for it) and `LatencyOK`. The two exceptions are
needed: with either call failing TLC refutes the invariants (above).

`GamesManagerProofs` proves for any bounds `ClosedWindow`: from `Withdraw` to the
next stage the window is idle and can't be cancelled (`WindowOK`), so that a
closed one finds the worker elsewhere; and `OneCheckPerDay`: a day that is not
stamped was not asked about, nor any to come (`StampOK`). `VerifiedOnly` and
`AllAreTried` rest on `UpdateOK`: that a file was verified is known where it is
downloaded and used where it is installed, several stages and a second process
later, so the invariant carries, by the place of the worker, the stage it is in,
which files are on disk and in what condition (`CleanOK`, `WorkOK`), and what was
offered, asked for and tried (`OffersOK`, `TriedOK`). What `AllAreTried` excepts, a
directory that could not be made and a file that could not be deleted, the invariant
carries as `Excused` from where it is raised to where the window is closed; without
the exception TLC refutes it (`FailuresDontBailOut`, above).

`HostProofs` proves for any bounds and with or without sound `LiveDevices` and
`CalledAsPromised`, the refinement of `ModuleProtocol`. Whether there is a device
where one is used depends on the places of three threads at once. `StagesOK` and
`ThreadsOK` say how far these can be apart (no thread of the framework runs before
the window is there or after `Run` has returned; the render thread begins after
the sim thread's first update), `DeviceOK` and `ModuleOK` what is known of the
device, and of what the module was told, at each place of the render loop. For the
refinement each of the host's calls is one step of the protocol and every other
step, a removal of the device among them, leaves it alone; that `Panic` is called
once is shown first, from the exchange that guards it. The module's part of the
protocol, when it answers, is an assumption in the protocol as in the host.

Behind it are the displays. `ReleasedInWindow` takes no assumption: the chain is in
full screen only at places between which and a release `RTSetWindowed` is passed,
and only in the mode of `current` (`ChainOK`). `ChainFits` needs what is decided at
`OnResetSwapChain` to hold at every later place unless a change is pending
(`FollowsOK`), the description of the displays to be that of the last message
(`SeenOK`), and levels, that of an open change among them, to be the device's
(`LevelsOK`); a release only takes over what is there already. It has four
hypotheses, each of which the code needs: without `WhiteTellsHDR` or `LevelsNest`
TLC refutes what it says (`HDRFollowsDisplay` and `ChainHasSupportedLevel`, above;
both came up when the proof did not go through), likewise with `KeepsChanges`
(`ChainHasSupportedLevel`), and with `CheckFails` it refutes `DisplaysAreKnown`.

`SaveManagerProofs` proves for any saves, states, commits and crashes
`StatesFollowData`, `NothingComesBack` and, under `Intact`, `CommitsSurvive` and the
refinement of `SaveStore`, `SavesAreAStore`. Where
the last data of a save are depends on the step of the commit under way
(`CommitOK`), and that removing the backup loses nothing rests on the pending save
having been begun with its data in place and every other commit having put them
back (`PendingOK`). `Intact` says that one save is pending at a time or that
restores succeed: with neither the promise is broken, as said under Bounds. For the
refinement what a load finds is shown to depend on `installed` and `deleted` alone
(by `CommitOK` and what is known of a save's directory), so that only the rename and
a deletion change the store's content; `StoreInv` adds that every commit has a number
of its own (`NumbersOK`), that the save a commit works on is that of its game state
until `SetSave` (`BoundOK`), and that of a save which no commit has reached there is
nothing on disk (`NothingOK`).

`WebSocketClientProofs` proves for any number of messages `AttendedOnce` and
`WholeAndInOrder`. That the poll thread's raw pointer is to a living socket rests on
who holds a reference where (`RefsOK`), on a connection being planned only for a
socket without one (`PlanOK`), and on a socket's being freed only when closed
(`LiveOK`). The messages need `BuffersOK`, by which bytes of one connection are gone
before the next is made, and `OrderOK`, which orders what has gone out before what
is queued. The server's half proves `OpenSockets` and `FirstAnswer` from
`ServerInv`: the worker of a connection, its socket and their life agree at every
step of a close from either end. `OpenSockets` has the hypothesis `~Reuses`, that no
connection gets the address of an earlier one while a socket remembers it; with
reuse TLC refutes what it says of the peer (`CloseReachesItsSocket`).

The groups in `HttpClientProofs`: `SettledAnswer` for any addresses, and
`UnderTheirHandle` with `~Reuses`, since the group's map has the address of a
request for its key. `SendRequest` assigns `_pending` and reads it again for the
handle, with the handler between the two if it is quick: the caller has the address
its response is kept under, or `nullptr` and nothing to ask for it with. The
invariant says that two requests that can still be named have different addresses
(`AddrsDiffer`), that the handle is that of the request or none, and that a response
stays where it is until it is fetched (`ResponsesKept`).

`RenderBackendsProofs` proves for any number of slots, frames, queries, devices and
changes `MemoryIsIdle` and, of what `SamplesAreWhole` says, the part about Direct3D
12, `RecordedWhole`. Both say that what the CPU has read off a fence is enough to know
what the GPU has done; so the invariant is about what is still in the queues.
`OrderOK`: in the direct queue a frame's work, the resolve of its queries and its
signal follow one another and nothing of a frame whose fence has been reached is
left. `IdleOK`: an idle signal is the last of its queue, the queues visited before
are empty. `SamplesOK` and `MarksOK` follow a query from the mark in the list
over the heap to the results, `ScopesOK` says which recording an open scope
belongs to. The proof that a step preserves the marks of the open list is by far
the longest, since a scope may be begun, ended or outlive its recording anywhere.

For Direct3D 11 `QueriesInOnePlace` is proved for any counters, pool, pairs and
scopes: a disjoint query is in the pool or pending (`PoolOK`), and a pair is on its
counter's stack or noted under one disjoint query (`PairOK`), through frames that
find the pool empty, counters that go, and devices that can't make a query.
`SamplesWhole` then adds what the queries will have been ended by once the GPU has
caught up (`Carries`): the timestamps of a noted sample carry its own scope, unless
that scope is still open and its frame has not ended (`ScopesInFrame`). It has the
hypothesis `~Late`, that a module ends its scopes in the frame they began in: with
`Late` TLC refutes it (`SamplesBelongToTheirScope`, above), since `Timer::End` forces
none to end. `QueriesInOnePlace` does not need it.

`ServicesProofs` proves five things that share no state, each with an invariant that
the other four leave as it is: `FilesOutlive`, where the count of references is that
of the users and of the streams (a bag of pointers counted two ways);
`TakenReleases`, where a release that was handled is in the list, in what an update
has read, or has been taken, whichever lock is held; `PadsInOneSet`, where each
thread's copy has only pads that it alone moves; `EntriesInOnePlace`, where buffer,
batch, direct write and file are counted, and add up to what was logged, so that no
two share an entry; and `StatisticsInOrder`, where what was posted, queued, taken
and buffered is, one after the other, what was pushed. A list of input events is
taken to have more than two places (256 in the code): in a shorter one a wrap
leaves it no shorter, and what the run excludes as `wrapped` could not be told.

The sounds are proved in the same module, for any sounds, streams, sources,
priorities and volumes. `SoundsInv` has three parts. `CountsOK`: the references to a
file are those of the sounds created of it. `VoicesOK`: what is queued on a stream's
source are the last pieces decoded (`StreamOrder`, the safety half of
`StreamsPlayToTheEnd`), and the count of the library is that of the open streams at
least (`LibraryStays`). `MixOK`: no two users have the same source and none lies in
the pool (`OneHolder`), and a loop that was asked for is heard, about to be or
remembered (`LoopsSurvive`). `MixOK` is a predicate over a mix, which need not be a
state's: `PrioritizeSounds` deactivates and reactivates in a loop, and what its turns
keep is shown (`LoopKeepsMix`) by an induction on the number of the turn. The
induction theorems of the library take a predicate, which these provers can't
instantiate; `Inductive` is stated over a set of numbers instead, and has its least
counterexample from the order of finite sets. `PriorityIsSpared` is a property of
the step and needs the invariant only for types. `OneHolder`, `LoopsSurvive` and
`LibraryStays` have the hypothesis `~OpenFails`, that no file of a stream fails to
open: with it TLC refutes what the first and the last say (above).

TLAPS takes every constant to be what its assumption says and no more, so that the
assumptions of the modules also say of the model's own values (`NoSocket`, `Null`)
that they are none of the others.

Model-checked only:

* liveness and everything under fairness, in every module: TLAPS has no ENABLED;
* that streams come to their end, in `StreamsPlayToTheEnd` of run `sounds`;
* `EntriesAreWrittenOnce`, which also says that entries reach the file at all: of
  it `EntriesInOnePlace` is proved.

## Not modelled

See the components with status `not_modelled` or `partly`, each with its reason.
Left out everywhere: the content of messages, headers, logging, formats of
files, arithmetic of rectangles and sound, and undefined behaviour from
unsynchronised reads of flags other than where a module's comment says so. The
read-only virtual file system, the storage handlers and the tables of resources
and parameters are sequential code over data that is read once.

## Plan

1. (done) HTTP client with its proofs, WebSocket client, request groups, HTTP
   server, logger, statistics, saves, sounds.
2. (done) Streams under the sound manager; the host over the render loop and the
   protocol of a module; settings and displays; both back ends and the GPU
   timers; Streamline; input; files; the Games manager. Proofs about Streamline
   and the Games manager.
3. (done) Proofs of the safety invariants and action properties of all runs, and of
   the refinements of `HttpPromise`, `ModuleProtocol` and `SaveStore`.
4. The log as a refinement of an abstract store of entries; so far
   `EntriesInOnePlace` says that none is in two places.
5. `WebSocketImpl`, whose queues go before the socket that fills them, the metrics
   server, and the logger's remote endpoint.
