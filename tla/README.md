# A TLA+ model of KDM

KDM is the X display manager of KDE 4. Its back end (`src/kdm/backend`) is a root
daemon, the *master*, that starts X servers and login sessions on a set of
*displays*, restarts them when they end, lets them go to a text console, serves X
terminals over XDMCP, and shuts the machine down on request. Each session is run by a
forked *sub-daemon*, which talks to PAM on one side and to a *greeter*
(`src/kdm/kfrontend`) on the other. This directory models the daemon, the sub-daemon
and the greeter: what they keep, what each event changes, and what must be true
whatever the order in which processes die, packets arrive, users act and timeouts
expire.

## Inventory

| Part | State | Operations | Hard behaviour | Correct if |
|---|---|---|---|---|
| Master daemon, `dm.c` | list of `struct display` (`status`, `zstatus`, `pid`, `serverPid`, `serverStatus`, `startTries`, `userSess`...), `stopping`, `sdRec`, `utmpList` | `mainLoop`, `startDisplays`, `rStopDisplay`, `exitDisplay`, `reapChildren`, signals, `processDPipe`, `processGPipe`, `stoppen`, `cancelShutdown`, console mode | events of many children in any order; state that waits for a death | status matches the processes; nothing is forked over; what is stopped goes away; a stopping daemon ends |
| Server start, `server.c` | `startingServer`, `serverTimeout` | `startServer`, `startServerOnce`, `startServerSuccess/Failed/Timeout`, `abortStartServer` | one start at a time; timeouts race SIGUSR1, deaths and stops; retries | the pointer never dangles; attempts are bounded; the queue moves on |
| Display list, `dpylist.c` | `displays`, `disphist` | `newDisplay`, `removeDisplay`, `startReserveDisplay`, `any*Displays` | removal while in use | `anyRunningDisplays` waits for all children |
| Configuration, `resource.c`, `access.c`, `socket.c`, with its reader, `kdm_config.c` | value arrays, names and times of files, the reader process, access list, listening sockets | `getDeps`, `needsReScan`, `scanServers`/`addServers`, `load*Resources`, `scanAccessDatabase`, `updateListenSockets` | files change while they are read; a reader that dies, or that knows an older file | displays come and go as `kdmrc` says; no change is missed; nothing runs without settings |
| Control sockets, `ctrl.c` | connections, line buffers | `login`, `suicide`, `reserve`, `resume`, `manage`, `unmanage`, `shutdown`, queries | commands in any state of a display; split lines | no command brings a dying display back |
| Shutdown, `dm.c` + `ctrl.c` + `util.c` | `sdRec`, `d->sdRec` | schedule, wait, expire, cancel, override | rescheduled or cancelled while displays stop; permissions | it happens when due, and only with permission |
| Virtual terminals, `dm.c` | `serverVT`, `follower`, `activeVTs` | `allocateVT`, hand-over in `reapChildren` | a display waits for the VT of a zombie, through a pointer | no VT twice; a VT stays with its server; nobody waits for ever |
| XDMCP, `xdmcp.c`, `protodpy.c`, `access.c` | `protoDisplay`s, session ids, XDMCP displays | REQUEST, MANAGE, KEEPALIVE, queries | lost, duplicated, delayed, reordered packets | one session per accepted request; a repeated packet does no harm |
| Session sub-daemon, `session.c`, `client.c` | where it is in `manageSession`, `verify`, PAM conversation | `ctrlGreeterWait`, `conv_interact`, `PAM_conv`, `verify`, `startClient`, `finishGreet` | two processes over untyped pipes, PAM's free choice of prompts, automatic logins, crashes of the greeter | each side reads what the other one meant; nobody waits for the other; only verified users get a session |
| Chooser, `choose.c` | host records, `pingTry` | `doChoose`, pings, packets, `chooseHost` | messages cross commands; hosts known by address | the menu shows what the sub-daemon knows |
| Greeter, `kgapp.cpp`, `kgverify.cpp`, `kgreeter.cpp`, `kgdialog.cpp`, `kdmshutdown.cpp`, `kchooser.cpp`, the plugins of `libs/kdm` | a `KGVerify` per dialog (`coreState`, `running`, ...), plugin state, `sendInteract` | verification, failure timers, countdown, renewal of passwords, shutdown dialogs | event loop against pipe; dialogs over dialogs | the same, seen from the other side |
| Messages, `process.c` | pipes | `g*` primitives, `runAndWait` | partial reads | sequential |
| Others | - | authority files, boot manager, wtmp, `inifile.c`, generator of configurations, themes, control modules, Solid | file I/O, user interface, or independent programs | not modelled |

The parts interact in these ways. The master forks one *session* process per display
(sub-daemon, later the user's session) and one *X server* per local display. It
learns of them through SIGCHLD and SIGUSR1, both turned into a byte in a pipe that
`mainLoop` reads, and through messages on a pair of pipes (`D_*` of the session,
`G_*` of the greeter). Commands arrive on one global and one per-display socket;
XDMCP packets on UDP sockets. All of it is handled by one thread: `select()`, then
expired timeouts, then *one* ready descriptor, then back to the top of the loop.
Between any two of these steps a child may move or die. The sub-daemon forks the
greeter and talks to it over another pair of pipes, on which a message is a sequence
of integers and strings without a type: `G_Ready`, the acknowledgement of a message
and a null string are all the integer 0. Only the state of both sides tells them
apart.

## Modules

| Module | Lines of the system | Builds on |
|---|---|---|
| `DisplayManager` | `dm.c`, `server.c`, `dpylist.c`, `resource.c`, `ctrl.c` | - |
| `Seats` | what the master promises of each display, abstractly | - |
| `VirtualTerminals` | `allocateVT`, `getBusyVTs`, hand-over (`dm.c`) | `DisplayManager`, which it implements |
| `Config` | `resource.c`, `access.c`, `socket.c` and what calls them in `dm.c`, against `kdm_config.c` | - |
| `Xdmcp` | `xdmcp.c`, `protodpy.c`, `dpylist.c` | `DisplayManager`, which it implements |
| `Dialogue` | `session.c`, `client.c` against `kgapp.cpp`, `kgverify.cpp`, `kgreeter.cpp`, `kgdialog.cpp`, `kdmshutdown.cpp` and the plugins | - |
| `Chooser` | `choose.c` against `kchooser.cpp` | `Dialogue` |
| `MC*` | values and state constraints for TLC | the module they are named for |
| `*Proofs` | theorems | see *What is proved* |

### `DisplayManager`

One module, because all of this shares the display list. `pc` is the place in
`mainLoop`; each handler is one action.

| Model | Code |
|---|---|
| `disp[d]` | `struct display`: `status`, `zstatus`, `serverStatus`, `startTries`, `stillThere`, `userSess`; status `"absent"` is a display not in the list |
| `session[d]`, `server[d]` | `pid` and `serverPid` with the process behind them; `"none"` is -1; a session that has exited shows its code until it is reaped |
| `startingServer`, `serverTimer` | `startingServer`, whether `serverTimeout` is finite |
| `sd` | `sdRec`: none, scheduled, later (found not to be due), waiting (`start == TO_INF`, timeout ahead), expired (timeout past) |
| `stopping`, `listening`, `ttyWatch` | `stopping`, open XDMCP sockets, `utmpList` |
| `xconn`, `usr1` | `D_XConnOk` still in a pipe, SIGUSR1 not yet read |
| `LoopTop`, `KickDisplay`, `startDisplay` | the loop condition, `startDisplays` = `checkDisplayStatus` (`Unwanted`) for all displays, then `kickDisplay` for each, with `startDisplay`, `startServer` and `startDisplayP2` |
| `NoShutdownDue`, `ShutdownWaits`, `ShutdownExpires` | the `sdRec` block |
| `ServerTimeout`, `UtmpTimeout`, `NothingElse` | what follows `select()` before a descriptor is looked at |
| `HandleSigterm/Sighup/Sigusr1`, `ReapSession`, `ReapServer`, `EndReap` | the signal pipe; `reapChildren` is a loop, one action per child, and `EndReap` is `AutoRescan` |
| `RecvXConnOk/User/UnUser/Garbage/Console` | `processDPipe`, `processGPipe` |
| `Cmd*`, `RequestShutdown`, `CancelShutdown` | `processCtrl` |
| `XdmcpManage` | `manage` of `xdmcp.c`, once a packet is accepted |
| `ServerReady`, `ServerExit`, `SessionConnect`, `SessionExit` | the children |

`rStopDisplay` appears twice: `Stopped` is the record it leaves, used where several
displays are stopped at once (`StopAll`), and `StopDisplayTo` is the full function,
with the end of the console switch and the remote login. `AbortStartServer` goes
with both.

Abstractions, and why they are sound for what is claimed:

* The order of the display list only decides who is kicked or woken first; `todo` and
  the quantifiers allow every order.
* Wall-clock tests (timeouts due, a session that was too short, a console that is
  idle) and failing forks are nondeterministic.
* A rescan of `kdmrc` lists any set of `Kdmrc`, or finds nothing changed, or fails.
  A display keeps its type across rescans.
* Names from `kdmrc`, from `manage` and from XDMCP are disjoint, except that an XDMCP
  request may replace any foreign display; the keys of `Transient` stand for list
  entries, so that the entry being replaced and the new one coexist, as in the code.
* Logins on TTYs (from `utmp`) may or may not exist at any look.
* A display may have to wait for its VT (`VTWaiters`); which one it gets is in
  `VirtualTerminals`. Whether a packet is accepted is in `Xdmcp`.
* `MANAGE` with memory short stops the old display and makes no new one.
* A display that awaits its turn and goes to the console meanwhile is started all the
  same, as `kickDisplay()` does it (`dm.c:1326`); `dm.h` does not say what should
  happen, so no property does.

### `Seats`

What the users of a display may rely on, in five states (not listed, without an X
server, with one, taken, closing) and seven moves. A session is taken only on a ready
seat, and a closing one only vanishes. `DisplayManager.SeatsKept` instantiates it with
the mapping `Seat`.

### `VirtualTerminals`

Adds to the state of `DisplayManager`: `vt[d]` (`serverVT`: 0 none, -1 pending),
`follower[d]`, `activeVTs` (what `getBusyVTs` found, kept during one `startDisplays`)
and `allocating`, the displays `startDisplays` has yet to call `allocateVT` for.
`VTLoopTop` and `VTKickDisplay` are `startDisplays` with VTs; `AllocateVT` is one call
of `allocateVT`: the configured VT, or the first of `Candidates` (the entries of
`ServerVTs`, then the VTs after the last one) that `Takes` or that a zombie can
promise. `VTReapServer` hands the VT of a zombie to its follower. All other steps of
the master keep the VTs, except that `removeDisplay` forgets those of what it removes.

`follower` is a pointer, and `removeDisplay` does not clear those to the display it
frees. `Freed` is such a pointer. To write through it is undefined: `HandOver` lets
the VT vanish or go to any display that may live at the address now. `dangled`
remembers that it has come to that; the properties are claimed up to then, and
`lost_follower` shows what goes wrong before it.

### `Config`

The master and its config reader, while an administrator edits `kdmrc` and the access
files. `DisplayManager` has a rescan as one step with any result; here it is a sequence
of steps, between any two of which a file may change and in any of which the reader may
die.

| Model | Code |
|---|---|
| `kdmrc`, `access`, `clock` | the files with their modification times |
| `getter` | the reader: none, running, or dead with its pid kept; `conf` is what `readConfig` has read, which it does once (`confread`) |
| `status[d]` | `notRunning`, `running`, or in the console mode; `leaving` is a zombie or another display that waits for a death to be removed, `called` one that waits for a death to go to the console |
| `cfgFiles`, `cfg`, `accData`, `dcfg[d]` | the access file that `kdmrc` names and the time `kdmrc` had then; the settings with the time in their `CfgDep`; `accData.read` is history |
| `scan`, `pc` | why there is a scan (start, SIGHUP or a cancelled shutdown, SIGCHLD, a query), and how far it is |
| `GetDeps`, `DepTime`, `GetDepsFails` | `getDeps`: the answer of the reader, and the time the master takes after it |
| `CheckGlobals`, `CheckDep`, `CheckAccess` | `needsReScan`, which stores the new time before anything is read |
| `LoadDMResources`, `LoadDisplayResources`, `ReadAccess`, and with `Fails` | `startConfig` and what receives its answer; a failure is the `longjmp` of `gErr` |
| `AccessDone` | the end of `rescanConfigs`, with `updateListenSockets` |
| `LoopTop`, `DropDisplay`, `CheckDisplay`, `StartDisplays` | the loop condition, `checkDisplayStatus`, `closeGetter` and `kickDisplay` |
| `HandleSighup`, `HandleSigchld`, `HandleQuery`, `Stoppen`, `CancelShutdown` | what the master is woken by |
| `StopToTTY`, `WakeDisplays` | the console mode, entered and left; all displays of `kdmrc` are local |
| `recalled` | history: displays called to the console while they were leaving, whose settings have not been read since |

How a display gets on is in `DisplayManager`; here any process of it may die at any time.
`stopToTTY()` overwrites the fate of a display that is leaving, also of one that was
stopped because its settings could not be read. It comes back with the time of the new
`kdmrc` and without settings, and is started: `called_back` shows it, and
`RunningIsConfigured` excepts the displays in `recalled`. Left out: two changes of a file in one second, a
file that is missing, a reader that cannot be started (the master gives up), sockets
that cannot be opened, multicast groups, and what settings say beyond the list of
displays, the access file, `AutoRescan` and `Enable`.

Two things seen while modelling, of which no run speaks: a `LISTEN` line without
addresses listens on all interfaces like a missing one (`kdm_config.c` gives it the
interface -1), although `kdmrc-ref.docbook:2188-2190` offers it to disable listening; and
`updateMcastGroup()` frees the group it has just joined, so that no group is ever left
(`socket.c:334-354`).

### `Xdmcp`

Adds: `lastId` (`globalSessionID`), `proto[c]` (the session id in the `protoDisplay`
of terminal `c`), `accepted` (ids told to a terminal), `entry[d]` (the terminal and
session of a display) and the history `begun`. The network loses, repeats, delays and
reorders packets and terminals restart, so a REQUEST can come at any time, and a MANAGE
with any id its sender was ever told, any number of times, as can a stale one of an
earlier manager (id 0). `RecvRequest` is `request`, with the protoDisplays that time out
on the way; `RecvManage` is `manage`; queries and KEEPALIVE (`RecvOther`) only answer.
New displays are at the head of the list, so `findDisplayByName/Address` find the
newest (`FindByName`, `Newest`). Each step is one of `DisplayManager`, a packet that
is honoured being its `XdmcpManage`. The name of an X terminal (`xdmcp.c:164-283`
looks it up for each MANAGE) is taken to be stable and its own: a resolver that answers
otherwise from time to time is outside the model, and `OneSessionAnswers` rests on it.

### `Dialogue`

The sub-daemon, called `core` as in the greeter's source, and the greeter, with PAM and
the user as the environment. `up` and `down` are the pipes; a message is a word, or a
word with its arguments.

| Model | Code |
|---|---|
| `core.pc` | the place in `manageSession`, `ctrlGreeterWait`, `verify`, `conv_interact`, `displayStr`, `startClient`, `finishGreet` |
| `core.conv`, `caller`, `root`, `phase`, `ask`, `pass`, `nopass` | what `verify` knows: whether an automatic login, who called it and for whom, login or renewal of the password (`pam_chauthtok`), which prompt is open, which password is known |
| `gpc` | the place in `main`, `handleFailVerify`, the dialogs' event loop, `slotLoadPrevWM` |
| `login`, `over` | the `KGVerify` of the login dialog and of a dialog over it (`KGChTok`, or a shutdown dialog): `coreState`, `running`, whether it reads the pipe, shows a failure, counts down to an automatic login, and what its plugin was asked |
| `armed`, `needLoad` | `sendInteract`, `needLoad`: the user's session is still to be asked for |
| `CoreStart`, `OpenGreeter`, `GreeterOpened`, `GreeterCommand`, `GreeterClosed`, `GreeterLost`, `SessionEnds` | `manageSession`, `openGreeter`, `closeGreeter`, `ctrlGreeterWait`, and the confirmation of a shutdown after a session |
| `PamMessage`, `PamAsks`, `Pam`, `Account`, `Answered`, `Tell`, `Acknowledged` | `verify`, `doPAMAuth`, `PAM_conv`, `conv_interact`, in the order PAM chooses |
| `Client`, `ClientMessage` | `startClient` up to the session |
| `GreeterReady`, `ReadCommand`, `FailVerify` | `main` and `handleFailVerify` |
| `TalkerReads`, `RetryTimer` | `KGVerify::handleVerify` and `slotTimeout` |
| `Activity`, `AutoLogin`, `Accept`, `EnterUser`, `Reject`, `CancelRenewal` | user and timers in a login or renewal dialog |
| `OpenShutdown`, `ForceToggled`, `CloseShutdown` | `slotShutdown`/`slotConsole` with `KGVerify::suspend`, `updateNeedRoot`, the end of the dialog with `resume` |
| `GreeterExit` | a crash, or an exit for the master |

The operators `GplugStart`, `Returned`, `PluginAbort`, `Started`, `Retried`,
`Suspended`, `Resumed` are the methods of `KGVerify` and of the plugins: they map a
talker and what it has sent to the same after the call, so that a call chain of the
code is a composition of operators in one action.

The conversation plugins are `classic` (asks for user and password first, answers
PAM's prompts from its fields) and `generic` (shows whatever PAM asks). The classic
one knows the prompts of a renewal; PAM ends its call when a prompt is aborted.

Left out: the choice of another plugin in a dialog, the request a shutdown dialog
sends to the master, two dialogs with different plugins, users other than root
verified as root, a dialog that follows root's verification (it has no talker), and
the `delayed` flag of a suspended talker.

### `Chooser`

Adds the chooser to `Dialogue`: `core.hosts` (the host records with `alive`),
`core.pingTry`, `menu` (what `ChooserDlg` shows). `Ping` and `ReceivePacket` are the
two sources of unrequested messages; `ChooserCommand` is the command switch of
`doChoose`; `ChooserReads` is `slotReadPipe`. A host is known by the address of its
record, which `Malloc` may give out again at once, whatever the greeter still knows of its
old use. A choice and the end of the chooser are one step: what `core` does between the two
it might as well have done just before, unread by the chooser. Indirect displays get nothing but a chooser.
Sockets, addresses to ping and the access rules are left out. The branch of `doChoose`
for a chooser that dies while it is told something ends the session, as `ChooserLost`
has it.

## Assumptions of the code

The models do not restrict users, timers, PAM or the memory allocator: all of them act
whenever the program lets them. But the code relies on things it does not enforce. Most
are written down in it. Each is an operator that says which steps break it, `broken` is
the history of those broken so far, and `Kept == broken = {}`. The properties of the
dialogue and the chooser are claimed as long as `Kept` holds: what the code does when its
own assumptions hold is right, and that the assumptions fail is a finding of its own. A
step that breaks one is taken like any other, and the run `sessions` ends only behind it
(`CONSTRAINT Kept`).

| Breach | What the code assumes, and where | How it fails |
|---|---|---|
| `InputBreach` | "We assume that no asynchronous communication is going on before the first user interaction." (`kgapp.cpp:210-211`) | the generic plugin starts a verification when the dialog is shown; the `G_Interact` of the first input is read as an answer. With this plugin any first input in the login dialog breaks it. (`first_input`) |
| `BusyBreach` | `// assert(coreState != CoreBusy)` (`kgverify.cpp:343`, `383`) | buttons and timers act while `core` verifies; a countdown that comes back sends `G_AutoLogin` as an answer (`BusyGreeter.cfg`) |
| `SuspendedBreach` | "only one of them is active at any moment (the others would be suspended or not running at all)" (`kgreeterplugin.h:372-374`) | input in a dialog starts the inactivity timer of the talker beneath it, whose `doReject` speaks to `core` (`Suspended.cfg`) |
| `TwiceBreach` | "Will be called only when not running." of `start()` (`kgreeterplugin.h:218`) | `slotTimeout` starts a plugin again that `updateNeedRoot()` has just started, which forgets its prompt (`double_start`) |
| `ContBreach` | "it does not hurt if gplugStart is still called" (`kgreeterplugin.h:400-402`) | after a rejected new password the generic plugin takes a continuing renewal for a new login (`RenewalGoesOn.cfg`) |
| `LeaveBreach` | the chooser can be left for the login dialog ("but allow switching to remote mode", "... and the other way round", `kdmrc-ref.docbook:1862`, `1866`) | what `core` says of hosts meanwhile is read as a command (`ChooserLeft.cfg`) |
| `DroppedBreach` | "the request is forwarded to the chosen host" (`kdmrc-ref.docbook:449-452`) | the host has been dropped when it is chosen, and its address used again: another host is connected to (`chosen_dropped`) |

One thing is left out rather than an assumption: that memory is short. So the password of
an automatic login is always there: `AutoLoginPass` is the empty string unless set
(`resource.c:265-267`, `session.c:129`), and `verify()` then fails only with a message.
A crash of the greeter (`GreeterExit`) is modelled where `core` waits for it and nothing is
under way (`Calm`); of one at another moment `core` learns when it next reads or writes,
and ends in the same way.

## What is checked

| Run | Instance | Shows |
|---|---|---|
| `servers` | `VirtualTerminals` with two local displays, one with `TerminateServer`, one attempt, for two VTs, of which one is reserved and one voluntary and perhaps busy; 0.7 million states | starts are serialised, aborted and retried while sessions and servers die, hang or are told to exit (`IInv`, `NoDanglingStart`, `TriesBounded`); the daemon keeps what `Seats` promises (`SeatsKept`); no VT twice (`OneDisplayPerVT`), a server keeps its VT (`ServerKeepsVT`), who waits and who promises agree (`VTInv`); no fork overwrites the pid of a child (`NoProcessLost`), here of X servers above all |
| `lifecycle` | a local reserve display that `kdmrc` lists or not, one of `manage`, one of XDMCP; shutdowns that cancel or force; two attempts; 1.3 million | `StatusMatchesProcesses`, `TriesBounded`, `NoOrphans`, `RemovalIsFinal` under shutdowns, rescans and replacement |
| `progress` | one local display, console mode, shutdown, changing `kdmrc`, fairness; 0.1 million | dying displays are reaped (`TransientStatesEnd`), a stopping daemon ends (`StoppingEnds`), also through switches to the console and back; `StatusMatchesProcesses`, `NoOrphans`, and `RemovalIsFinal` but for a call to the console |
| `xdmcp` | two terminals, one the namesake of a display of `manage`, two list entries, three session ids; 0.2 million up to the symmetry of the entries | `OneSessionAnswers`, `DuplicatesIgnored`, `XInv`; `NoProcessLost` (of sessions: the run has no local display) and `RemovalIsFinal` with displays replaced by packets |
| `sessions` | the dialogue and the chooser in four configurations: classic plugin with a countdown, generic plugin, classic after the chooser, chooser only; the first two with shutdowns; 0.3 million, up to the first step that breaks an assumption of the code | `InStep`, `NoStandstill`, `VerifiedStarts`, `MenuFollows`, `ChosenWasShown`; under fairness `LoginsAreAnswered`, `GreeterMakesWay` |
| `config` | one display, two access files, two texts of `kdmrc`, two changes of files at any time, a reader that dies in any reading, and a console mode; 3.7 million | `AccessTimeIsHonest`, `ListedStays`, `RunningIsConfigured`, `ConfigInv`; under fairness `ReaderIsClosed`, `AccessFollows` |
| `lost_phoenix`, `lost_follower`, `called_back`, `first_input`, `double_start`, `chosen_dropped` | the smallest that shows it | a violation; see *Disagreements* |

Eight more configurations are kept beside these, each for one property that TLC finds
violated, which are not repeated with the runs above: `StaleTimeout.cfg`, `StaleConfig.cfg`,
`IdleShutdown.cfg`, `LostHost.cfg`, `BusyGreeter.cfg`, `Suspended.cfg`, `RenewalGoesOn.cfg`
and `ChooserLeft.cfg`; see *Disagreements* too.

The properties that say most:

* `StatusMatchesProcesses`: what `dm.h` says of each `displayStatus` is true of the
  processes. A zombie, a phoenix or a raiser waits for a process that is there, so its
  death will be seen.
* `NoProcessLost`: no fork overwrites the pid of a child that is still there. The one
  exception is an X server that SIGKILL did not end, which the code leaves alone.
* `NoOrphans`: the daemon leaves its loop only without children, even if it was told
  to stop, to go on, and to stop again.
* `OneDisplayPerVT`, `ServerKeepsVT`: across promise, hand-over and reuse.
* `OneSessionAnswers`: of all the sessions a terminal was ever accepted for, at most
  one is confirmed by KEEPALIVE; `DuplicatesIgnored`: a MANAGE for a session that has
  begun changes nothing, however late it comes.
* `AccessTimeIsHonest`, `AccessFollows`: the time of the access file is taken before it is
  read, by another process, and that of `kdmrc` after; a change in between is not taken
  for read, and is found by a later scan. `ListedStays`: the marks a SIGHUP puts on all
  displays are gone when they are looked at. `RunningIsConfigured`: no failure of the
  reader lets a display run without settings, although its time is stored already, but for
  what the console calls back.
* `InStep`: what a process reads is what the other one meant. `NoStandstill`: when
  both pipes are empty, who has the turn knows it.
* `VerifiedStarts`: a session starts for a user the last `verify` let in, and never
  because of root's password for a shutdown.
* `MenuFollows`: the chooser's menu, once it has read what is under way, is what the
  sub-daemon knows. `ChosenWasShown`: the host connected to is one the user saw, even if the
  addresses of records are used again, as long as the chosen one had not been dropped.

Each property of these runs has a mutation of the model that violates it, a change as a
bug in the code would make it; `PROJECT.json` lists them.

### Bounds

* Displays: two suffice for every pairwise interference in the code (one
  `startingServer`, one flag per daemon, one leader and one follower);
  the runs that show a violation need no more either. `lifecycle` and `xdmcp` have a
  third so that an entry on its way out and the one that replaces it coexist.
* Attempts are bounded by the code (`ServerAttempts`, `StartAttempts`); 1 shows the last
  attempt, 2 in `lifecycle` a retry.
* SIGUSR1 signals are a set of senders: one pending per server is what can be read.
* `MCDisplayManager.Bound`: at most one foreign display at a time, no shutdown for later
  beside one, no signal or message that outlives its sender, and sessions of XDMCP
  displays without a user and with one exit code of each effect. The proofs have none of
  these bounds.
* `MCVirtualTerminals.Bound`: the daemon does not stop, no signal or message outlives its
  sender, no user logs in, `kdmrc` always lists both displays, and only the sessions of the
  first one end in a restart or a remote login. What is left
  is every way for a display to get, promise, lose and hand over a VT; the theorems
  about VTs again have no bound.
* `MCXdmcp.Bound`: the daemon does not stop (it closes its XDMCP sockets then), nobody
  logs in, and one of the terminals asks for a session only once. Three ids are a session,
  the one that replaces it, and one under way. The two list entries are alike, so they are
  a symmetry set; all properties of the run are invariants or action properties.
* `MaxTime` 2: one change while something is read and another one after it. `MCSpec`: at
  first `kdmrc` lists the display, and the access files agree until one changes. One display: nothing in `Config` relates two.
  `EditsAnytime` is off in `called_back` and in `StaleConfig.cfg`, and `ReaderFails` in the
  latter, which need neither.
* `PipeSize` 3: `core` blocks while it would have more than three messages of `verify`
  unread. The greeter does nothing different for a longer queue; what crosses it is
  what the user does, at any of its states. The theorems hold for every size.
* Two hosts, two statuses and two addresses: a host dropped while another one stays, and
  an address free to be used again. `Clicks` 1: one unread command of the chooser's user
  when the next one is given, as each command is handled by itself.

### Fairness

`FairSpec`: the main loop goes on and expired timeouts are seen (weak: they stay enabled
until handled). Reaping a child, SIGUSR1 and `D_XConnOk` get strong fairness: the loop
handles one descriptor per turn, and `select()` reports an undelivered one again on each
turn, but other events may be handled in between. Children that were sent SIGTERM exit.
Nothing is assumed of other children: servers need not come up, sessions need not
connect or end, users need not log out. `StoppingEnds` is not claimed with XDMCP, since
SIGHUP opens the sockets again while the daemon stops (`dm.c:1266`).

`Config.FairSpec`: the master does not stop on its way round the loop (weak). Nothing else
has to happen; `AccessFollows` speaks of behaviours with queries again and again.

`CFairSpec`: both processes go on (weak, of all their steps together: each is
sequential). `Pam`, `Account` and `Client` get strong fairness: PAM and the child of
`startClient` do not only have messages and prompts for ever. A message box is closed by
its user in the step that shows it. Users need not do anything else.

### Disagreements between the code and what is said of it

Those with a run of `PROJECT.json`:

* `lost_phoenix`: a session that dies before its `D_XConnOk` is read has its pipe
  closed (`dm.c:953-959`) and `startingServer` is never cleared: no local X server is
  started any more. `dm.h:189` promises that a phoenix is restarted.
* `lost_follower`: the VT of a zombie is handed over only when its X server is reaped
  while it is still a zombie (`dm.c:1041`). If its fate changes or it has no server left,
  the follower's `serverVT` stays -1 and it is never started; `dm.h:273` says "on exit,
  hand VT to this display".
* `called_back`: `stopToTTY()` overwrites `DS_REMOVE` with `DS_TEXTMODE` (`dm.c:573-579`,
  `1524-1525`) also for a display whose settings could not be read and whose kept X server
  has yet to die. Back from the console it is not running (`dm.c:369-373`), its new time is
  stored (`resource.c:209-213`) and its old settings are freed (`resource.c:239`), so it is
  started without settings; the log had said "stopping it." (`dm.c:1314-1315`).
* `first_input`, `double_start`, `chosen_dropped`: see *Assumptions of the code*.

Those kept beside (`tlc -config X.cfg` shows each):

* `StaleTimeout.cfg`, `TimeoutHasServer`: `D_XConnOk` clears `startingServer` whoever sent
  it (`dm.c:772`). If another display's server is starting, `serverTimeout` stays armed
  and `startServerTimeout()` dereferences a null pointer. `server.c:168` has this as
  "cannot happen".
* `IdleShutdown.cfg`, `ForcedShutdownEnds`: `stoppen(True)` in the loop body may empty the
  list, but the loop sleeps in `select()` before it looks again (`dm.c:1210`); a forced
  shutdown of an idle daemon waits for an unrelated event, where the manual says "Zero means
  immediately." (`index.docbook:1596-1597`).
* `LostHost.cfg`, `RespondingHostsStay`: after a refresh of the chooser, a host that answers
  as before is not marked alive (`choose.c:269`) and is dropped after the third ping, from
  what the manual calls "a menu of all the hosts that respond"
  (`kdmrc-ref.docbook:2150-2151`).
* `StaleConfig.cfg`, `HangupRereads`: the config reader reads `kdmrc` once
  (`kdm_config.c:411`) and is closed only by `startDisplays()`, which a daemon that is
  stopping does not run. A SIGHUP, or a cancelled shutdown, after one that came while it was
  stopping gets the old settings under the new time, so that `AutoRescan` does not find the
  change either; the log says "Rescanning all config files" (`dm.c:1267`).
* `BusyGreeter.cfg` (`BusyIsLeftAlone`), `Suspended.cfg` (`SuspendedIsInactive`),
  `RenewalGoesOn.cfg` (`ContDoesNotHurt`), `ChooserLeft.cfg` (`ChooserLetsGo`): see
  *Assumptions of the code*.

`main()` also carries out what is in `sdRec` whenever `mainLoop()` ends (`dm.c:313`), a
shutdown scheduled for later included; the manual does not say that it must wait.

## What is proved

Checked by TLAPS for every set of displays, terminals and VTs, every configuration the
assumptions on the constants allow, and every number of attempts. Those that hold without
a console mode only, or with one for at most two local displays (`ConsoleOfTwo`), say so
in the last column:

| Module | Theorem | Statement | With `ConsoleTTYs` |
|---|---|---|---|
| `DisplayManagerProofs` | `TypeCorrect` | `Spec => []TypeOK` | - |
| | `Invariance` | `Spec => []IInv` | at most two local displays |
| | `StatusCorrect` | `Spec => []StatusMatchesProcesses` | at most two local displays |
| | `StartCorrect` | `Spec => []NoDanglingStart` | at most two local displays |
| | `LossCorrect` | `Spec => NoProcessLost` | at most two local displays |
| | `RemovalCorrect` | `Spec => RemovalIsFinal` | at most two local displays |
| `LifecycleProofs` | `SeatsImplemented` | `Spec => SeatsKept` | no |
| | `TriesCorrect` | `Spec => []TriesBounded` | at most two local displays |
| | `OrphansCorrect` | `Spec => []NoOrphans` | at most two local displays |
| `VirtualTerminalsProofs` | `VTImplementsMaster` | `VTSpec => Spec` | - |
| | `VTInvariance` | `VTSpec => []VTInv` | no |
| | `VTKept` | `VTSpec => ServerKeepsVT` | no |
| | `VTsAreNotShared` | `VTSpec => []OneDisplayPerVT`, with one or two local displays | no |
| `ConfigProofs` | `ConfigCorrect` | `Config!Spec => []ConfigInv` | - |
| | `AccessHonest` | `Config!Spec => []AccessTimeIsHonest` | - |
| | `ListedKept` | `Config!Spec => []ListedStays` | - |
| | `Configured` | `Config!Spec => []RunningIsConfigured` | - |
| `XdmcpProofs` | `XImplementsMaster` | `XSpec => Spec` | - |
| | `XInvariance` | `XSpec => []XInv` | at most two local displays |
| | `OneSession` | `XSpec => []OneSessionAnswers` | at most two local displays |
| | `OnceBegun` | `XSpec => DuplicatesIgnored` | - |
| `DialogueProofs` | `DialogueTypes` | `CSpec => []DTypeOK` | - |
| `ChooserProofs` | `StaysInStep` | `CSpec => []InStep` | - |
| | `NeverStandsStill` | `CSpec => []NoStandstill` | - |
| | `SessionsAreVerified` | `CSpec => []VerifiedStarts` | - |
| | `ChoiceIsKept` | `CSpec => ChosenWasShown` | - |
| | `MenuIsFollowed` | `CSpec => []MenuFollows` | - |

`CSpec` is the dialogue with the chooser, without fairness (`CFairSpec` implies it);
No assumption is made on users, PAM or `malloc()`; the five properties themselves are about
behaviours that have kept what the code assumes (`Kept`). The theorems hold for every set
of configurations, hosts, statuses and addresses, and for pipes of any size.
`Config!RunningIsConfigured` excepts displays the console has called back (`recalled`).

*The master.* `StatusMatchesProcesses` is not inductive: that a session is never
forked for a zombie needs that a display in the hands of `server.c` has no session and
is still running, on its way out, or called to the console (`StartersHaveNoSession`), and
that a reaped zombie has somewhere to go needs that exactly zombies have a fate
(`ZombiesHaveFate`). These and `TextModeIsAllowed` speak of one display each, so the proof works on `DisplayOK(disp[d], session[d], server[d])`: `OneDisplay` says
that a step that changes one display correctly preserves the whole, and one lemma per helper
(`StopAllOK`, `StopDisplayToOK`, `StartServerOnceOK`, ...) says that the helper does.
`IInvStep` then has one step per action. `NoProcessLost` and `RemovalIsFinal` are step
properties from the same invariant.

*The console.* `stopToTTY()` stops all local displays, but a display that awaits its turn
has no process and goes to the console with `serverStatus` still `awaiting`, where
`kickDisplay()` would start its X server. So `IInv` says who awaits a turn and when: the
display being started is local, and the message that it is connected ends its turn
(`StartersAreLocal`); nothing awaits a turn for nothing, nor while the daemon stops, and
outside of `startDisplays()` a connected greeter means that nobody but the one being started
awaits one (`TurnsAreTaken`). The last follows with two local displays, since one is
connected and the other is being started. With three it is false, and with it
`StatusMatchesProcesses`. The loop that wakes the displays of the console (`wakeDisplays`)
is shown to keep `DisplayOK`, the seats, the attempts and `ExitOf` display by display, so
that a switch to it and back, at once or later, costs each proof one lemma.

*The promise.* That each step of the master moves each seat as `Seats` allows needs
`SeatInv` beside: an X server that is being started is there until its death is reaped,
and only local displays have to do with X servers.

*Attempts.* `startServerOnce()` counts a try without comparing; `startServerFailed()`
compares before it lets a server pause. So `TriesInv` adds that a pausing server has a
try left.

*Orphans.* The loop ends when no display is left that `anyRunningDisplays()` looks at,
and it looks at the status only. `ExitInv` says why that is enough: what a stopping daemon
does not wait for has no process, and a display with a session that is being stopped is to
leave the list or to go to the console. With `IInv`, nothing is kicked while the daemon
stops. It has to hold while a shutdown is cancelled and another one begun.

*VTs and XDMCP.* Each step of `VirtualTerminals` and `Xdmcp` is a step of the master or
a stutter, so that the theorems above hold of them (`VTImplementsMaster`,
`XImplementsMaster`; the second one needs that entries used by packets are free ones).
`VTInv` adds to `IInv`: who waits for a VT has no session and has not been started, who
promises one has it, and is promised to one that waits and for no other. From it no
step takes the VT from under a server. `Owners` adds that only local displays have a VT
and that two have the same one only if `kdmrc` asks for it: `allocateVT()` takes a VT that
another display has only if that one is a zombie with a follower already, which is then
a third local display. With three of them the code does give a VT twice, so the theorem
is about one or two; neither it nor `VTInv` says what happens after a display that waits
has been freed (`dangled`). `XInv` says that ids grow: a `protoDisplay` waits
with an id later than all those its terminal has had a session with, displays have
different ids, and all but the newest display of a terminal are leaving. That they go on
leaving (`ForeignersLeave`) is `RemovalIsFinal` for displays that cannot become a console.

*Configuration.* The properties are proved for any number of displays and files, any
texts and any times. `AccessTimeIsHonest` needs that no stored time is later than the
clock (`TimesArePast`: so a file that changes gets a time the master has not stored) and
that a list is being read only after it was forgotten that it was read
(`FileIsNamed`). `RunningIsConfigured` needs what `startDisplays()` establishes display by
display: one that may be started and has a time has settings, but for the one whose
settings are being read (`SettingsAreGiven`). `ConfigInv` is their conjunction.

*The dialogue.* The invariant and the steps of `core` are in `DialogueProofs`, those of
the greeter and its users in `GreeterProofs`. What is true of `core` and the greeter at
a moment says nothing while messages are on their way, so the invariant says what each
of them will be in when it has read them. `Mode` is where the greeter is and whose turn
it is to speak; `Hears` is what a greeter in a mode may be told and `Then` the mode it
is in afterwards. While a password is renewed `core` goes on without waiting for the
greeter, so the pipe to it can be long: `Run` says that its words lead the greeter, one
by one, through modes in which each is heard. `Fits` says that `core` is in a place that
goes with the mode at the end of the run. In the other direction there are never more
words than `Commanded` lists. So a `Situation` is one of four: it is `core`'s turn, or
what it has said is on its way (`Downward`); the greeter's words are (`Upward`); both
are, in the one case that allows it (`Crossing`: the generic plugin has begun anew after
a rejected input, and `slotLoadPrevWM` waits for its answer); the greeter has gone
(`Gone`). `TalkersOK` and `CoreOK` say of each process alone what the other relies on:
that a `KGVerify` shows no prompt it was not asked for, or that `verify` in an automatic
login is not for root. A step of `core` adds words to the end of the run (`RunAppend`),
the greeter takes one from its front (`RunRead`), and users send only when the run is
empty. What users and timers do while `core` is busy either changes nothing the invariant
speaks of (`BusyIsLeft`) or is a breach: the invariant of the theorems is `Kept => Course`,
and `StepKept` reduces a step to one that starts and ends in `Kept`, that is, one that breaks
none of the assumptions.

*The chooser.* Here both may speak at any time. `Framed` says that the pipe to the
chooser can be cut into messages, whatever their hosts; `Chosen` that a choice is the last
thing the chooser sends, and of a host that `core` knew by that address when it was chosen
and that the menu has (`KnownAs`). `Course` is the
invariant of both modules together, with the ways out of the chooser (`Ended`,
`Reopens`). `ChoiceIsKept` follows as the address under way, the menu and `core`'s
record agree on the host: addresses may be used again, but not that of a record that is
still there, and the chooser goes with its choice, after which `core` changes no hosts
before it has read it.

*The menu.* What `MenuFollows` compares with the hosts of `core` is the value of a
recursive function (`After`) on a pipe of any length. The invariant `Telling` avoids the
recursion: `Told` says that there is a list for each place where a message begins, that
each list follows from the one before by that message (`Effect`), and that the last one is
what `core` knows. A step of `core` adds messages with their effects at the end
(`ToldConcat`); the chooser takes the first with its effect on the menu (`ToldRest`).
Beside it, no two hosts of `core` have one address, and `core` has hosts only while it is
choosing. `ToldAfter` then shows, by induction over the length of the pipe, that `After`
yields the last list. The library states induction over `Nat` for a predicate that is a
parameter, which the provers cannot instantiate; `Induction` states it for a set, from the
well-foundedness of `<`, and `Readings` shows the same way that the recursive function
exists.

Without `Kept` they are false, as the table in *Assumptions of the code* shows, but perhaps
for `MenuFollows`, of which no counterexample was found. `VerifiedStarts` is among them, as that the last `verify` let a user in before `G_Ready`
is something `core` relies on the greeter for, and so on the two being in step.

Why some theorems exclude the console, or three local displays with one: with `ConsoleTTYs`
a display that awaits its turn may go to the console and own an X server there
(`dm.c:1326`) while a third one is started, so `StatusMatchesProcesses` is false with three.
`stopToTTY()` overwrites the fate of a display that is being removed (`dm.c:573`), which
`RemovalIsFinal` excepts (`CalledBack`), but `Seats` does not: a seat that is closing is
not given away again. `VTInv` is about a daemon without a console mode and not inductive with
one. The run `progress` checks with a console and one local display what `IInv` implies.

Only model-checked: liveness (beyond the prover), and, with a console mode, what the last
column of the table excludes: nothing is claimed there but what `progress` checks.

## Not modelled

* `auth.c`, `mitauth.c`, `krb5auth.c`, `xdmauth.c`, `genauth.c`: authority files and
  keys. Files are read and rewritten as a whole under a lock; no state is shared with
  the life cycle.
* `bootman.c`, `inifile.c`, `error.c`, `streams.c`, `util.c`, `sessreg.c`: boot
  manager files, parsing, logging, helpers. Of `util.c` the phases of a shutdown are in
  `DisplayManager`.
* `process.c`: the primitives block until a message is complete, so that messages are
  atomic in the models.
* `kdm_config.c`: the syntax of `kdmrc` and of access files, the sending of values; what
  it reads when is in `Config`. `genkdmconf.c`, `config.def`, `confproc.pl`: conversion of
  old files and generated code. `kdm_greet.c`'s `G_GetCfg` exchange: a sequence of
  questions and answers without a choice.
* `ctrl.c`: the line buffer and the queries (`list`, `caps`, `activate`, `lock`), which
  change no display; in `shutdown`, who may request, override or cancel. `AllowShutdown`,
  `AllowSdForceNow` and the users behind sockets would be parameters of `RequestShutdown`
  that always let more through.
* `xdmcp.c`, `access.c`, `choose.c`: indirect queries and the choices remembered for
  them, access rules, packet formats.
* The login recorded for the next session (`setNLogin`), environment and files of the
  user's session (`client.c`), `rpcauth.c`, `consolekit.c`.
* `kgreeter.cpp`: user list, session menu, layout; the switching of plugins in a dialog.
  Themes, `kcm`, `solid`: settings dialogs, painting and hardware back ends, independent
  programs that share no protocol with the daemon.

## Checking

`tlc -workers 2 -config Servers.cfg MCVirtualTerminals.tla` and so on for each
configuration (`PROJECT.json` names the module of each run; of those kept beside it is
`MCDisplayManager` for `StaleTimeout` and `IdleShutdown`, `MCConfig` for `StaleConfig`,
`MCChooser` for the others); `tlapm` on each `*Proofs.tla`
for the proofs. `PROJECT.json` also lists the mutations each property detects, the code
lines behind each definition, the hazards, the findings and the theorems.
