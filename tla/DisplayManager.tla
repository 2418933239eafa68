--------------------------- MODULE DisplayManager ---------------------------
(***************************************************************************)
(* The master daemon of KDM: the life cycle of the displays it manages     *)
(* (dm.c), the serialised start of the local X servers (server.c), the     *)
(* list of displays (dpylist.c), the displays read from kdmrc (resource.c) *)
(* and the socket commands that act on a display (ctrl.c).                 *)
(*                                                                         *)
(* The master is one sequential program: mainLoop() runs startDisplays(),  *)
(* looks at the scheduled shutdown, sleeps in select() and handles one     *)
(* event.  "pc" is its place in that loop and each handler is one action.  *)
(* Concurrency comes from its children, which the master only learns about *)
(* through SIGCHLD, SIGUSR1 and messages: for each display a session       *)
(* process (sub-daemon, greeter and user session in one) and, if it is     *)
(* local, an X server.  They move, and die, between any two master steps.  *)
(*                                                                         *)
(* Virtual terminals, XDMCP packets and the permissions on a shutdown have *)
(* modules of their own (VirtualTerminals and Xdmcp refine this one).      *)
(* Here a display may have to wait for its VT, an XDMCP display simply     *)
(* appears, and a shutdown is a record of the phase it is in.  Wall-clock  *)
(* conditions are nondeterministic choices.                                *)
(***************************************************************************)
EXTENDS Naturals, FiniteSets

CONSTANTS
  Displays,         \* every display name the run may see
  Config,           \* displays that kdmrc may list (dFromFile)
  Command,          \* displays of the "manage" command (dFromCommand)
  Local,            \* displays with an X server of ours (dLocal)
  Reserve,          \* displays listed in ReserveServers (dReserve)
  TerminateServer,  \* displays with TerminateServer=true
  VTWaiters,        \* displays that may have to wait for the VT of a zombie
  ServerAttempts,   \* ServerAttempts of kdmrc, 0 for no limit
  StartAttempts,    \* StartAttempts of kdmrc
  ConsoleTTYs,      \* whether ConsoleTTYs of kdmrc is non-empty
  Xdmcp,            \* whether XDMCP listen sockets are configured
  Kdmrc,            \* the sets of displays kdmrc may list when it is scanned
  Forces,           \* what a requested shutdown may do about user sessions
  None              \* no display

(* What kdmrc can say: ":n" names, and only they, are local displays; the  *)
(* manage command refuses them; reserve displays come from kdmrc.          *)
ASSUME ConfigAssumption ==
  /\ None \notin Displays
  /\ Config \subseteq Displays
  /\ Command \subseteq Displays
  /\ Config \cap Command = {}
  /\ Local \subseteq Config
  /\ Reserve \subseteq Config
  /\ TerminateServer \subseteq Local
  /\ VTWaiters \subseteq Local
  /\ ServerAttempts \in Nat
  /\ StartAttempts \in Nat
  /\ ConsoleTTYs \in BOOLEAN
  /\ Xdmcp \in BOOLEAN
  /\ Kdmrc \subseteq SUBSET Config
  /\ Forces \subseteq {"cancel", "forcemy", "force"}

\* Displays that appear through XDMCP are removed when their session exits.
Transient == Displays \ (Config \cup Command)

VARIABLES
  pc,              \* where the master is in mainLoop()
  todo,            \* displays the current startDisplays() has yet to kick
  disp,            \* the displays list: one record for each display
  startingServer,  \* the display whose X server is being started
  serverTimer,     \* serverTimeout is not TO_INF
  stopping,        \* no display is to be started any more
  sd,              \* the global shutdown record sdRec
  listening,       \* the XDMCP listen sockets are open
  ttyWatch,        \* utmpList is not empty: the console is in use
  session,         \* the session process of each display
  server,          \* the X server process of each display
  xconn,           \* displays whose D_XConnOk waits in the pipe
  usr1             \* displays whose X server's SIGUSR1 is unread

masterVars == <<pc, todo, disp, startingServer, serverTimer, stopping, sd,
                listening, ttyWatch>>
childVars  == <<session, server, xconn, usr1>>
vars       == <<masterVars, childVars>>

-----------------------------------------------------------------------------
(* Data *)

\* enum displayStatus; "absent" is a display that is not in the list.
Statuses == {"absent", "notRunning", "running", "zombie", "phoenix", "raiser",
             "textMode", "reserve", "remoteLogin"}

\* What a zombie turns into: the DS_* codes rStopDisplay() is called with.
Fates == {"remove", "textMode", "reserve", "remoteLogin"}

\* enum serverStatus
ServerStatuses == {"ignore", "awaiting", "starting", "terminated", "killed",
                   "pausing"}

\* How a session process leaves, by what reapChildren() makes of it: "reserver"
\* is EX_RESERVER_DPY and EX_AL_RESERVER_DPY, "retry" is EX_OPENFAILED_DPY and
\* death by SIGTERM, "unmanage" is EX_UNMANAGE_DPY and a crash.
ExitCodes == {"normal", "unmanage", "reserver", "retry", "toReserve", "remote"}

\* A child process as its parent sees it: "none" is a pid of -1, an exit code
\* or "dead" a child that waitpid() will return.
SessionStates == {"none", "waiting", "connected"} \cup ExitCodes
ServerStates  == {"none", "booting", "ready", "dead"}

\* A display, as far as this module looks at it; a zombie has a fate.
DisplayRecords ==
  {r \in [status : Statuses, zstatus : Fates \cup {"none"},
          serverStatus : ServerStatuses, startTries : Nat,
          stillThere : BOOLEAN, userSess : BOOLEAN] :
     r.status = "zombie" => r.zstatus # "none"}

\* A shutdown the main loop has not looked at yet, one it has found not to be due, one
\* that waits for sessions to end until its timeout, and one whose timeout is past or
\* infinite.
NoShutdown == [phase |-> "none", force |-> "cancel"]
Shutdowns  == [phase : {"none", "scheduled", "later", "waiting", "expired"},
               force : {"cancel", "forcemy", "force"}]

\* What a command, the dialog of a greeter, or a session that ends may schedule.
Schedules == {[phase |-> "scheduled", force |-> f] : f \in Forces}

\* What is left of a display once removeDisplay() has freed it.
Absent == [status |-> "absent", zstatus |-> "none", serverStatus |-> "ignore",
           startTries |-> 0, stillThere |-> FALSE, userSess |-> FALSE]

\* newDisplay(), with the status addServers() gives a display of kdmrc.
NewDisplay(d) ==
  [Absent EXCEPT !.status = IF d \in Reserve THEN "reserve" ELSE "notRunning",
                 !.stillThere = d \in Config]

Managed == {d \in Displays : disp[d].status # "absent"}

\* A display that is not to be started again.
Leaving(d) == disp[d].status = "zombie" /\ disp[d].zstatus = "remove"

\* The children of a display that have exited and wait to be reaped.
DeadSession(d) == session[d] \in ExitCodes
DeadServer(d)  == server[d] = "dead"
DeadChild == \E d \in Displays : DeadSession(d) \/ DeadServer(d)

\* Mutation: a zombie does not count as running.
ZombiesDoNotRun ==
  \E d \in Managed :
    disp[d].status \notin {"notRunning", "textMode", "reserve", "zombie"}

\* A display with a status that keeps a stopping master in its main loop.
anyRunningDisplays ==
  \E d \in Managed : disp[d].status \notin {"notRunning", "textMode", "reserve"}

\* Mutation: a stopping master also waits for the displays that do not run.
AnyDisplayKeepsLooping == listening \/ Managed # {}

\* The condition of the main loop.
KeepsLooping ==
  listening \/ IF stopping THEN anyRunningDisplays ELSE Managed # {}

anyUserLogins == \E d \in Managed :
                    disp[d].userSess \/ disp[d].status = "remoteLogin"

-----------------------------------------------------------------------------
(* Stopping a display *)

\* Mutation: a display becomes a zombie even if it has no process.
StoppedAlwaysZombie(d, r, alive, fate) ==
  [r EXCEPT !.serverStatus = IF startingServer = d THEN "ignore" ELSE r.serverStatus,
            !.status = "zombie", !.zstatus = fate]

\* The record rStopDisplay(d, fate) leaves, when its processes are alive or
\* not; a remote login that needs an X server is completed by StopDisplayTo.
Stopped(d, r, alive, fate) ==
  LET a == [r EXCEPT !.serverStatus =
              IF startingServer = d THEN "ignore" ELSE r.serverStatus]
  IN  IF alive THEN [a EXCEPT !.status = "zombie", !.zstatus = fate]
      ELSE IF fate = "remove" THEN Absent
      ELSE [a EXCEPT !.status = fate, !.zstatus = "none"]

\* Mutation: startingServer keeps pointing at the display.
AbortTimerOnly(S) ==
  /\ UNCHANGED startingServer
  /\ serverTimer' = IF startingServer \in S THEN FALSE ELSE serverTimer

\* abortStartServer() for every display of S.
AbortStartServer(S) ==
  /\ startingServer' = IF startingServer \in S THEN None ELSE startingServer
  /\ serverTimer' =
       IF startingServer \in S /\ disp[startingServer].serverStatus # "ignore"
       THEN FALSE ELSE serverTimer

\* Mutation: displays that are still being stopped are woken, too.
WakeZombies(list) ==
  [d \in Displays |->
     IF list[d].status \in {"textMode", "zombie"}
     THEN [list[d] EXCEPT !.status = "notRunning", !.zstatus = "none"]
     ELSE list[d]]

\* wakeDisplays(): the displays of a console that is given up.
WakeDisplays(list) ==
  [d \in Displays |->
     IF list[d].status = "textMode"
     THEN [list[d] EXCEPT !.status =
             IF d \in Reserve THEN "reserve" ELSE "notRunning"]
     ELSE list[d]]

\* switchToTTY() from the given list: watch the console, or give it up at once
\* because it shows no login (checkUtmp).
SwitchToTTY(list) ==
  \/ disp' = list /\ ttyWatch' = TRUE
  \/ disp' = WakeDisplays(list) /\ ttyWatch' = FALSE

\* checkTTYMode() on the given list: switch once no display is a zombie.
CheckTTYMode(list) ==
  IF \A d \in Displays : list[d].status # "zombie"
  THEN SwitchToTTY(list)
  ELSE disp' = list /\ UNCHANGED ttyWatch

\* rStopDisplay() on the record r of display d, once se and sv are what is left
\* of its processes.
StopDisplayTo(d, r, fate, se, sv) ==
  LET alive == se[d] # "none" \/ sv[d] # "none"
      list  == [disp EXCEPT ![d] = Stopped(d, r, alive, fate)]
  IN  /\ AbortStartServer({d})
      /\ session' = se
      /\ IF alive \/ fate \in {"remove", "reserve"}
         THEN disp' = list /\ server' = sv /\ UNCHANGED ttyWatch
         ELSE IF fate = "textMode"
         THEN CheckTTYMode(list) /\ server' = sv
         ELSE /\ \/ disp' = list /\ server' = [sv EXCEPT ![d] = "ready"]
                 \/ disp' = [list EXCEPT ![d].status = "notRunning"] /\ server' = sv
              /\ UNCHANGED ttyWatch

\* Mutation: DS_SCHEDULE is not masked out of the fate of a zombie.
StopAllUnmasked(S, fate) ==
  LET code == IF fate = "textMode" THEN "textMode|schedule" ELSE fate IN
  [d \in Displays |->
     IF d \in S
     THEN Stopped(d, disp[d], session[d] # "none" \/ server[d] # "none", code)
     ELSE disp[d]]

\* Mutation: an X server that outlives the session is overlooked.
StopAllBySession(S, fate) ==
  [d \in Displays |->
     IF d \in S THEN Stopped(d, disp[d], session[d] # "none", fate) ELSE disp[d]]

\* stopDisplay() or rStopDisplay(DS_TEXTMODE | DS_SCHEDULE) for all of S.
StopAll(S, fate) ==
  [d \in Displays |->
     IF d \in S
     THEN Stopped(d, disp[d], session[d] # "none" \/ server[d] # "none", fate)
     ELSE disp[d]]

\* stoppen(): with force all displays stop, otherwise those without a user.
stoppen(force) ==
  LET S == {d \in Managed : \/ force
                            \/ /\ ~disp[d].userSess
                               /\ disp[d].status # "remoteLogin"}
  IN  /\ disp' = StopAll(S, "remove")
      /\ AbortStartServer(S)
      /\ stopping' = TRUE
      /\ listening' = FALSE

-----------------------------------------------------------------------------
(* Configuration *)

\* Mutation: a display that is being removed is revived when it is found again.
ScanServersRevives(list, C) ==
  [d \in Displays |->
     IF d \notin C THEN list[d]
     ELSE IF list[d].status \in {"absent", "zombie"} THEN NewDisplay(d)
     ELSE [list[d] EXCEPT !.stillThere = TRUE]]

\* addServers() on the list of displays: those of C are in kdmrc.
ScanServers(list, C) ==
  [d \in Displays |->
     IF d \notin C THEN list[d]
     ELSE IF list[d].status = "absent" THEN NewDisplay(d)
     ELSE [list[d] EXCEPT
             !.stillThere = TRUE,
             !.status = IF d \in Reserve /\ list[d].status = "notRunning"
                        THEN "reserve"
                        ELSE IF d \notin Reserve /\ list[d].status = "reserve"
                        THEN "notRunning"
                        ELSE list[d].status]]

\* rescanConfigs() on the given list, where kdmrc lists the displays of C; the
\* configuration may also be found unchanged or the reader may fail.
rescanConfigs(list, C) ==
  \/ disp' = ScanServers(list, C) /\ listening' = Xdmcp
  \/ disp' = list /\ UNCHANGED listening

\* cancelShutdown()
cancelShutdown(C) ==
  /\ sd' = NoShutdown
  /\ stopping' = FALSE
  /\ rescanConfigs(disp, C)

-----------------------------------------------------------------------------
(* Starting X servers and sessions *)

\* Mutation: one attempt too many.
MoreAttemptsOffByOne(r) == ServerAttempts = 0 \/ r.startTries <= ServerAttempts

\* The X server of display record r may be tried once more.
MoreAttempts(r) == ServerAttempts = 0 \/ r.startTries < ServerAttempts

\* startServerFailed() on the record r of startingServer = d.
StartServerFailed(d, r, sv) ==
  LET again == MoreAttempts(r)
      alive == session[d] # "none" \/ sv[d] # "none"
  IN  /\ disp' = [disp EXCEPT ![d] =
                    IF again THEN [r EXCEPT !.serverStatus = "pausing"]
                    ELSE Stopped(d, [r EXCEPT !.serverStatus = "ignore"],
                                 alive, "remove")]
      /\ serverTimer' = again
      /\ startingServer' = IF again THEN d ELSE None
      /\ server' = sv

\* startServerOnce(): fork the X server of d and arm its timeout, or fail to.
StartServerOnce(d, r) ==
  LET s == [r EXCEPT !.startTries = r.startTries + 1, !.serverStatus = "starting"]
  IN  \/ /\ disp' = [disp EXCEPT ![d] = s]
         /\ serverTimer' = TRUE
         /\ startingServer' = d
         /\ server' = [server EXCEPT ![d] = "booting"]
      \/ StartServerFailed(d, s, [server EXCEPT ![d] = "none"])

\* startDisplayP2(): fork the session of d, or give up for now.
StartDisplayP2(d, r) ==
  /\ \/ disp' = [disp EXCEPT ![d] = r] /\ session' = [session EXCEPT ![d] = "waiting"]
     \/ disp' = [disp EXCEPT ![d] = [r EXCEPT !.status = "notRunning"]] /\ UNCHANGED session
  /\ UNCHANGED server

\* Mutation: serverStatus stays "starting", so the next SIGUSR1 forks again.
SuccessKeepsStatus(d) ==
  /\ StartDisplayP2(d, disp[d])
  /\ serverTimer' = FALSE

\* startServerSuccess() for startingServer = d.
startServerSuccess(d) ==
  /\ StartDisplayP2(d, [disp[d] EXCEPT !.serverStatus = "ignore"])
  /\ serverTimer' = FALSE

\* Mutation: serverStatus is asked instead of the pid.
StatusNeedsServer(d) == d \in Local /\ disp[d].serverStatus # "ignore"

\* A local display without an X server has to wait for one.
NeedsServer(d) == d \in Local /\ server[d] = "none"

-----------------------------------------------------------------------------
(* The main loop *)

\* checkDisplayStatus(): the displays that kdmrc no longer lists and those to be
\* started whose resources cannot be read, some set bad of them.
Unwanted(bad) == bad \cup {d \in Managed \cap Config : ~disp[d].stillThere}

\* The top of mainLoop(): leave it, or let startDisplays() drop the displays
\* that kdmrc no longer lists or whose resources cannot be read.
LoopTop ==
  /\ pc = "top"
  /\ IF ~KeepsLooping
     THEN /\ pc' = "exit"
          /\ UNCHANGED <<todo, disp, startingServer, serverTimer>>
     ELSE /\ pc' = "kick"
          /\ IF stopping
             THEN UNCHANGED <<todo, disp, startingServer, serverTimer>>
             ELSE \E bad \in SUBSET {d \in Managed : disp[d].status = "notRunning"} :
                    /\ disp' = StopAll(Unwanted(bad), "remove")
                    /\ AbortStartServer(Unwanted(bad))
                    /\ todo' = {d \in Displays : disp'[d].status # "absent"}
  /\ UNCHANGED <<stopping, sd, listening, ttyWatch, childVars>>

\* startDisplay(): d runs, and if it has to it awaits its X server.
startDisplay(d) ==
  LET r == [disp[d] EXCEPT !.status = "running"]
  IN  IF NeedsServer(d) THEN [r EXCEPT !.serverStatus = "awaiting"] ELSE r

\* kickDisplay(): startDisplay() if it is not running and does not wait for its
\* VT, then startServer() if it is its turn.
KickDisplay(d, waits) ==
  /\ pc = "kick" /\ d \in todo
  /\ waits => d \in VTWaiters
  /\ todo' = todo \ {d}
  /\ LET starts == disp[d].status = "notRunning" /\ ~waits IN
     IF starts /\ ~NeedsServer(d)
     THEN StartDisplayP2(d, startDisplay(d)) /\ UNCHANGED <<startingServer, serverTimer>>
     ELSE LET s == IF starts THEN startDisplay(d) ELSE disp[d]
          IN  /\ IF s.serverStatus = "awaiting" /\ startingServer = None
                 THEN StartServerOnce(d, [s EXCEPT !.startTries = 0])
                 ELSE /\ disp' = [disp EXCEPT ![d] = s]
                      /\ UNCHANGED <<startingServer, serverTimer, server>>
              /\ UNCHANGED session
  /\ UNCHANGED <<pc, stopping, sd, listening, ttyWatch, xconn, usr1>>

\* The shutdown scheduled in sdRec is not due, or there is none.
NoShutdownDue ==
  /\ pc = "kick" /\ todo = {}
  /\ sd.phase \in {"none", "scheduled", "later"}
  /\ sd' = [sd EXCEPT !.phase = IF sd.phase = "none" THEN "none" ELSE "later"]
  /\ pc' = "select"
  /\ UNCHANGED <<todo, disp, startingServer, serverTimer, stopping, listening, ttyWatch,
                 childVars>>

\* It is due: stop what has no user and wait for the users until its timeout.
ShutdownWaits ==
  /\ pc = "kick" /\ todo = {}
  /\ sd.phase # "none"
  /\ sd' = [sd EXCEPT !.phase = IF sd.phase = "expired" THEN "expired" ELSE "waiting"]
  /\ stoppen(FALSE)
  /\ pc' = "select"
  /\ UNCHANGED <<todo, ttyWatch, childVars>>

\* The answers wouldShutdown() may give: logins on TTYs are not modelled.
wouldShutdown ==
  CASE sd.force = "force" -> {TRUE}
    [] sd.force = "forcemy" ->
         IF \E d \in Managed : disp[d].status = "remoteLogin" THEN {FALSE} ELSE BOOLEAN
    [] OTHER -> IF anyUserLogins THEN {FALSE} ELSE BOOLEAN

\* Its timeout has passed: stop everything, or give the shutdown up.
ShutdownExpires ==
  /\ pc = "kick" /\ todo = {}
  /\ sd.phase \in {"scheduled", "later", "waiting"}
  /\ \/ /\ TRUE \in wouldShutdown
        /\ sd' = [sd EXCEPT !.phase = "expired"]
        /\ stoppen(TRUE)
     \/ /\ FALSE \in wouldShutdown
        /\ \E C \in Kdmrc : cancelShutdown(C)
        /\ UNCHANGED <<startingServer, serverTimer>>
  /\ pc' = "select"
  /\ UNCHANGED <<todo, ttyWatch, childVars>>

-----------------------------------------------------------------------------
(* Timeouts.  They are looked at before the descriptor select() returned. *)

\* startServerTimeout().  Without a startingServer it dereferences a null
\* pointer and the master dies.
ServerTimeout ==
  /\ pc = "select" /\ serverTimer
  /\ IF startingServer = None
     THEN /\ pc' = "crashed"
          /\ serverTimer' = FALSE
          /\ UNCHANGED <<disp, startingServer, server>>
     ELSE LET d == startingServer
              r == disp[d]
          IN  /\ pc' = "dispatch"
              /\ CASE r.serverStatus \in {"starting", "terminated"} ->
                        /\ disp' = [disp EXCEPT ![d].serverStatus =
                             IF r.serverStatus = "starting" THEN "terminated" ELSE "killed"]
                        /\ serverTimer' = TRUE
                        /\ UNCHANGED <<startingServer, server>>
                   [] r.serverStatus = "killed"  -> StartServerFailed(d, r, server)
                   [] r.serverStatus = "pausing" -> StartServerOnce(d, r)
                   [] OTHER -> /\ serverTimer' = FALSE
                               /\ UNCHANGED <<disp, startingServer, server>>
  /\ UNCHANGED <<todo, stopping, sd, listening, ttyWatch, session, xconn, usr1>>

\* checkUtmp() looks whether the console is still in use.
UtmpTimeout ==
  /\ pc \in {"select", "dispatch"} /\ ttyWatch
  /\ pc' = "dispatch"
  /\ \/ disp' = WakeDisplays(disp) /\ ttyWatch' = FALSE
     \/ UNCHANGED <<disp, ttyWatch>>
  /\ UNCHANGED <<todo, startingServer, serverTimer, stopping, sd, listening, childVars>>

\* No descriptor was ready beside the timeout.
NothingElse ==
  /\ pc = "dispatch"
  /\ pc' = "top"
  /\ UNCHANGED <<todo, disp, startingServer, serverTimer, stopping, sd, listening,
                 ttyWatch, childVars>>

\* Every other handler is one event and goes back to the top of the loop.
Dispatch == pc \in {"select", "dispatch"} /\ pc' = "top"

-----------------------------------------------------------------------------
(* Signals *)

\* SIGTERM or SIGINT: shut the entire manager down.
HandleSigterm ==
  /\ Dispatch
  /\ stoppen(TRUE)
  /\ UNCHANGED <<todo, sd, ttyWatch, childVars>>

\* SIGHUP: mark the displays of kdmrc and scan it, which now lists C.  When the
\* scan fails every display stays marked and the next LoopTop drops it.
HandleSighup(C) ==
  /\ Dispatch
  /\ rescanConfigs([d \in Displays |-> [disp[d] EXCEPT !.stillThere = FALSE]], C)
  /\ UNCHANGED <<todo, startingServer, serverTimer, stopping, sd, ttyWatch, childVars>>

\* SIGUSR1 of some X server: the one being started has come up
\* (startServerSuccess), as far as the master can tell.
HandleSigusr1(d) ==
  /\ Dispatch
  /\ d \in usr1
  /\ usr1' = usr1 \ {d}
  /\ IF startingServer # None /\ disp[startingServer].serverStatus = "starting"
     THEN startServerSuccess(startingServer)
     ELSE UNCHANGED <<disp, serverTimer, session, server>>
  /\ UNCHANGED <<todo, startingServer, stopping, sd, listening, ttyWatch, xconn>>

\* reapChildren() has one more child to wait for.
Reap == pc \in {"select", "dispatch", "reap"} /\ pc' = "reap"

\* What the exit code of a session asks of exitDisplay().
EndState(d, code) ==
  CASE code = "remote"    -> "remoteLogin"
    [] code = "toReserve" -> "reserve"
    [] code = "normal"    -> IF d \in Reserve THEN "reserve" ELSE "restart"
    [] code = "unmanage"  -> "remove"
    [] OTHER              -> "restart"

ServerCmd(d, code) ==
  IF disp[d].status = "raiser" \/ code = "normal" THEN "keep"
  ELSE IF code = "retry" THEN "retry" ELSE "restart"

\* A restart of d is to terminate its X server.
KillsServer(d, keep) == server[d] # "none" /\ (~keep \/ d \in TerminateServer)

\* exitDisplay() restarts d: the X server is kept, or killed and waited for.
RestartDisplay(d, r, keep, se) ==
  /\ disp' = [disp EXCEPT ![d] =
       [r EXCEPT !.status = IF KillsServer(d, keep) THEN "phoenix" ELSE "notRunning"]]
  /\ session' = se
  /\ UNCHANGED <<startingServer, serverTimer, ttyWatch, server>>

\* Mutation: startTries is compared before it is incremented.
TooManyTriesLate(r) == r.startTries > StartAttempts + 1

\* A foreign display that could not be opened startTries times is disabled.
TooManyTries(r) == r.startTries > StartAttempts

\* waitpid() returns the session of d: exitDisplay().  A local display whose
\* session was too short-lived is disabled, a foreign one is after StartAttempts.
ReapSession(d) ==
  LET code == session[d]
      cmd  == ServerCmd(d, code)
      end  == IF sd.phase \in {"waiting", "expired"} \/ stopping THEN "remove"
              ELSE EndState(d, code)
      se   == [session EXCEPT ![d] = "none"]
      r    == [disp[d] EXCEPT !.userSess = FALSE]
      Stop(fate) == StopDisplayTo(d, r, fate, se, server)
      tries == [r EXCEPT !.startTries = r.startTries + 1]
  IN  /\ Reap
      /\ DeadSession(d)
      /\ IF r.status = "zombie" THEN Stop(r.zstatus)
         ELSE IF end # "restart" THEN Stop(end)
         ELSE IF d \in Transient THEN Stop("remove")
         ELSE IF cmd # "retry"
         THEN RestartDisplay(d, [r EXCEPT !.startTries = 0], cmd = "keep", se)
         ELSE IF d \in Local
         THEN Stop("remove") \/ RestartDisplay(d, r, FALSE, se)
         ELSE IF TooManyTries(tries)
         THEN StopDisplayTo(d, tries, "remove", se, server)
         ELSE RestartDisplay(d, tries, FALSE, se)
      /\ xconn' = xconn \ {d}
      /\ UNCHANGED <<todo, stopping, sd, listening, usr1>>

\* waitpid() returns the X server of d.
ReapServer(d) ==
  LET r    == disp[d]
      sv   == [server EXCEPT ![d] = "none"]
      Become(st) == disp' = [disp EXCEPT ![d].status = st]
  IN  /\ Reap
      /\ DeadServer(d)
      /\ CASE r.status = "zombie" -> StopDisplayTo(d, r, r.zstatus, session, sv)
           [] r.status = "running" /\ startingServer = d /\ r.serverStatus # "ignore" ->
                StartServerFailed(d, r, sv) /\ UNCHANGED <<session, ttyWatch>>
           [] OTHER ->
                /\ CASE r.status = "phoenix" -> Become("notRunning")
                     [] r.status = "remoteLogin" ->
                          Become(IF d \in Reserve THEN "reserve" ELSE "notRunning")
                     [] OTHER -> UNCHANGED disp
                /\ server' = sv
                /\ UNCHANGED <<startingServer, serverTimer, session, ttyWatch>>
      /\ UNCHANGED <<todo, stopping, sd, listening, xconn, usr1>>

\* Nothing is left to reap.  With AutoRescan a kdmrc that has changed is
\* scanned, without marking the displays first: it lists at least C.
EndReap(C) ==
  /\ pc = "reap" /\ ~DeadChild
  /\ pc' = "top"
  /\ IF stopping THEN UNCHANGED <<disp, listening>> ELSE rescanConfigs(disp, C)
  /\ UNCHANGED <<todo, startingServer, serverTimer, stopping, sd, ttyWatch, childVars>>

-----------------------------------------------------------------------------
(* Messages of sessions and greeters *)

\* D_XConnOk: the session of a local display has connected to its X server.
RecvXConnOk(d) ==
  /\ Dispatch
  /\ d \in xconn
  /\ xconn' = xconn \ {d}
  /\ startingServer' = None
  /\ UNCHANGED <<todo, disp, serverTimer, stopping, sd, listening, ttyWatch,
                 session, server, usr1>>

\* D_User: a user has logged in.
RecvUser(d) ==
  /\ Dispatch
  /\ session[d] = "connected" /\ d \notin xconn /\ ~disp[d].userSess
  /\ disp' = [disp EXCEPT ![d].userSess = TRUE]
  /\ UNCHANGED <<todo, startingServer, serverTimer, stopping, sd, listening,
                 ttyWatch, childVars>>

\* D_UnUser: the user session is over; a shutdown asked for on the command
\* socket of d may take effect now.
RecvUnUser(d, s) ==
  /\ Dispatch
  /\ session[d] = "connected" /\ disp[d].userSess
  /\ disp' = [disp EXCEPT ![d].userSess = FALSE]
  /\ sd' = s
  /\ UNCHANGED <<todo, startingServer, serverTimer, stopping, listening,
                 ttyWatch, childVars>>

\* A broken or unknown message of the session or greeter of d.
RecvGarbage(d) ==
  /\ Dispatch
  /\ session[d] # "none"
  /\ disp' = StopAll({d}, "remove")
  /\ AbortStartServer({d})
  /\ UNCHANGED <<todo, stopping, sd, listening, ttyWatch, childVars>>

\* G_Console: the user of a greeter wants the text console, stopToTTY().
RecvConsole(d) ==
  LET S == {e \in Managed \cap Local : disp[e].status \notin {"reserve", "textMode"}}
  IN  /\ Dispatch
      /\ ConsoleTTYs
      /\ d \in Local /\ session[d] = "connected" /\ d \notin xconn /\ ~disp[d].userSess
      /\ CheckTTYMode(StopAll(S, "textMode"))
      /\ AbortStartServer(S)
      /\ UNCHANGED <<todo, stopping, sd, listening, childVars>>

-----------------------------------------------------------------------------
(* Commands on the control sockets, and displays that arrive by XDMCP *)

OnlyDisp == UNCHANGED <<todo, startingServer, serverTimer, stopping, sd, listening,
                        ttyWatch, childVars>>

\* Mutation: a running display that has no session yet is raised, too.
LoginWithoutSession(d, now) ==
  /\ Dispatch
  /\ \/ /\ disp[d].status = "running"
        /\ ~disp[d].userSess \/ now
        /\ disp' = [disp EXCEPT ![d].status = "raiser"]
     \/ /\ disp[d].status = "reserve"
        /\ disp' = [disp EXCEPT ![d].status = "notRunning"]
  /\ OnlyDisp

\* "login d (now | schedule)"
CmdLogin(d, now) ==
  /\ Dispatch
  /\ \/ /\ disp[d].status = "running" /\ session[d] # "none"
        /\ ~disp[d].userSess \/ now
        /\ disp' = [disp EXCEPT ![d].status = "raiser"]
     \/ /\ disp[d].status = "reserve"
        /\ disp' = [disp EXCEPT ![d].status = "notRunning"]
  /\ OnlyDisp

\* "suicide" on the socket of d
CmdSuicide(d) ==
  /\ Dispatch
  /\ disp[d].status = "running" /\ session[d] # "none"
  /\ disp' = [disp EXCEPT ![d].status = "raiser"]
  /\ OnlyDisp

\* "reserve": some display in reserve is to be started.
CmdReserve(d) ==
  /\ Dispatch
  /\ disp[d].status = "reserve"
  /\ disp' = [disp EXCEPT ![d].status = "notRunning"]
  /\ OnlyDisp

\* "resume"
CmdResume ==
  /\ Dispatch
  /\ disp' = WakeDisplays(disp)
  /\ ttyWatch' = FALSE
  /\ UNCHANGED <<todo, startingServer, serverTimer, stopping, sd, listening, childVars>>

\* "manage d"
CmdManage(d) ==
  /\ Dispatch
  /\ d \in Command /\ disp[d].status = "absent"
  /\ disp' = [disp EXCEPT ![d] = NewDisplay(d)]
  /\ OnlyDisp

\* "unmanage d"
CmdUnmanage(d) ==
  /\ Dispatch
  /\ d \in Command /\ disp[d].status # "absent"
  /\ disp' = StopAll({d}, "remove")
  /\ AbortStartServer({d})
  /\ UNCHANGED <<todo, stopping, sd, listening, ttyWatch, childVars>>

\* manage() of an XDMCP packet: the display of the same name, if there is one, is
\* stopped, and unless memory is short a new entry d is made.  The old one may be
\* in the list beside it, as a zombie, for a while.
XdmcpManage(d) ==
  /\ Dispatch
  /\ d \in Transient /\ listening
  /\ \E S \in {{}} \cup {{e} : e \in Managed \ Local} :
       /\ AbortStartServer(S)
       /\ LET list == StopAll(S, "remove") IN
          \/ disp' = list
          \/ list[d].status = "absent" /\ disp' = [list EXCEPT ![d] = NewDisplay(d)]
  /\ UNCHANGED <<todo, stopping, sd, listening, ttyWatch, childVars>>

\* "shutdown" or the shutdown dialog of a greeter, which may also take a shutdown
\* back: unlike "shutdown cancel" it only forgets the record.
RequestShutdown(s) ==
  /\ Dispatch
  /\ sd' = s
  /\ UNCHANGED <<todo, disp, startingServer, serverTimer, stopping, listening,
                 ttyWatch, childVars>>

\* "shutdown cancel"
CancelShutdown(C) ==
  /\ Dispatch
  /\ cancelShutdown(C)
  /\ UNCHANGED <<todo, startingServer, serverTimer, ttyWatch, childVars>>

-----------------------------------------------------------------------------
(* The children *)

Alive == pc \notin {"exit", "crashed"}

\* The master has sent SIGTERM to the child.
SessionTermed(d) ==
  \/ disp[d].status \in {"zombie", "raiser"}
  \/ disp[d].status = "running" /\ d \in Local /\ server[d] = "none"

ServerTermed(d) ==
  \/ disp[d].status \in {"zombie", "phoenix"}
  \/ disp[d].serverStatus \in {"terminated", "killed"}

\* The X server of a local display is up and tells its parent.
ServerReady(d) ==
  /\ Alive /\ server[d] = "booting"
  /\ server' = [server EXCEPT ![d] = "ready"]
  /\ usr1' = usr1 \cup {d}
  /\ UNCHANGED <<masterVars, session, xconn>>

\* An X server exits: it fails, crashes or has been told to.
ServerExit(d) ==
  /\ Alive /\ server[d] \in {"booting", "ready"}
  /\ server' = [server EXCEPT ![d] = "dead"]
  /\ UNCHANGED <<masterVars, session, xconn, usr1>>

\* waitForServer() succeeds and the session of a local display says so.
SessionConnect(d) ==
  /\ Alive /\ session[d] = "waiting"
  /\ d \in Local => server[d] = "ready"
  /\ session' = [session EXCEPT ![d] = "connected"]
  /\ xconn' = IF d \in Local THEN xconn \cup {d} ELSE xconn
  /\ UNCHANGED <<masterVars, server, usr1>>

\* The exit codes a session may leave with: greeters ask for "reserver",
\* "toReserve" or "remote"; until manageSession() has installed catchTerm()
\* SIGTERM kills it, and it fails if it cannot connect.
PossibleExits(d) ==
  {"unmanage"}
  \cup (IF session[d] = "waiting" \/ SessionTermed(d) THEN {"retry"} ELSE {})
  \cup (IF session[d] = "connected" THEN {"normal", "reserver"} ELSE {})
  \cup (IF session[d] = "connected" /\ d \in Reserve THEN {"toReserve"} ELSE {})
  \cup (IF session[d] = "connected" /\ d \in Local THEN {"remote"} ELSE {})

SessionExit(d) ==
  /\ Alive /\ session[d] \in {"waiting", "connected"}
  /\ \E code \in PossibleExits(d) : session' = [session EXCEPT ![d] = code]
  /\ UNCHANGED <<masterVars, server, xconn, usr1>>

-----------------------------------------------------------------------------
(* The specification *)

Init ==
  /\ pc = "top"
  /\ todo = {}
  /\ \E C \in Kdmrc : disp = ScanServers([d \in Displays |-> Absent], C)
  /\ startingServer = None
  /\ serverTimer = FALSE
  /\ stopping = FALSE
  /\ sd = NoShutdown
  /\ listening = Xdmcp
  /\ ttyWatch = FALSE
  /\ session = [d \in Displays |-> "none"]
  /\ server = [d \in Displays |-> "none"]
  /\ xconn = {}
  /\ usr1 = {}

MainLoop == LoopTop \/ NoShutdownDue \/ ShutdownWaits \/ ShutdownExpires
            \/ NothingElse
            \/ \E d \in Displays, waits \in BOOLEAN : KickDisplay(d, waits)

Timeouts == ServerTimeout \/ UtmpTimeout

Signals ==
  \/ HandleSigterm
  \/ \E C \in Kdmrc : HandleSighup(C) \/ EndReap(C)
  \/ \E d \in Displays : HandleSigusr1(d) \/ ReapSession(d) \/ ReapServer(d)

Messages ==
  \E d \in Displays :
    \/ RecvXConnOk(d) \/ RecvUser(d) \/ RecvGarbage(d) \/ RecvConsole(d)
    \/ \E s \in {sd} \cup Schedules : RecvUnUser(d, s)

Commands ==
  \/ CmdResume
  \/ \E d \in Displays :
       \/ CmdLogin(d, TRUE) \/ CmdLogin(d, FALSE) \/ CmdSuicide(d) \/ CmdReserve(d)
       \/ CmdManage(d) \/ CmdUnmanage(d)
  \/ \E s \in {NoShutdown} \cup Schedules : RequestShutdown(s)
  \/ \E C \in Kdmrc : CancelShutdown(C)

Packets == \E d \in Displays : XdmcpManage(d)

Children ==
  \E d \in Displays : ServerReady(d) \/ ServerExit(d) \/ SessionConnect(d) \/ SessionExit(d)

\* The master has left its main loop, or has crashed.
Terminated == ~Alive /\ UNCHANGED vars

Next == MainLoop \/ Timeouts \/ Signals \/ Messages \/ Commands \/ Packets \/ Children
        \/ Terminated

Spec == Init /\ [][Next]_vars

\* The master keeps running, select() returns for whatever stays pending, and a
\* child that has been sent SIGTERM exits.  Nothing else is promised: servers
\* need not come up, sessions need not connect or end.
Fairness ==
  /\ WF_vars(MainLoop)
  /\ WF_vars(ServerTimeout)
  /\ WF_vars(UtmpTimeout)
  /\ WF_vars(\E C \in Kdmrc : EndReap(C))
  /\ \A d \in Displays :
       /\ SF_vars(ReapSession(d)) /\ SF_vars(ReapServer(d))
       /\ SF_vars(HandleSigusr1(d)) /\ SF_vars(RecvXConnOk(d))
       /\ WF_vars(SessionTermed(d) /\ SessionExit(d))
       /\ WF_vars(ServerTermed(d) /\ ServerExit(d))

FairSpec == Spec /\ Fairness

-----------------------------------------------------------------------------
(* Safety *)

\* The master's variables and its children keep to the values of dm.h, greet.h and
\* this module; in particular the fate of a zombie is a masked DS_* code.
TypeOK ==
  /\ pc \in {"top", "kick", "select", "dispatch", "reap", "exit", "crashed"}
  /\ todo \in SUBSET Displays
  /\ disp \in [Displays -> DisplayRecords]
  /\ startingServer \in Displays \cup {None}
  /\ serverTimer \in BOOLEAN
  /\ stopping \in BOOLEAN
  /\ sd \in Shutdowns
  /\ listening \in BOOLEAN
  /\ ttyWatch \in BOOLEAN
  /\ session \in [Displays -> SessionStates]
  /\ server \in [Displays -> ServerStates]
  /\ xconn \in SUBSET Displays
  /\ usr1 \in SUBSET Displays

\* What dm.h says of each displayStatus is true of the processes, whatever the
\* order in which deaths, commands and timeouts are handled: a zombie, a phoenix,
\* a remote login and a raiser wait for a process whose death will be reaped, so
\* they cannot wait for ever; only a running, dying or raised display owns a
\* session; and a display that leaves the list or goes to the console leaves no
\* X server behind (rStopDisplay, exitDisplay, reapChildren).
StatusMatchesProcesses ==
  \A d \in Displays :
    LET st == disp[d].status IN
    /\ st = "zombie" => session[d] # "none" \/ server[d] # "none"
    /\ st \in {"phoenix", "remoteLogin"} => server[d] # "none"
    /\ st = "raiser" => session[d] # "none"
    /\ session[d] # "none" => st \in {"running", "zombie", "raiser"}
    /\ st \in {"absent", "textMode"} => server[d] = "none"

\* startingServer is never left pointing at a display that was removed (freed) or
\* is being stopped: every path through rStopDisplay() aborts the start first.
NoDanglingStart ==
  startingServer # None =>
    disp[startingServer].status \in {"running", "raiser", "phoenix", "notRunning", "reserve"}

\* A display is never tried more often than kdmrc allows before it is disabled:
\* startTries of startServerFailed() for X servers, of exitDisplay() for foreign
\* displays.
TriesBounded ==
  \A d \in Displays :
    IF d \in Local THEN ServerAttempts = 0 \/ disp[d].startTries <= ServerAttempts
    ELSE disp[d].startTries <= StartAttempts

\* The master leaves mainLoop() only when all its children have been reaped, even
\* if kdmrc was scanned again or the shutdown was rescheduled while it stopped.
NoOrphans ==
  pc = "exit" => \A d \in Displays : session[d] = "none" /\ server[d] = "none"

\* A fork is for a display without such a process, except for the X server that
\* even SIGKILL did not end, which startServerTimeout() means to leave alone.
ForksOverNothing ==
  \A d \in Displays :
    /\ session'[d] = "waiting" => session[d] \in {"none", "waiting"}
    /\ server'[d] = "booting" => \/ server[d] \in {"none", "booting"}
                                 \/ disp[d].serverStatus = "pausing"

\* No fork overwrites the pid of a child that is still there, which could then not
\* be reaped any more: startDisplayP2() and startServerOnce() do not look at the
\* pid, their callers must have done so.
NoProcessLost == [][ForksOverNothing]_vars

\* A local display on its way out of the list that is to become a console instead.
CalledBack(d) ==
  /\ ConsoleTTYs /\ d \in Local
  /\ disp[d].status = "zombie" /\ disp[d].zstatus = "textMode"

\* A display on its way out of the list stays on it, unless it is called back.
RemovalGoesOn ==
  \A d \in Displays :
    Leaving(d) => disp'[d].status = "absent" \/ Leaving(d)' \/ CalledBack(d)'

\* A display that is being removed is removed: no command, rescan, packet or cancelled
\* shutdown brings a zombie back (rStopDisplay, addServers, manage), except that a
\* switch to the console gives local displays another fate (stopToTTY).
RemovalIsFinal == [][RemovalGoesOn]_vars

\* A display as its users see it.
Seat ==
  [d \in Displays |->
     IF disp[d].status = "absent" THEN "none"
     ELSE IF Leaving(d) THEN "closing"
     ELSE IF session[d] # "none" THEN "taken"
     ELSE IF server[d] # "none" THEN "lit" ELSE "dark"]

Promised == INSTANCE Seats WITH seat <- Seat

\* Without a console mode, the daemon keeps what the module Seats promises: no session
\* begins on a display that is not listed, is being removed, has a session, or is local
\* and has no X server, although startDisplayP2() looks at none of it.
SeatsKept == Promised!SeatsSpec

(* The inductive invariant behind StatusMatchesProcesses, NoDanglingStart and  *)
(* NoProcessLost, for a kdmrc without ConsoleTTYs or with two local displays.  *)
(* With three, one that is connected may send to the console another one that  *)
(* awaits its turn while the X server of the third is started.                 *)

\* The console mode is only entered with ConsoleTTYs.
TextModeIsAllowed ==
  ConsoleTTYs \/ /\ ~ttyWatch
                 /\ \A d \in Displays : disp[d].status # "textMode" /\ disp[d].zstatus # "textMode"

\* Exactly the zombies have a fate.
ZombiesHaveFate ==
  \A d \in Displays : disp[d].status = "zombie" <=> disp[d].zstatus # "none"

\* A display in the hands of server.c has no session, and if it is a zombie it is
\* not one that comes back to life, but by way of the console and without X server.
StartersHaveNoSession ==
  \A d \in Displays :
    /\ disp[d].serverStatus = "awaiting" =>
         disp[d].status = "running" /\ session[d] = "none" /\ server[d] = "none"
    /\ disp[d].serverStatus \notin {"ignore", "awaiting"} =>
         /\ session[d] = "none"
         /\ \/ disp[d].status = "running" \/ disp[d].zstatus = "remove"
            \/ /\ ConsoleTTYs
               /\ \/ disp[d].zstatus = "textMode"
                  \/ disp[d].status # "absent" /\ server[d] = "none"

\* The displays startServer() has been called for and not tried yet.
Awaiting == {d \in Displays : disp[d].serverStatus = "awaiting"}

\* server.c has to do with local displays only.  One whose X server is being started
\* is running, and the message that it is connected ends its turn.
StartersAreLocal ==
  \A d \in Displays :
    /\ disp[d].serverStatus # "ignore" \/ startingServer = d => d \in Local
    /\ startingServer = d =>
         /\ disp[d].serverStatus \in {"ignore", "awaiting"} \/ disp[d].status = "running"
         /\ session[d] = "connected" => d \in xconn

\* Nothing is kicked while the daemon stops, and no display awaits its turn for nothing:
\* it is another one's turn, or kickDisplay() is still to come.  So with two local
\* displays stopToTTY() stops none that awaits it.
TurnsAreTaken ==
  /\ todo # {} => pc = "kick" /\ ~stopping
  /\ stopping => Awaiting = {}
  /\ pc = "kick" => startingServer # None \/ Awaiting \subseteq todo
  /\ ConsoleTTYs /\ pc \in {"select", "dispatch"} =>
       \A d \in Local : session[d] = "connected" /\ d \notin xconn => Awaiting \subseteq {startingServer}

\* A user session is one of a session process.
UsersHaveSession == \A d \in Displays : disp[d].userSess => session[d] # "none"

\* All of it: what reapChildren(), startServer() and rStopDisplay() rely on when
\* they do not look at a pid before they act on it.
IInv == /\ TypeOK /\ TextModeIsAllowed /\ ZombiesHaveFate /\ StartersHaveNoSession
        /\ StatusMatchesProcesses /\ NoDanglingStart
        /\ StartersAreLocal /\ TurnsAreTaken /\ UsersHaveSession

\* What SeatsKept needs beside: an X server being started is there until its death is
\* reaped, and only local displays have to do with X servers.
SeatInv ==
  \A d \in Displays :
    /\ startingServer = d /\ disp[d].serverStatus = "starting" => server[d] # "none"
    /\ \/ disp[d].serverStatus # "ignore" \/ disp[d].zstatus = "remoteLogin"
       \/ session[d] = "remote" \/ server[d] # "none"
       => d \in Local

\* What NoOrphans needs beside: what a stopping daemon does not wait for has no process.
ExitInv ==
  /\ NoOrphans
  /\ \A d \in Displays :
       /\ disp[d].zstatus \in {"reserve", "remoteLogin"} => session[d] = "none"
       /\ stopping =>
            /\ disp[d].status \in {"notRunning", "reserve"} => server[d] = "none"
            /\ disp[d].status = "running" => session[d] # "none"
            /\ disp[d].zstatus \in {"none", "remove", "textMode"}

\* What TriesBounded needs beside: a server that pauses has an attempt left.
TriesInv ==
  /\ TriesBounded
  /\ \A d \in Displays : disp[d].serverStatus = "pausing" => MoreAttempts(disp[d])

-----------------------------------------------------------------------------
(* What the repository says and the code does not do *)

\* While serverTimeout is armed there is a server whose start it limits: the cases
\* ignore and awaiting of startServerTimeout() "cannot happen" (server.c:168).
TimeoutHasServer ==
  serverTimer => /\ startingServer # None
                 /\ disp[startingServer].serverStatus \notin {"ignore", "awaiting"}

-----------------------------------------------------------------------------
(* Liveness *)

\* No display stays for ever in a state that waits for a process to die: what
\* rStopDisplay(), exitDisplay() and "login now" terminated is reaped.
TransientStatesEnd ==
  \A d \in Displays : \A st \in {"zombie", "phoenix", "raiser"} :
    disp[d].status = st ~> disp[d].status # st

\* A master that stops, and has something to wait for, gets out of its main loop
\* unless a user is still logged in or the shutdown is cancelled.
StoppingEnds ==
  stopping /\ (\E d \in Displays : disp[d].status = "zombie")
    ~> \/ ~Alive \/ ~stopping
       \/ \E d \in Displays : disp[d].userSess \/ disp[d].status = "remoteLogin"

\* A shutdown whose timeout is past takes place: "Zero means immediately"
\* (doc/kdm/index.docbook).
ForcedShutdownEnds ==
  sd.phase = "expired" ~> ~Alive \/ ~stopping \/ sd.phase # "expired"

\* A phoenix is "restart[ed] when it dies" (dm.h:189), unless it is stopped first.
PhoenixRises ==
  \A d \in Displays :
    disp[d].status = "phoenix" ~>
      \/ server[d] = "booting" \/ stopping \/ ~Alive
      \/ disp[d].status \in {"zombie", "absent"}

=============================================================================
