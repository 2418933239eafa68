-------------------------- MODULE LifecycleProofs ---------------------------
(***************************************************************************)
(* What the life cycle of the displays comes to, for every set of displays *)
(* and every kdmrc without ConsoleTTYs or with two local displays: no      *)
(* display is tried more often than kdmrc allows, and the daemon leaves    *)
(* its main loop with no child behind, whatever shutdowns there were.      *)
(* Without ConsoleTTYs the daemon implements Seats.                        *)
(***************************************************************************)
EXTENDS DisplayManagerProofs

-----------------------------------------------------------------------------
(* Seats *)

\* What a step may make of the processes of a display: it gives a session only to a
\* display that is run and needs no X server any more, and an X server only to a local
\* one that is not on its way out.
SeatForks ==
  \A d \in Displays :
    /\ session[d] = "none" /\ session'[d] # "none" =>
         /\ disp[d].status \in {"running", "notRunning"}
         /\ server[d] # "none" \/ d \notin Local
         /\ disp'[d].status = "running"
    /\ server[d] = "none" /\ server'[d] # "none" =>
         /\ d \in Local
         /\ disp[d].status # "absent"
         /\ disp'[d].status # "zombie"

\* What a step that concerns no process may do to a display.
Gentle(d) ==
  /\ disp'[d].serverStatus \in {disp[d].serverStatus, "ignore"}
  /\ disp'[d].zstatus \in {disp[d].zstatus, "none", "remove", "textMode"}

\* A display the step does not concern; the console may have been given up under it.
Kept(d) ==
  /\ disp'[d].zstatus = disp[d].zstatus /\ disp'[d].serverStatus = disp[d].serverStatus
  /\ session'[d] = session[d] /\ server'[d] = server[d]

\* SeatInv and SeatForks of one display.
SeatInvOf(d) ==
  /\ startingServer = d /\ disp[d].serverStatus = "starting" => server[d] # "none"
  /\ \/ disp[d].serverStatus # "ignore" \/ disp[d].zstatus = "remoteLogin"
     \/ session[d] = "remote" \/ server[d] # "none"
     => d \in Local

SeatForksOf(d) ==
  /\ session[d] = "none" /\ session'[d] # "none" =>
       /\ disp[d].status \in {"running", "notRunning"}
       /\ server[d] # "none" \/ d \notin Local
       /\ disp'[d].status = "running"
  /\ server[d] = "none" /\ server'[d] # "none" =>
       /\ d \in Local
       /\ disp[d].status # "absent"
       /\ disp'[d].status # "zombie"

\* A step of one display leaves the others alone.
LEMMA OneSeat ==
  ASSUME TypeOK, SeatInv, NEW d \in Displays,
         \A e \in Displays \ {d} : Kept(e),
         startingServer' \in {startingServer, d, None},
         SeatInvOf(d)', SeatForksOf(d)
  PROVE  SeatInv' /\ SeatForks
BY ConfigAssumption DEF SeatInv, SeatForks, SeatInvOf, SeatForksOf, Kept, TypeOK

\* A step that concerns no process.
LEMMA GentleStep ==
  ASSUME TypeOK, SeatInv, \A d \in Displays : Gentle(d),
         UNCHANGED <<session, server>>, startingServer' \in {startingServer, None}
  PROVE  SeatInv' /\ SeatForks
BY ConfigAssumption DEF SeatInv, SeatForks, Gentle, TypeOK

\* stopDisplay() of a set of displays is gentle.
LEMMA StopAllGentle ==
  ASSUME TypeOK, NEW S, NEW fate \in {"remove", "textMode"}, NEW d \in Displays
  PROVE  LET r == StopAll(S, fate)[d] IN
         /\ r \in DisplayRecords
         /\ r.serverStatus \in {disp[d].serverStatus, "ignore"}
         /\ r.zstatus \in {disp[d].zstatus, "none", "remove", "textMode"}
<1>1. disp[d] \in DisplayRecords
  BY DEF TypeOK
<1> QED
  <2> DEFINE s == Stopped(d, disp[d], session[d] # "none" \/ server[d] # "none", fate)
  <2>1. StopAll(S, fate)[d] = IF d \in S THEN s ELSE disp[d]
    BY DEF StopAll
  <2>2. s \in DisplayRecords
    BY <1>1, StoppedType DEF Fates
  <2>3. /\ s.serverStatus \in {disp[d].serverStatus, "ignore"}
        /\ s.zstatus \in {disp[d].zstatus, "none", "remove", "textMode"}
    BY <1>1 DEF Stopped, Absent, DisplayRecords
  <2> HIDE DEF s
  <2> QED
    BY <1>1, <2>1, <2>2, <2>3

\* wakeDisplays() changes neither a fate nor what server.c knows, nor the tries.
LEMMA WakeKeeps ==
  ASSUME NEW list \in [Displays -> DisplayRecords], NEW d \in Displays
  PROVE  /\ WakeDisplays(list)[d].zstatus = list[d].zstatus
         /\ WakeDisplays(list)[d].serverStatus = list[d].serverStatus
         /\ WakeDisplays(list)[d].startTries = list[d].startTries
BY DEF WakeDisplays, DisplayRecords

\* So is rescanConfigs() of a list that differs in its marks.
LEMMA RescanGentle ==
  ASSUME TypeOK, NEW C, NEW list \in [Displays -> DisplayRecords],
         \A e \in Displays : /\ list[e].zstatus = disp[e].zstatus
                             /\ list[e].serverStatus = disp[e].serverStatus,
         rescanConfigs(list, C), NEW d \in Displays
  PROVE  Gentle(d)
<1>1. CASE disp' = list
  BY <1>1 DEF Gentle
<1>2. CASE disp' = ScanServers(list, C)
  <2>1. disp'[d] = ScanServers(list, C)[d] /\ list[d] \in DisplayRecords
    BY <1>2
  <2>2. CASE d \in C /\ list[d].status = "absent"
    <3>1. disp'[d] = NewDisplay(d)
      BY <1>2, <2>2 DEF ScanServers
    <3> QED
      BY <3>1, NewDisplayOK DEF Gentle
  <2>3. CASE ~(d \in C /\ list[d].status = "absent")
    <3>1. disp'[d].zstatus = list[d].zstatus /\ disp'[d].serverStatus = list[d].serverStatus
      BY <2>1, <2>3 DEF ScanServers, DisplayRecords
    <3> QED
      BY <3>1 DEF Gentle
  <2> QED
    BY <2>2, <2>3
<1> QED
  BY <1>1, <1>2 DEF rescanConfigs

\* startDisplayP2() of a display without a session that is not to wait for its X server.
LEMMA StartDisplayP2Seat ==
  ASSUME TypeOK, SeatInv, NEW d \in Displays, NEW r \in DisplayRecords,
         disp[d].status \in {"running", "notRunning"},
         r.status = "running", r.zstatus = "none", r.serverStatus = "ignore",
         server[d] # "none" \/ d \notin Local,
         StartDisplayP2(d, r), UNCHANGED startingServer
  PROVE  SeatInv' /\ SeatForks
<1> DEFINE n == [r EXCEPT !.status = "notRunning"]
<1>1. n.status = "notRunning" /\ n.zstatus = "none" /\ n.serverStatus = "ignore"
  BY DEF DisplayRecords
<1>2. /\ \/ disp' = [disp EXCEPT ![d] = r] /\ session' = [session EXCEPT ![d] = "waiting"]
         \/ disp' = [disp EXCEPT ![d] = n] /\ UNCHANGED session
      /\ UNCHANGED server
  BY DEF StartDisplayP2
<1> HIDE DEF n
<1>3. /\ \/ disp'[d] = r /\ session'[d] = "waiting"
         \/ disp'[d] = n /\ session'[d] = session[d]
      /\ \A e \in Displays \ {d} : Kept(e)
  BY <1>2 DEF Kept, TypeOK
<1>4. (server[d] # "none" \/ session[d] = "remote") => d \in Local
  BY DEF SeatInv
<1>5. SeatInvOf(d)' /\ SeatForksOf(d)
  BY <1>1, <1>2, <1>3, <1>4 DEF SeatInvOf, SeatForksOf
<1> QED
  BY <1>3, <1>5, OneSeat

\* startServerFailed() of a local display.
LEMMA StartServerFailedSeat ==
  ASSUME TypeOK, SeatInv, NEW d \in Local, NEW r \in DisplayRecords, NEW sv,
         \A e \in Displays \ {d} : sv[e] = server[e], sv[d] \in {server[d], "none"},
         StartServerFailed(d, r, sv), UNCHANGED session
  PROVE  SeatInv' /\ SeatForks
<1> DEFINE p == [r EXCEPT !.serverStatus = "pausing"]
           i == [r EXCEPT !.serverStatus = "ignore"]
           s == Stopped(d, i, session[d] # "none" \/ sv[d] # "none", "remove")
<1>1. d \in Displays /\ p.serverStatus = "pausing"
  BY ConfigAssumption DEF DisplayRecords
<1>2. s.serverStatus = "ignore"
  BY DEF Stopped, Absent, DisplayRecords
<1>3. /\ \/ disp' = [disp EXCEPT ![d] = p] /\ startingServer' = d
         \/ disp' = [disp EXCEPT ![d] = s] /\ startingServer' = None
      /\ server' = sv
  BY DEF StartServerFailed
<1> HIDE DEF p, i, s
<1>4. disp'[d] \in {p, s} /\ \A e \in Displays \ {d} : Kept(e)
  BY <1>1, <1>3 DEF Kept, TypeOK
<1>5. SeatInvOf(d)' /\ SeatForksOf(d)
  BY <1>1, <1>2, <1>3, <1>4 DEF SeatInvOf, SeatForksOf
<1> QED
  BY <1>1, <1>3, <1>4, <1>5, OneSeat

\* startServerOnce() of a local display that is run.
LEMMA StartServerOnceSeat ==
  ASSUME TypeOK, SeatInv, NEW d \in Local, NEW r \in DisplayRecords,
         disp[d].status # "absent", r.status = "running",
         StartServerOnce(d, r), UNCHANGED session
  PROVE  SeatInv' /\ SeatForks
<1> DEFINE s == [r EXCEPT !.startTries = r.startTries + 1, !.serverStatus = "starting"]
           sv == [server EXCEPT ![d] = "none"]
<1>1. s \in DisplayRecords /\ s.status = "running"
  <2>1. r.startTries + 1 \in Nat
    BY DEF DisplayRecords
  <2>2. \A n \in Nat :
          LET t == [r EXCEPT !.startTries = n, !.serverStatus = "starting"] IN
          t \in DisplayRecords /\ t.status = "running"
    BY DEF DisplayRecords, ServerStatuses
  <2> QED
    BY <2>1, <2>2
<1>2. d \in Displays
  BY ConfigAssumption
<1>3. (\A e \in Displays \ {d} : sv[e] = server[e]) /\ sv[d] = "none"
  BY <1>2 DEF TypeOK
<1>4. \/ /\ disp' = [disp EXCEPT ![d] = s]
         /\ startingServer' = d
         /\ server' = [server EXCEPT ![d] = "booting"]
      \/ StartServerFailed(d, s, sv)
  BY DEF StartServerOnce
<1> HIDE DEF s, sv
<1>5. CASE StartServerFailed(d, s, sv)
  BY <1>1, <1>3, <1>5, StartServerFailedSeat
<1>6. CASE /\ disp' = [disp EXCEPT ![d] = s]
           /\ startingServer' = d
           /\ server' = [server EXCEPT ![d] = "booting"]
  <2>1. /\ disp'[d] = s /\ server'[d] = "booting" /\ session'[d] = session[d]
        /\ \A e \in Displays \ {d} : Kept(e)
    BY <1>2, <1>6 DEF Kept, TypeOK
  <2>2. SeatInvOf(d)' /\ SeatForksOf(d)
    BY <1>1, <2>1 DEF SeatInvOf, SeatForksOf
  <2> QED
    BY <1>2, <1>6, <2>1, <2>2, OneSeat
<1> QED
  BY <1>4, <1>5, <1>6

\* rStopDisplay() of a display of which a process has been reaped.
LEMMA StopDisplayToSeat ==
  ASSUME TypeOK, SeatInv, NEW d \in Displays, NEW r \in DisplayRecords,
         NEW fate \in Fates, NEW se, NEW sv,
         sv \in [Displays -> ServerStates],
         \A e \in Displays \ {d} : se[e] = session[e] /\ sv[e] = server[e],
         se[d] \in {session[d], "none"}, sv[d] \in {server[d], "none"},
         r.serverStatus = disp[d].serverStatus, disp[d].status # "absent",
         fate = "remoteLogin" => d \in Local,
         StopDisplayTo(d, r, fate, se, sv)
  PROVE  SeatInv' /\ SeatForks
<1> DEFINE alive == se[d] # "none" \/ sv[d] # "none"
           s == Stopped(d, r, alive, fate)
           list == [disp EXCEPT ![d] = s]
           n == [list EXCEPT ![d].status = "notRunning"]
<1>1. /\ s \in DisplayRecords
      /\ s.serverStatus \in {r.serverStatus, "ignore"}
      /\ s.zstatus \in {fate, "none"}
      /\ ~alive => s.status # "zombie"
  <2>1. s \in DisplayRecords
    BY StoppedType
  <2> QED
    BY <2>1 DEF Stopped, Absent, DisplayRecords
<1>2. /\ session' = se
      /\ startingServer' = IF startingServer = d THEN None ELSE startingServer
  BY DEF StopDisplayTo, AbortStartServer
<1>3. \/ disp' \in {list, WakeDisplays(list), n} /\ server' = sv
      \/ ~alive /\ fate = "remoteLogin" /\ disp' = list /\ server' = [sv EXCEPT ![d] = "ready"]
  <2>1. CASE alive \/ fate \in {"remove", "reserve"}
    BY <2>1 DEF StopDisplayTo
  <2>2. CASE ~alive /\ fate = "textMode"
    BY <2>2 DEF StopDisplayTo, CheckTTYMode, SwitchToTTY
  <2>3. CASE ~alive /\ fate = "remoteLogin"
    BY <2>3 DEF StopDisplayTo
  <2> QED
    BY <2>1, <2>2, <2>3 DEF Fates
<1> HIDE DEF s
<1>4. /\ list \in [Displays -> DisplayRecords] /\ list[d] = s
      /\ \A e \in Displays \ {d} : list[e] = disp[e]
  BY <1>1 DEF TypeOK
<1> HIDE DEF list
<1>5. \A e \in Displays : /\ disp'[e].zstatus = list[e].zstatus
                          /\ disp'[e].serverStatus = list[e].serverStatus
  <2>1. CASE disp' = n
    BY <1>4, <2>1 DEF DisplayRecords
  <2>2. CASE disp' = WakeDisplays(list)
    BY <1>4, <2>2, WakeKeeps
  <2> QED
    BY <1>3, <2>1, <2>2
<1>6. \/ server'[d] = sv[d]
      \/ ~alive /\ fate = "remoteLogin" /\ disp'[d] = s
  BY <1>3, <1>4
<1>7. \A e \in Displays \ {d} : Kept(e)
  BY <1>2, <1>3, <1>4, <1>5 DEF Kept
<1> HIDE DEF n, alive
<1>8. \/ disp[d].serverStatus # "ignore" \/ session[d] = "remote" \/ server[d] # "none"
      => d \in Local
  BY DEF SeatInv
<1>9. SeatInvOf(d)'
  BY <1>1, <1>2, <1>4, <1>5, <1>6, <1>8, ConfigAssumption DEF SeatInvOf
<1>10. SeatForksOf(d)
  BY <1>1, <1>2, <1>6 DEF SeatForksOf
<1> QED
  BY <1>2, <1>7, <1>9, <1>10, OneSeat

\* One step per action.
LEMMA SeatStep == IInv /\ SeatInv /\ [Next]_vars => SeatInv' /\ SeatForks
<1> SUFFICES ASSUME IInv, SeatInv, [Next]_vars PROVE SeatInv' /\ SeatForks
  OBVIOUS
<1> DEFINE Goal == SeatInv' /\ SeatForks
<1>0. TypeOK /\ DisplaysOK /\ NoDanglingStart /\ StartersAreLocal
  BY IInvParts DEF Turns
<1> USE DEF masterVars, childVars
<1>a. \A d \in Displays : /\ disp[d] \in DisplayRecords
                          /\ DisplayOK(disp[d], session[d], server[d])
                          /\ SeatInvOf(d)
  BY <1>0 DEF TypeOK, DisplaysOK, SeatInv, SeatInvOf
<1>b. ASSUME NEW list \in [Displays -> DisplayRecords], disp' = list \/ disp' = WakeDisplays(list),
             \A e \in Displays :
               /\ list[e].serverStatus \in {disp[e].serverStatus, "ignore"}
               /\ list[e].zstatus \in {disp[e].zstatus, "none", "remove", "textMode"},
             UNCHANGED <<session, server>>, startingServer' \in {startingServer, None}
      PROVE  Goal
  <2>1. \A e \in Displays : /\ disp'[e].zstatus = list[e].zstatus
                            /\ disp'[e].serverStatus = list[e].serverStatus
    BY <1>b, WakeKeeps
  <2> QED
    BY <1>0, <1>b, <2>1, GentleStep DEF Gentle
<1>c. ASSUME UNCHANGED <<disp, session, server>>, startingServer' \in {startingServer, None}
      PROVE  Goal
  BY <1>0, <1>c, GentleStep DEF Gentle
<1>d. ASSUME NEW S, disp' = StopAll(S, "remove"), AbortStartServer(S),
             UNCHANGED <<session, server>>
      PROVE  Goal
  BY <1>0, <1>d, StopAllGentle, GentleStep DEF Gentle, AbortStartServer
<1>e. ASSUME NEW C, NEW list \in [Displays -> DisplayRecords],
             \A e \in Displays : /\ list[e].zstatus = disp[e].zstatus
                                 /\ list[e].serverStatus = disp[e].serverStatus,
             rescanConfigs(list, C), UNCHANGED <<session, server, startingServer>>
      PROVE  Goal
  BY <1>0, <1>e, RescanGentle, GentleStep
<1>f. ASSUME NEW C, cancelShutdown(C), UNCHANGED <<session, server, startingServer>>
      PROVE  Goal
  BY <1>0, <1>e, <1>f DEF cancelShutdown, TypeOK
<1>g. ASSUME NEW d \in Displays, disp'[d].zstatus = disp[d].zstatus,
             disp'[d].serverStatus = disp[d].serverStatus,
             \A e \in Displays \ {d} : disp'[e] = disp[e],
             UNCHANGED <<session, server, startingServer>>
      PROVE  Goal
  BY <1>0, <1>g, GentleStep DEF Gentle
<1>1. CASE LoopTop
  BY <1>1, <1>c, <1>d DEF LoopTop
<1>2. CASE NoShutdownDue \/ NothingElse
  BY <1>2, <1>c DEF NoShutdownDue, NothingElse
<1>3. CASE ShutdownWaits
  BY <1>3, <1>d DEF ShutdownWaits, stoppen
<1>4. CASE ShutdownExpires
  BY <1>4, <1>d, <1>f DEF ShutdownExpires, stoppen
<1>5. ASSUME NEW d \in Displays, NEW waits \in BOOLEAN, KickDisplay(d, waits) PROVE Goal
  <2> DEFINE r == [disp[d] EXCEPT !.status = "running"]
             w == [r EXCEPT !.serverStatus = "awaiting"]
  <2>1. CASE disp[d].status = "notRunning" /\ ~waits
    <3>1. disp[d].zstatus = "none" /\ (disp[d].serverStatus = "ignore" \/ NeedsServer(d))
      BY <1>a, <2>1 DEF DisplayOK, NeedsServer, SeatInvOf
    <3>2. /\ r \in DisplayRecords /\ r.status = "running" /\ r.zstatus = "none"
          /\ r.serverStatus = "ignore" \/ NeedsServer(d)
      BY <1>a, <3>1 DEF DisplayRecords, Statuses
    <3>3. CASE ~NeedsServer(d)
      <4>1. StartDisplayP2(d, r) /\ UNCHANGED startingServer
        BY <1>5, <2>1, <3>3 DEF KickDisplay, startDisplay
      <4>2. server[d] # "none" \/ d \notin Local
        BY <3>3 DEF NeedsServer
      <4> HIDE DEF r
      <4> QED
        BY <1>0, <2>1, <3>2, <3>3, <4>1, <4>2, StartDisplayP2Seat
    <3>4. CASE NeedsServer(d)
      <4> DEFINE z == [w EXCEPT !.startTries = 0]
      <4>1. \/ StartServerOnce(d, z) /\ UNCHANGED session
            \/ /\ disp' = [disp EXCEPT ![d] = w]
               /\ UNCHANGED <<startingServer, server, session>>
        BY <1>5, <2>1, <3>4 DEF KickDisplay, startDisplay
      <4>2. d \in Local
        BY <3>4 DEF NeedsServer
      <4> HIDE DEF r
      <4>3. /\ w \in DisplayRecords /\ w.status = "running"
            /\ w.serverStatus = "awaiting" /\ w.zstatus = "none"
        BY <3>2 DEF DisplayRecords, ServerStatuses
      <4> HIDE DEF w
      <4>4. z \in DisplayRecords /\ z.status = "running"
        BY <4>3 DEF DisplayRecords
      <4> HIDE DEF z
      <4>5. CASE StartServerOnce(d, z) /\ UNCHANGED session
        BY <1>0, <2>1, <4>2, <4>4, <4>5, StartServerOnceSeat
      <4>6. CASE /\ disp' = [disp EXCEPT ![d] = w]
                 /\ UNCHANGED <<startingServer, server, session>>
        <5>1. disp'[d] = w /\ \A e \in Displays \ {d} : Kept(e)
          BY <1>0, <4>6 DEF TypeOK, Kept
        <5>2. SeatInvOf(d)' /\ SeatForksOf(d)
          BY <4>2, <4>3, <4>6, <5>1 DEF SeatInvOf, SeatForksOf
        <5> QED
          BY <1>0, <4>6, <5>1, <5>2, OneSeat
      <4> QED
        BY <4>1, <4>5, <4>6
    <3> QED
      BY <3>3, <3>4
  <2>2. CASE ~(disp[d].status = "notRunning" /\ ~waits)
    <3> DEFINE z == [disp[d] EXCEPT !.startTries = 0]
    <3>1. CASE disp[d].serverStatus = "awaiting" /\ startingServer = None
      <4>1. StartServerOnce(d, z) /\ UNCHANGED session
        BY <1>5, <2>2, <3>1 DEF KickDisplay
      <4>2. disp[d].status = "running" /\ d \in Local
        BY <1>a, <3>1 DEF DisplayOK, SeatInvOf
      <4>3. z \in DisplayRecords /\ z.status = "running"
        BY <1>a, <4>2 DEF DisplayRecords
      <4> HIDE DEF z
      <4> QED
        BY <1>0, <4>1, <4>2, <4>3, StartServerOnceSeat
    <3>2. CASE ~(disp[d].serverStatus = "awaiting" /\ startingServer = None)
      BY <1>0, <1>5, <1>c, <2>2, <3>2 DEF KickDisplay, TypeOK
    <3> QED
      BY <3>1, <3>2
  <2> QED
    BY <2>1, <2>2
<1>6. CASE ServerTimeout
  <2>1. UNCHANGED session
    BY <1>6 DEF ServerTimeout
  <2>2. CASE UNCHANGED <<disp, startingServer, server>>
    BY <1>c, <2>1, <2>2
  <2>3. CASE ~UNCHANGED <<disp, startingServer, server>>
    <3>0. PICK d \in Displays : d = startingServer
      BY <1>0, <1>6, <2>3 DEF ServerTimeout, TypeOK
    <3> DEFINE r == disp[d]
    <3>1. r.serverStatus \notin {"ignore", "awaiting"}
      BY <1>0, <1>6, <2>3, <3>0 DEF ServerTimeout, TypeOK, DisplayRecords, ServerStatuses
    <3>2. r.status = "running" /\ d \in Local /\ r \in DisplayRecords
      BY <1>0, <1>a, <3>0, <3>1 DEF StartersAreLocal
    <3>3. \/ \E st \in {"terminated", "killed"} :
               /\ disp' = [disp EXCEPT ![d].serverStatus = st]
               /\ UNCHANGED <<startingServer, server>>
          \/ StartServerFailed(d, r, server)
          \/ StartServerOnce(d, r)
      BY <1>6, <2>3, <3>0 DEF ServerTimeout
    <3> HIDE DEF r
    <3>4. CASE StartServerFailed(d, r, server)
      BY <1>0, <2>1, <3>2, <3>4, StartServerFailedSeat
    <3>5. CASE StartServerOnce(d, r)
      BY <1>0, <2>1, <3>2, <3>5, StartServerOnceSeat DEF r
    <3>6. ASSUME NEW st \in {"terminated", "killed"},
                 disp' = [disp EXCEPT ![d].serverStatus = st],
                 UNCHANGED <<startingServer, server>>
          PROVE  Goal
      <4>1. /\ disp'[d].serverStatus = st
            /\ \A e \in Displays \ {d} : Kept(e)
        BY <1>0, <2>1, <3>1, <3>2, <3>6 DEF TypeOK, Kept, DisplayRecords, r
      <4>2. SeatInvOf(d)' /\ SeatForksOf(d)
        BY <2>1, <3>2, <3>6, <4>1 DEF SeatInvOf, SeatForksOf
      <4> QED
        BY <1>0, <3>6, <4>1, <4>2, OneSeat
    <3> QED
      BY <3>3, <3>4, <3>5, <3>6
  <2> QED
    BY <2>2, <2>3
<1>7. CASE UtmpTimeout
  BY <1>0, <1>7, <1>b DEF UtmpTimeout, TypeOK
<1>8. CASE HandleSigterm
  BY <1>8, <1>d DEF HandleSigterm, stoppen
<1>9. ASSUME NEW C \in Kdmrc, HandleSighup(C) PROVE Goal
  <2> DEFINE marked == [d \in Displays |-> [disp[d] EXCEPT !.stillThere = FALSE]]
  <2>1. /\ marked \in [Displays -> DisplayRecords]
        /\ \A e \in Displays : /\ marked[e].zstatus = disp[e].zstatus
                               /\ marked[e].serverStatus = disp[e].serverStatus
    BY <1>a DEF DisplayRecords
  <2>2. rescanConfigs(marked, C) /\ UNCHANGED <<startingServer, session, server>>
    BY <1>9 DEF HandleSighup
  <2> HIDE DEF marked
  <2> QED
    BY <1>e, <2>1, <2>2
<1>10. ASSUME NEW C \in Kdmrc, EndReap(C) PROVE Goal
  BY <1>0, <1>10, <1>c, <1>e DEF EndReap, TypeOK
<1>11. ASSUME NEW d \in Displays, HandleSigusr1(d) PROVE Goal
  <2>1. CASE UNCHANGED <<disp, session, server>>
    BY <1>11, <1>c, <2>1 DEF HandleSigusr1
  <2>2. CASE /\ startingServer # None
             /\ disp[startingServer].serverStatus = "starting"
             /\ startServerSuccess(startingServer)
    <3> DEFINE e == startingServer
               r == [disp[e] EXCEPT !.serverStatus = "ignore"]
    <3>1. e \in Displays
      BY <1>0, <2>2 DEF TypeOK
    <3>2. /\ disp[e].status = "running" /\ disp[e].zstatus = "none"
          /\ server[e] # "none"
      BY <1>0, <1>a, <2>2, <3>1 DEF DisplayOK, StartersAreLocal, SeatInvOf
    <3>3. /\ r \in DisplayRecords
          /\ r.status = "running" /\ r.zstatus = "none" /\ r.serverStatus = "ignore"
      BY <1>a, <3>1, <3>2 DEF DisplayRecords, ServerStatuses
    <3>4. StartDisplayP2(e, r) /\ UNCHANGED startingServer
      BY <1>11, <2>2 DEF startServerSuccess, HandleSigusr1
    <3> HIDE DEF e, r
    <3> QED
      BY <1>0, <3>1, <3>2, <3>3, <3>4, StartDisplayP2Seat
  <2> QED
    BY <1>11, <2>1, <2>2 DEF HandleSigusr1
<1>12. ASSUME NEW d \in Displays, ReapSession(d) PROVE Goal
  <2> DEFINE se == [session EXCEPT ![d] = "none"]
             r  == [disp[d] EXCEPT !.userSess = FALSE]
             tries == [r EXCEPT !.startTries = r.startTries + 1]
             zero == [r EXCEPT !.startTries = 0]
             Same(s) == /\ s \in DisplayRecords
                        /\ s.zstatus = disp[d].zstatus
                        /\ s.serverStatus = disp[d].serverStatus
  <2>1. session[d] \in ExitCodes
    BY <1>12 DEF ReapSession, DeadSession
  <2>2. disp[d].serverStatus = "ignore" /\ disp[d].status # "absent"
    BY <1>a, <2>1 DEF DisplayOK, ExitCodes
  <2>3. Same(r) /\ r.status = disp[d].status
    BY <1>a DEF DisplayRecords
  <2>4. Same(zero) /\ Same(tries)
    <3> HIDE DEF r
    <3>1. r.startTries + 1 \in Nat
      BY <2>3 DEF DisplayRecords
    <3>2. \A n \in Nat : Same([r EXCEPT !.startTries = n])
      BY <2>3 DEF DisplayRecords
    <3> QED
      BY <3>1, <3>2
  <2>5. EndState(d, session[d]) \in {"remove", "reserve", "remoteLogin", "restart"}
        /\ (EndState(d, session[d]) = "remoteLogin" => session[d] = "remote")
    BY <2>1 DEF EndState, ExitCodes
  <2>6. r.status = "zombie" => r.zstatus \in Fates
    BY <1>a, <2>3 DEF DisplayRecords
  <2>7. r.zstatus = "remoteLogin" \/ session[d] = "remote" => d \in Local
    BY <1>a, <2>3 DEF SeatInvOf
  <2>8. \/ \E fate \in Fates :
             /\ fate = "remoteLogin" => d \in Local
             /\ \/ StopDisplayTo(d, r, fate, se, server)
                \/ StopDisplayTo(d, tries, fate, se, server)
        \/ \E keep \in BOOLEAN : \/ RestartDisplay(d, r, keep, se)
                                 \/ RestartDisplay(d, zero, keep, se)
                                 \/ RestartDisplay(d, tries, keep, se)
    BY <1>12, <2>3, <2>5, <2>6, <2>7 DEF ReapSession, Fates
  <2>9. /\ server \in [Displays -> ServerStates] /\ se[d] = "none"
        /\ \A e \in Displays \ {d} : se[e] = session[e]
    BY <1>0 DEF TypeOK
  <2> HIDE DEF r, tries, zero, se
  <2>10. ASSUME NEW fate \in Fates, NEW s, Same(s),
                fate = "remoteLogin" => d \in Local,
                StopDisplayTo(d, s, fate, se, server)
         PROVE  Goal
    BY <1>0, <2>2, <2>9, <2>10, StopDisplayToSeat
  <2>11. ASSUME NEW keep, NEW s, Same(s), RestartDisplay(d, s, keep, se)
         PROVE  Goal
    <3>1. \A st : LET n == [s EXCEPT !.status = st] IN
                  n.zstatus = s.zstatus /\ n.serverStatus = s.serverStatus
      BY <2>11 DEF DisplayRecords
    <3>2. /\ disp'[d].zstatus = disp[d].zstatus /\ disp'[d].serverStatus = "ignore"
          /\ session'[d] = "none" /\ UNCHANGED <<server, startingServer>>
          /\ \A e \in Displays \ {d} : Kept(e)
      BY <1>0, <2>2, <2>9, <2>11, <3>1 DEF RestartDisplay, Kept, TypeOK
    <3>3. SeatInvOf(d)' /\ SeatForksOf(d)
      BY <1>a, <3>2 DEF SeatInvOf, SeatForksOf
    <3> QED
      BY <1>0, <3>2, <3>3, OneSeat
  <2> QED
    BY <2>3, <2>4, <2>8, <2>10, <2>11
<1>13. ASSUME NEW d \in Displays, ReapServer(d) PROVE Goal
  <2> DEFINE sv == [server EXCEPT ![d] = "none"]
  <2>1. /\ sv \in [Displays -> ServerStates] /\ sv[d] = "none"
        /\ \A e \in Displays \ {d} : sv[e] = server[e]
    BY <1>0 DEF TypeOK, ServerStates
  <2>2. server[d] = "dead"
    BY <1>13 DEF ReapServer, DeadServer
  <2>3. d \in Local /\ disp[d].status # "absent"
    BY <1>a, <2>2 DEF SeatInvOf, DisplayOK
  <2>4. CASE disp[d].status = "zombie"
    <3>1. StopDisplayTo(d, disp[d], disp[d].zstatus, session, sv)
      BY <1>13, <2>4 DEF ReapServer
    <3>2. disp[d].zstatus \in Fates
      BY <1>a, <2>4 DEF DisplayRecords
    <3> HIDE DEF sv
    <3> QED
      BY <1>0, <1>a, <2>1, <2>3, <3>1, <3>2, StopDisplayToSeat
  <2>5. CASE /\ disp[d].status = "running" /\ startingServer = d
             /\ disp[d].serverStatus # "ignore"
    <3>1. StartServerFailed(d, disp[d], sv) /\ UNCHANGED session
      BY <1>13, <2>5 DEF ReapServer
    <3> HIDE DEF sv
    <3> QED
      BY <1>0, <1>a, <2>1, <2>3, <3>1, StartServerFailedSeat
  <2>6. CASE ~(\/ disp[d].status = "zombie"
               \/ /\ disp[d].status = "running" /\ startingServer = d
                  /\ disp[d].serverStatus # "ignore")
    <3>1. server' = sv /\ UNCHANGED <<startingServer, session>>
      BY <1>13, <2>6 DEF ReapServer
    <3>2. disp' = disp \/ \E st : disp' = [disp EXCEPT ![d].status = st]
      BY <1>13, <2>6 DEF ReapServer
    <3>3. /\ disp'[d].serverStatus = disp[d].serverStatus
          /\ disp'[d].zstatus = disp[d].zstatus
          /\ \A e \in Displays \ {d} : disp'[e] = disp[e]
      BY <1>0, <1>a, <3>2 DEF TypeOK, DisplayRecords
    <3>4. \A e \in Displays \ {d} : Kept(e)
      BY <2>1, <3>1, <3>3 DEF Kept
    <3>5. ~(startingServer = d /\ disp[d].serverStatus = "starting")
      BY <1>0, <2>6 DEF StartersAreLocal
    <3>6. SeatInvOf(d)' /\ SeatForksOf(d)
      BY <2>1, <2>3, <3>1, <3>3, <3>5 DEF SeatInvOf, SeatForksOf
    <3> QED
      BY <1>0, <3>1, <3>4, <3>6, OneSeat
  <2> QED
    BY <2>4, <2>5, <2>6
<1>14. ASSUME NEW d \in Displays, RecvXConnOk(d) PROVE Goal
  BY <1>14, <1>c DEF RecvXConnOk
<1>15. ASSUME NEW d \in Displays, RecvUser(d) \/ \E s : RecvUnUser(d, s) PROVE Goal
  <2>1. \E b : disp' = [disp EXCEPT ![d].userSess = b]
    BY <1>15 DEF RecvUser, RecvUnUser
  <2> QED
    BY <1>0, <1>a, <1>15, <1>g, <2>1 DEF RecvUser, RecvUnUser, TypeOK, DisplayRecords
<1>16. ASSUME NEW d \in Displays, NEW st, disp' = [disp EXCEPT ![d].status = st],
              UNCHANGED <<session, server, startingServer>>
       PROVE  Goal
  BY <1>0, <1>a, <1>16, <1>g DEF TypeOK, DisplayRecords
<1>17. ASSUME NEW d \in Displays, CmdManage(d) PROVE Goal
  <2>1. disp[d].zstatus = "none" /\ disp[d].serverStatus = "ignore"
    BY <1>a, <1>17 DEF CmdManage, DisplayOK
  <2> QED
    BY <1>0, <1>17, <1>g, <2>1, NewDisplayOK DEF CmdManage, OnlyDisp, TypeOK
<1>18. ASSUME NEW d \in Displays, XdmcpManage(d) PROVE Goal
  <2>1. PICK S : /\ AbortStartServer(S)
                 /\ \/ disp' = StopAll(S, "remove")
                    \/ disp' = [StopAll(S, "remove") EXCEPT ![d] = NewDisplay(d)]
    BY <1>18 DEF XdmcpManage
  <2>2. UNCHANGED <<session, server>>
    BY <1>18 DEF XdmcpManage
  <2>3. \A e \in Displays : disp'[e] \in {StopAll(S, "remove")[e], NewDisplay(e)}
    BY <2>1 DEF StopAll
  <2>4. \A e \in Displays : Gentle(e)
    BY <1>0, <2>3, StopAllGentle, NewDisplayOK DEF Gentle
  <2> QED
    BY <1>0, <2>1, <2>2, <2>4, GentleStep DEF AbortStartServer
<1>19. ASSUME NEW d \in Displays,
              ServerReady(d) \/ ServerExit(d) \/ SessionConnect(d) \/ SessionExit(d)
       PROVE  Goal
  <2>1. UNCHANGED <<disp, startingServer>>
    BY <1>19 DEF ServerReady, ServerExit, SessionConnect, SessionExit
  <2>2. PossibleExits(d) \subseteq ExitCodes
        /\ ("remote" \in PossibleExits(d) => d \in Local)
    BY DEF PossibleExits, ExitCodes
  <2>3. \A e \in Displays : /\ (session'[e] = "none") <=> (session[e] = "none")
                            /\ (server'[e] = "none") <=> (server[e] = "none")
                            /\ session'[e] = "remote" => session[e] = "remote" \/ e \in Local
    BY <1>0, <1>19, <2>2
    DEF ServerReady, ServerExit, SessionConnect, SessionExit, TypeOK, ExitCodes
  <2> QED
    BY <2>1, <2>3 DEF SeatInv, SeatForks
<1>20. CASE MainLoop
  BY <1>1, <1>2, <1>3, <1>4, <1>5, <1>20 DEF MainLoop
<1>21. CASE Timeouts
  BY <1>6, <1>7, <1>21 DEF Timeouts
<1>22. CASE Signals
  BY <1>8, <1>9, <1>10, <1>11, <1>12, <1>13, <1>22 DEF Signals
<1>23. CASE Messages
  <2>1. ASSUME NEW d \in Displays, RecvGarbage(d) PROVE Goal
    BY <1>d, <2>1 DEF RecvGarbage
  <2>2. ASSUME NEW d \in Displays, RecvConsole(d) PROVE Goal
    <3>1. PICK S : /\ AbortStartServer(S)
                   /\ \/ disp' = StopAll(S, "textMode")
                      \/ disp' = WakeDisplays(StopAll(S, "textMode"))
      BY <2>2 DEF RecvConsole, CheckTTYMode, SwitchToTTY
    <3> DEFINE list == StopAll(S, "textMode")
    <3>2. \A e \in Displays :
            /\ list[e] \in DisplayRecords
            /\ list[e].serverStatus \in {disp[e].serverStatus, "ignore"}
            /\ list[e].zstatus \in {disp[e].zstatus, "none", "remove", "textMode"}
      BY <1>0, StopAllGentle
    <3>3. list \in [Displays -> DisplayRecords]
      BY <3>2 DEF StopAll
    <3> HIDE DEF list
    <3>4. (disp' = list \/ disp' = WakeDisplays(list)) /\ startingServer' \in {startingServer, None}
      BY <3>1 DEF list, AbortStartServer
    <3>5. UNCHANGED <<session, server>>
      BY <2>2 DEF RecvConsole
    <3> QED
      BY <1>b, <3>2, <3>3, <3>4, <3>5
  <2> QED
    BY <1>14, <1>15, <1>23, <2>1, <2>2 DEF Messages
<1>24. CASE Commands
  <2>1. ASSUME NEW d \in Displays, NEW now, CmdLogin(d, now) PROVE Goal
    BY <1>16, <2>1 DEF CmdLogin, OnlyDisp
  <2>2. ASSUME NEW d \in Displays, CmdSuicide(d) \/ CmdReserve(d) PROVE Goal
    BY <1>16, <2>2 DEF CmdSuicide, CmdReserve, OnlyDisp
  <2>3. ASSUME NEW d \in Displays, CmdUnmanage(d) PROVE Goal
    BY <1>d, <2>3 DEF CmdUnmanage
  <2>4. CASE CmdResume
    BY <1>0, <1>b, <2>4 DEF CmdResume, TypeOK
  <2>5. ASSUME NEW f, RequestShutdown(f) PROVE Goal
    BY <1>c, <2>5 DEF RequestShutdown
  <2>6. ASSUME NEW C, CancelShutdown(C) PROVE Goal
    BY <1>f, <2>6 DEF CancelShutdown
  <2> QED
    BY <1>17, <1>24, <2>1, <2>2, <2>3, <2>4, <2>5, <2>6 DEF Commands
<1>25. CASE Packets
  BY <1>18, <1>25 DEF Packets
<1>26. CASE Children
  BY <1>19, <1>26 DEF Children
<1>27. CASE Terminated \/ UNCHANGED vars
  BY <1>c, <1>27 DEF Terminated, vars
<1> QED
  BY <1>20, <1>21, <1>22, <1>23, <1>24, <1>25, <1>26, <1>27 DEF Next

\* main() starts with no process.
LEMMA SeatInit == Init => SeatInv /\ Promised!SeatsInit
<1> SUFFICES ASSUME Init PROVE SeatInv /\ Promised!SeatsInit
  OBVIOUS
<1>1. PICK C \in Kdmrc : disp = ScanServers([d \in Displays |-> Absent], C)
  BY DEF Init
<1>2. \A d \in Displays : disp[d] \in {Absent, NewDisplay(d)}
  BY <1>1 DEF ScanServers, Absent
<1>3. \A d \in Displays : /\ disp[d].status \in {"absent", "reserve", "notRunning"}
                          /\ disp[d].zstatus = "none" /\ disp[d].serverStatus = "ignore"
                          /\ session[d] = "none" /\ server[d] = "none"
  <2> TAKE d \in Displays
  <2>1. session[d] = "none" /\ server[d] = "none"
    BY DEF Init
  <2>2. CASE disp[d] = Absent
    BY <2>1, <2>2 DEF Absent
  <2>3. CASE disp[d] = NewDisplay(d)
    BY <2>1, <2>3, NewDisplayOK
  <2> QED
    BY <1>2, <2>2, <2>3
<1>4. SeatInv
  BY <1>3 DEF SeatInv
<1>5. \A d \in Displays : Seat[d] \in {"none", "dark"}
  BY <1>3 DEF Seat, Leaving
<1> QED
  BY <1>4, <1>5 DEF Promised!SeatsInit, Seat

\* The seat of a display, by cases.
LEMMA SeatCases ==
  ASSUME NEW d \in Displays
  PROVE  /\ Seat[d] = "none" <=> disp[d].status = "absent"
         /\ Seat[d] = "closing" <=> Leaving(d)
         /\ Seat[d] = "taken" <=>
              disp[d].status # "absent" /\ ~Leaving(d) /\ session[d] # "none"
         /\ Seat[d] = "lit" <=>
              /\ disp[d].status # "absent" /\ ~Leaving(d)
              /\ session[d] = "none" /\ server[d] # "none"
         /\ Seat[d] = "dark" <=>
              /\ disp[d].status # "absent" /\ ~Leaving(d)
              /\ session[d] = "none" /\ server[d] = "none"
         /\ Seat[d] \in Promised!States
BY DEF Seat, Leaving, Promised!States

\* The same after a step.
LEMMA SeatCasesNext ==
  ASSUME NEW d \in Displays
  PROVE  /\ Seat'[d] = "none" <=> disp'[d].status = "absent"
         /\ Seat'[d] = "closing" <=> disp'[d].status # "absent" /\ Leaving(d)'
         /\ Seat'[d] = "taken" => session'[d] # "none"
         /\ Seat'[d] = "lit" => session'[d] = "none" /\ server'[d] # "none"
         /\ Seat'[d] \in Promised!States
BY DEF Seat, Leaving, Promised!States

\* Every step moves each seat as promised.
LEMMA SeatMoves ==
  ASSUME ConsoleTTYs = FALSE
  PROVE  IInv /\ SeatInv /\ [Next]_vars => Promised!SeatsNext
<1> SUFFICES ASSUME IInv, SeatInv, [Next]_vars PROVE Promised!SeatsNext
  OBVIOUS
<1>1. IInv' /\ SeatForks /\ RemovalGoesOn
  BY IInvStep, SeatStep, RemovalStep DEF ConsoleOfTwo
<1>2. DisplaysOK
  BY IInvParts
<1>3. DisplaysOK'
  BY ProcessStep
<1>4. Seat' \in [Displays -> Promised!States]
  BY SeatCasesNext DEF Seat
<1> SUFFICES ASSUME NEW d \in Displays PROVE Seat'[d] = Seat[d] \/ Promised!Move(d)
  BY <1>4 DEF Promised!SeatsNext
<1>5. DisplayOK(disp[d], session[d], server[d])
  BY <1>2 DEF DisplaysOK
<1>6. DisplayOK(disp[d], session[d], server[d])'
  BY <1>3 DEF DisplaysOK
<1>7. /\ session[d] = "none" /\ session'[d] # "none" =>
           /\ disp[d].status \in {"running", "notRunning"}
           /\ server[d] # "none" \/ d \notin Local
           /\ disp'[d].status = "running"
      /\ server[d] = "none" /\ server'[d] # "none" =>
           d \in Local /\ disp[d].status # "absent" /\ disp'[d].status # "zombie"
  BY <1>1 DEF SeatForks
<1>8. Leaving(d)' => session'[d] # "none" \/ server'[d] # "none"
  BY <1>6 DEF DisplayOK, Leaving
<1>a. CASE Seat[d] = "none"
  <2>1. disp[d].status = "absent" /\ session[d] = "none" /\ server[d] = "none"
    BY <1>5, <1>a, SeatCases DEF DisplayOK
  <2>2. session'[d] = "none" /\ server'[d] = "none"
    BY <1>7, <2>1
  <2>3. Seat'[d] \in {"none", "dark"}
    BY <1>8, <2>2, SeatCasesNext DEF Promised!States
  <2> QED
    BY <1>a, <2>3 DEF Promised!Move, Promised!Appear, Promised!Goes
<1>b. CASE Seat[d] = "dark"
  <2>1. session[d] = "none" /\ server[d] = "none"
    BY <1>b, SeatCases
  <2>2. ~Leaving(d)'
    BY <1>7, <1>8, <2>1 DEF Leaving
  <2>3. /\ Seat'[d] # "closing"
        /\ Seat'[d] = "taken" => d \notin Local
        /\ Seat'[d] = "lit" => d \in Local
    BY <1>7, <2>1, <2>2, SeatCasesNext
  <2>4. Seat'[d] \in {"none", "dark", "lit", "taken"}
    BY <2>3, SeatCasesNext DEF Promised!States
  <2> QED
    BY <1>b, <2>3, <2>4
    DEF Promised!Move, Promised!Light, Promised!Take, Promised!Vanish, Promised!Ready,
        Promised!Goes, Promised!States
<1>c. CASE Seat[d] = "lit"
  <2>1. d \in Local
    BY <1>c, SeatCases DEF SeatInv
  <2>2. Seat'[d] \in {"none", "dark", "lit", "taken", "closing"}
    BY SeatCasesNext DEF Promised!States
  <2> QED
    BY <1>c, <2>1, <2>2
    DEF Promised!Move, Promised!Take, Promised!GoDark, Promised!Close, Promised!Vanish,
        Promised!Ready, Promised!Goes, Promised!States
<1>d. CASE Seat[d] = "taken"
  <2>1. Seat'[d] \in {"none", "dark", "lit", "taken", "closing"}
    BY SeatCasesNext DEF Promised!States
  <2> QED
    BY <1>d, <2>1
    DEF Promised!Move, Promised!Leave, Promised!Close, Promised!Vanish, Promised!Goes,
        Promised!States
<1>e. CASE Seat[d] = "closing"
  <2>1. Seat'[d] \in {"none", "closing"}
    BY <1>1, <1>e, SeatCases, SeatCasesNext DEF RemovalGoesOn, CalledBack
  <2> QED
    BY <1>e, <2>1 DEF Promised!Move, Promised!Vanish, Promised!Goes, Promised!States
<1> QED
  BY <1>a, <1>b, <1>c, <1>d, <1>e, SeatCases DEF Promised!States

\* Without a console mode, the daemon keeps what Seats promises of every display, for
\* any number of displays: startDisplayP2() is only reached for a listed display without
\* a session, and if it is local with an X server.
THEOREM SeatsImplemented ==
  ASSUME ConsoleTTYs = FALSE
  PROVE  Spec => SeatsKept
<1>1. Init => IInv /\ SeatInv /\ Promised!SeatsInit
  BY IInvInit, SeatInit
<1>2. IInv /\ SeatInv /\ [Next]_vars => IInv' /\ SeatInv' /\ [Promised!SeatsNext]_Seat
  BY IInvStep, SeatStep, SeatMoves DEF ConsoleOfTwo
<1> QED
  BY <1>1, <1>2, PTL DEF Spec, SeatsKept, Promised!SeatsSpec

-----------------------------------------------------------------------------
(* Attempts *)

\* TriesInv of one display with the record r.
TriesOf(d, r) ==
  /\ IF d \in Local THEN ServerAttempts = 0 \/ r.startTries <= ServerAttempts
     ELSE r.startTries <= StartAttempts
  /\ r.serverStatus = "pausing" => MoreAttempts(r)

\* What a step that tries nothing does to a display.
Calm(d) ==
  /\ disp'[d].startTries \in {disp[d].startTries, 0}
  /\ disp'[d].serverStatus \in {disp[d].serverStatus, "ignore", "terminated", "killed"}

\* TriesInv display by display.
LEMMA TriesParts ==
  TriesInv <=> \A d \in Displays : TriesOf(d, disp[d])
BY DEF TriesInv, TriesBounded, TriesOf

\* The same after a step.
LEMMA TriesPartsNext ==
  ASSUME \A d \in Displays : TriesOf(d, disp'[d])
  PROVE  TriesInv'
BY DEF TriesInv, TriesBounded, TriesOf, MoreAttempts

\* A display without a try is well within the bounds.
LEMMA NoTries ==
  ASSUME NEW d, NEW r, r.startTries = 0
  PROVE  TriesOf(d, r) /\ MoreAttempts(r)
BY ConfigAssumption DEF TriesOf, MoreAttempts

\* A step that tries nothing.
LEMMA CalmStep ==
  ASSUME TypeOK, TriesInv, NEW d \in Displays, Calm(d)
  PROVE  TriesOf(d, disp'[d])
<1>1. TriesOf(d, disp[d])
  BY TriesParts
<1>2. CASE disp'[d].startTries = 0
  BY <1>2, NoTries
<1>3. CASE disp'[d].startTries = disp[d].startTries
  BY <1>1, <1>3 DEF TriesOf, MoreAttempts, Calm
<1> QED
  BY <1>2, <1>3 DEF Calm

\* What rStopDisplay() leaves of the tries.
LEMMA StoppedTries ==
  ASSUME NEW d \in Displays, NEW r \in DisplayRecords, NEW alive, NEW fate
  PROVE  LET s == Stopped(d, r, alive, fate) IN
         /\ s.startTries \in {r.startTries, 0}
         /\ s.serverStatus \in {r.serverStatus, "ignore"}
         /\ ~alive /\ fate = "remove" => s.startTries = 0
BY DEF Stopped, Absent, DisplayRecords

\* stopDisplay() of a set of displays tries nothing.
LEMMA StopAllCalm ==
  ASSUME TypeOK, NEW S, NEW fate, NEW d \in Displays
  PROVE  LET r == StopAll(S, fate)[d] IN
         /\ r.startTries \in {disp[d].startTries, 0}
         /\ r.serverStatus \in {disp[d].serverStatus, "ignore"}
<1>1. disp[d] \in DisplayRecords
  BY DEF TypeOK
<1>2. StopAll(S, fate)[d] \in
        {disp[d], Stopped(d, disp[d], session[d] # "none" \/ server[d] # "none", fate)}
  BY DEF StopAll
<1> QED
  BY <1>1, <1>2, StoppedTries

\* A new display has not been tried.
LEMMA NewDisplayTries ==
  ASSUME NEW d
  PROVE  NewDisplay(d).startTries = 0
BY DEF NewDisplay, Absent

\* rescanConfigs() of a list that differs in its marks tries nothing.
LEMMA RescanCalm ==
  ASSUME TypeOK, NEW C, NEW list \in [Displays -> DisplayRecords],
         \A e \in Displays : /\ list[e].startTries = disp[e].startTries
                             /\ list[e].serverStatus = disp[e].serverStatus,
         rescanConfigs(list, C), NEW d \in Displays
  PROVE  Calm(d)
<1>1. CASE disp' = list
  BY <1>1 DEF Calm
<1>2. CASE disp' = ScanServers(list, C)
  <2>1. disp'[d] = ScanServers(list, C)[d] /\ list[d] \in DisplayRecords
    BY <1>2
  <2>2. CASE d \in C /\ list[d].status = "absent"
    <3>1. disp'[d] = NewDisplay(d)
      BY <1>2, <2>2 DEF ScanServers
    <3> QED
      BY <3>1, NewDisplayOK, NewDisplayTries DEF Calm
  <2>3. CASE ~(d \in C /\ list[d].status = "absent")
    <3>1. disp'[d].startTries = list[d].startTries
          /\ disp'[d].serverStatus = list[d].serverStatus
      BY <2>1, <2>3 DEF ScanServers, DisplayRecords
    <3> QED
      BY <3>1 DEF Calm
  <2> QED
    BY <2>2, <2>3
<1> QED
  BY <1>1, <1>2 DEF rescanConfigs

\* startServerFailed() pauses only with an attempt left.
LEMMA StartServerFailedTries ==
  ASSUME TypeOK, NEW d \in Displays, NEW r \in DisplayRecords, NEW sv,
         d \in Local, ServerAttempts = 0 \/ r.startTries <= ServerAttempts,
         StartServerFailed(d, r, sv)
  PROVE  TriesOf(d, disp'[d]) /\ \A e \in Displays \ {d} : disp'[e] = disp[e]
<1> DEFINE p == [r EXCEPT !.serverStatus = "pausing"]
           i == [r EXCEPT !.serverStatus = "ignore"]
           s == Stopped(d, i, session[d] # "none" \/ sv[d] # "none", "remove")
<1>1. p.startTries = r.startTries
  BY DEF DisplayRecords
<1>2. /\ i \in DisplayRecords /\ i.startTries = r.startTries /\ i.serverStatus = "ignore"
  BY DEF DisplayRecords, ServerStatuses
<1>3. s.startTries \in {r.startTries, 0} /\ s.serverStatus = "ignore"
  <2> HIDE DEF i
  <2> QED BY <1>2, StoppedTries
<1>4. disp' = [disp EXCEPT ![d] = IF MoreAttempts(r) THEN p ELSE s]
  BY DEF StartServerFailed
<1> HIDE DEF p, i, s
<1>5. disp'[d] = IF MoreAttempts(r) THEN p ELSE s
  BY <1>4 DEF TypeOK
<1>6. CASE MoreAttempts(r)
  BY <1>1, <1>4, <1>5, <1>6 DEF TriesOf, MoreAttempts, TypeOK
<1>7. CASE ~MoreAttempts(r)
  BY <1>3, <1>4, <1>5, <1>7, ConfigAssumption DEF TriesOf, TypeOK
<1> QED
  BY <1>6, <1>7

\* startServerOnce() of a display with an attempt left.
LEMMA StartServerOnceTries ==
  ASSUME TypeOK, NEW d \in Displays, NEW r \in DisplayRecords,
         d \in Local, MoreAttempts(r), StartServerOnce(d, r)
  PROVE  TriesOf(d, disp'[d]) /\ \A e \in Displays \ {d} : disp'[e] = disp[e]
<1> DEFINE s == [r EXCEPT !.startTries = r.startTries + 1, !.serverStatus = "starting"]
           sv == [server EXCEPT ![d] = "none"]
<1>1. r.startTries \in Nat /\ r.startTries + 1 \in Nat
  BY DEF DisplayRecords
<1>2. \A n \in Nat :
        LET t == [r EXCEPT !.startTries = n, !.serverStatus = "starting"] IN
        t \in DisplayRecords /\ t.startTries = n /\ t.serverStatus = "starting"
  BY DEF DisplayRecords, ServerStatuses
<1>3. s \in DisplayRecords /\ s.startTries = r.startTries + 1 /\ s.serverStatus = "starting"
  BY <1>1, <1>2
<1>4. disp' = [disp EXCEPT ![d] = s] \/ StartServerFailed(d, s, sv)
  BY DEF StartServerOnce
<1> HIDE DEF s, sv
<1>5. ServerAttempts = 0 \/ s.startTries <= ServerAttempts
  BY <1>1, <1>3, ConfigAssumption DEF MoreAttempts
<1>6. CASE disp' = [disp EXCEPT ![d] = s]
  BY <1>3, <1>5, <1>6 DEF TriesOf, TypeOK
<1>7. CASE StartServerFailed(d, s, sv)
  BY <1>3, <1>5, <1>7, StartServerFailedTries
<1> QED
  BY <1>4, <1>6, <1>7

\* One step per action.
LEMMA TriesStep == IInv /\ SeatInv /\ TriesInv /\ [Next]_vars => TriesInv'
<1> SUFFICES ASSUME IInv, SeatInv, TriesInv, [Next]_vars
             PROVE  \A d \in Displays : TriesOf(d, disp'[d])
  BY TriesPartsNext
<1> DEFINE Goal == \A d \in Displays : TriesOf(d, disp'[d])
<1>0. TypeOK /\ DisplaysOK /\ NoDanglingStart
  BY IInvParts
<1> USE DEF masterVars, childVars
<1>a. \A d \in Displays : /\ disp[d] \in DisplayRecords
                          /\ DisplayOK(disp[d], session[d], server[d])
                          /\ SeatInvOf(d) /\ TriesOf(d, disp[d])
  BY <1>0, TriesParts DEF TypeOK, DisplaysOK, SeatInv, SeatInvOf
<1>b. ASSUME NEW list \in [Displays -> DisplayRecords], disp' = list \/ disp' = WakeDisplays(list),
             \A d \in Displays : TriesOf(d, list[d])
      PROVE  Goal
  <2> SUFFICES ASSUME NEW d \in Displays PROVE TriesOf(d, disp'[d])
    OBVIOUS
  <2>1. disp'[d].startTries = list[d].startTries /\ disp'[d].serverStatus = list[d].serverStatus
    BY <1>b, WakeKeeps
  <2>2. TriesOf(d, list[d])
    BY <1>b
  <2> QED
    BY <2>1, <2>2 DEF TriesOf, MoreAttempts
<1>c. ASSUME \A d \in Displays : Calm(d) PROVE Goal
  BY <1>0, <1>c, CalmStep
<1>d. ASSUME UNCHANGED disp PROVE Goal
  BY <1>c, <1>d DEF Calm
<1>e. ASSUME NEW S, disp' = StopAll(S, "remove") PROVE Goal
  BY <1>0, <1>c, <1>e, StopAllCalm DEF Calm
<1>f. ASSUME NEW C, NEW list \in [Displays -> DisplayRecords],
             \A d \in Displays : /\ list[d].startTries = disp[d].startTries
                                 /\ list[d].serverStatus = disp[d].serverStatus,
             rescanConfigs(list, C)
      PROVE  Goal
  BY <1>0, <1>c, <1>f, RescanCalm
<1>g. ASSUME NEW C, cancelShutdown(C) PROVE Goal
  BY <1>0, <1>f, <1>g DEF cancelShutdown, TypeOK
<1>h. ASSUME NEW d \in Displays, TriesOf(d, disp'[d]),
             \A e \in Displays \ {d} : disp'[e] = disp[e]
      PROVE  Goal
  BY <1>a, <1>h
<1>i. ASSUME NEW d \in Displays, NEW r, disp' = [disp EXCEPT ![d] = r], TriesOf(d, r)
      PROVE  Goal
  BY <1>0, <1>h, <1>i DEF TypeOK
<1>j. ASSUME NEW d \in Displays, NEW st, disp' = [disp EXCEPT ![d].status = st]
      PROVE  Goal
  <2>1. LET r == [disp[d] EXCEPT !.status = st] IN
        /\ r.startTries = disp[d].startTries /\ r.serverStatus = disp[d].serverStatus
        /\ disp' = [disp EXCEPT ![d] = r]
    BY <1>a, <1>j DEF DisplayRecords
  <2> QED
    BY <1>a, <1>i, <2>1 DEF TriesOf, MoreAttempts
<1>1. CASE LoopTop
  BY <1>1, <1>d, <1>e DEF LoopTop
<1>2. CASE NoShutdownDue \/ NothingElse
  BY <1>2, <1>d DEF NoShutdownDue, NothingElse
<1>3. CASE ShutdownWaits
  BY <1>3, <1>e DEF ShutdownWaits, stoppen
<1>4. CASE ShutdownExpires
  BY <1>4, <1>e, <1>g DEF ShutdownExpires, stoppen
<1>5. ASSUME NEW d \in Displays, NEW waits \in BOOLEAN, KickDisplay(d, waits) PROVE Goal
  <2> DEFINE r == [disp[d] EXCEPT !.status = "running"]
             n == [r EXCEPT !.status = "notRunning"]
             w == [r EXCEPT !.serverStatus = "awaiting"]
             s == IF disp[d].status = "notRunning" /\ ~waits THEN w ELSE disp[d]
             z == [s EXCEPT !.startTries = 0]
             Same(x) == /\ x \in DisplayRecords
                        /\ x.startTries = disp[d].startTries
  <2>1. Same(r) /\ r.serverStatus = disp[d].serverStatus
    BY <1>a DEF DisplayRecords, Statuses
  <2>2. CASE disp[d].status = "notRunning" /\ ~waits /\ ~NeedsServer(d)
    <3>1. StartDisplayP2(d, r)
      BY <1>5, <2>2 DEF KickDisplay, startDisplay
    <3> HIDE DEF r
    <3>2. n.startTries = r.startTries /\ n.serverStatus = r.serverStatus
      BY <2>1 DEF DisplayRecords
    <3>3. disp' = [disp EXCEPT ![d] = r] \/ disp' = [disp EXCEPT ![d] = n]
      BY <3>1 DEF StartDisplayP2
    <3>4. TriesOf(d, r) /\ TriesOf(d, n)
      BY <1>a, <2>1, <3>2 DEF TriesOf, MoreAttempts
    <3> HIDE DEF n
    <3> QED
      BY <1>i, <3>3, <3>4
  <2>3. CASE ~(disp[d].status = "notRunning" /\ ~waits /\ ~NeedsServer(d))
    <3>1. \/ StartServerOnce(d, z) /\ s.serverStatus = "awaiting"
          \/ disp' = [disp EXCEPT ![d] = s]
      BY <1>5, <2>3 DEF KickDisplay, startDisplay
    <3>2. s = w => d \in Local \/ w = disp[d]
      BY <2>3 DEF NeedsServer
    <3> HIDE DEF r
    <3>3. Same(w) /\ w.serverStatus = "awaiting"
      BY <2>1 DEF DisplayRecords, ServerStatuses
    <3> HIDE DEF w
    <3>4. Same(s) /\ s.serverStatus \in {"awaiting", disp[d].serverStatus}
      BY <1>a, <3>3
    <3>5. TriesOf(d, s)
      BY <1>a, <3>4 DEF TriesOf, MoreAttempts
    <3>6. s.serverStatus = "awaiting" => d \in Local
      BY <1>a, <3>2 DEF SeatInvOf
    <3> HIDE DEF s
    <3>7. z \in DisplayRecords /\ z.startTries = 0
      BY <3>4 DEF DisplayRecords
    <3> HIDE DEF z
    <3>8. CASE StartServerOnce(d, z) /\ s.serverStatus = "awaiting"
      BY <1>0, <1>h, <3>6, <3>7, <3>8, NoTries, StartServerOnceTries
    <3>9. CASE disp' = [disp EXCEPT ![d] = s]
      BY <1>i, <3>5, <3>9
    <3> QED
      BY <3>1, <3>8, <3>9
  <2> QED
    BY <2>2, <2>3
<1>6. CASE ServerTimeout
  <2>1. CASE UNCHANGED disp
    BY <1>d, <2>1
  <2>2. CASE ~UNCHANGED disp
    <3>1. PICK d \in Displays : d = startingServer
      BY <1>0, <1>6, <2>2 DEF ServerTimeout, TypeOK
    <3>2. \/ \E st \in {"terminated", "killed"} : disp' = [disp EXCEPT ![d].serverStatus = st]
          \/ StartServerFailed(d, disp[d], server) /\ disp[d].serverStatus = "killed"
          \/ StartServerOnce(d, disp[d]) /\ disp[d].serverStatus = "pausing"
      BY <1>6, <2>2, <3>1 DEF ServerTimeout
    <3>3. ASSUME NEW st \in {"terminated", "killed"},
                 disp' = [disp EXCEPT ![d].serverStatus = st]
          PROVE  Goal
      <4>1. \A e \in Displays : Calm(e)
        BY <1>0, <1>a, <3>3 DEF Calm, TypeOK, DisplayRecords
      <4> QED
        BY <1>c, <4>1
    <3>4. disp[d].serverStatus # "ignore" => d \in Local
      BY <1>a DEF SeatInvOf
    <3>5. TriesOf(d, disp[d]) /\ disp[d] \in DisplayRecords
      BY <1>a
    <3>6. CASE StartServerFailed(d, disp[d], server) /\ disp[d].serverStatus = "killed"
      BY <1>0, <1>h, <3>4, <3>5, <3>6, StartServerFailedTries DEF TriesOf
    <3>7. CASE StartServerOnce(d, disp[d]) /\ disp[d].serverStatus = "pausing"
      BY <1>0, <1>h, <3>4, <3>5, <3>7, StartServerOnceTries DEF TriesOf
    <3> QED
      BY <3>2, <3>3, <3>6, <3>7
  <2> QED
    BY <2>1, <2>2
<1>7. CASE UtmpTimeout
  BY <1>0, <1>a, <1>b, <1>7 DEF UtmpTimeout, TypeOK
<1>8. CASE HandleSigterm
  BY <1>8, <1>e DEF HandleSigterm, stoppen
<1>9. ASSUME NEW C, HandleSighup(C) PROVE Goal
  <2> DEFINE marked == [d \in Displays |-> [disp[d] EXCEPT !.stillThere = FALSE]]
  <2>1. /\ marked \in [Displays -> DisplayRecords]
        /\ \A e \in Displays : /\ marked[e].startTries = disp[e].startTries
                               /\ marked[e].serverStatus = disp[e].serverStatus
    BY <1>a DEF DisplayRecords
  <2>2. rescanConfigs(marked, C)
    BY <1>9 DEF HandleSighup
  <2> HIDE DEF marked
  <2> QED
    BY <1>f, <2>1, <2>2
<1>10. ASSUME NEW C, EndReap(C) PROVE Goal
  BY <1>0, <1>10, <1>d, <1>f DEF EndReap, TypeOK
<1>11. ASSUME NEW d \in Displays, HandleSigusr1(d) PROVE Goal
  <2>1. CASE UNCHANGED disp
    BY <1>d, <2>1
  <2>2. CASE ~UNCHANGED disp
    <3>1. PICK e \in Displays : e = startingServer
      BY <1>0, <1>11, <2>2 DEF HandleSigusr1, TypeOK
    <3> DEFINE r == [disp[e] EXCEPT !.serverStatus = "ignore"]
               n == [r EXCEPT !.status = "notRunning"]
    <3>2. disp' = [disp EXCEPT ![e] = r] \/ disp' = [disp EXCEPT ![e] = n]
      BY <1>11, <2>2, <3>1 DEF HandleSigusr1, startServerSuccess, StartDisplayP2
    <3>3. /\ r.startTries = disp[e].startTries /\ r.serverStatus = "ignore"
          /\ n.startTries = disp[e].startTries /\ n.serverStatus = "ignore"
      BY <1>a DEF DisplayRecords
    <3> HIDE DEF r, n
    <3>4. TriesOf(e, r) /\ TriesOf(e, n)
      BY <1>a, <3>3 DEF TriesOf
    <3> QED
      BY <1>i, <3>2, <3>4
  <2> QED
    BY <2>1, <2>2
<1>12. ASSUME NEW d \in Displays, ReapSession(d) PROVE Goal
  <2> DEFINE se == [session EXCEPT ![d] = "none"]
             r  == [disp[d] EXCEPT !.userSess = FALSE]
             tries == [r EXCEPT !.startTries = r.startTries + 1]
             zero == [r EXCEPT !.startTries = 0]
  <2>1. disp[d].serverStatus = "ignore"
    BY <1>a, <1>12 DEF ReapSession, DeadSession, ExitCodes, DisplayOK
  <2>2. r \in DisplayRecords /\ r.startTries = disp[d].startTries /\ r.serverStatus = "ignore"
    BY <1>a, <2>1 DEF DisplayRecords
  <2>3. /\ tries \in DisplayRecords /\ zero \in DisplayRecords
        /\ tries.startTries = r.startTries + 1 /\ zero.startTries = 0
        /\ tries.serverStatus = "ignore" /\ zero.serverStatus = "ignore"
    <3> HIDE DEF r
    <3>1. r.startTries + 1 \in Nat
      BY <2>2 DEF DisplayRecords
    <3>2. \A n \in Nat : LET x == [r EXCEPT !.startTries = n] IN
            x \in DisplayRecords /\ x.startTries = n /\ x.serverStatus = "ignore"
      BY <2>2 DEF DisplayRecords
    <3> QED
      BY <3>1, <3>2
  <2>4. EndState(d, session[d]) \in {"remove", "reserve", "remoteLogin", "restart"}
    BY DEF EndState
  <2>5. r.status = "zombie" => r.zstatus \in Fates
    BY <2>2 DEF DisplayRecords
  <2>6. \/ \E fate \in Fates :
             StopDisplayTo(d, r, fate, se, server)
        \/ d \notin Local /\ StopDisplayTo(d, tries, "remove", se, server)
        \/ \E keep \in BOOLEAN : \/ RestartDisplay(d, r, keep, se)
                                 \/ RestartDisplay(d, zero, keep, se)
                                 \/ /\ d \notin Local /\ ~TooManyTries(tries)
                                    /\ RestartDisplay(d, tries, keep, se)
    BY <1>12, <2>4, <2>5 DEF ReapSession, Fates
  <2>7. se[d] = "none"
    BY <1>0 DEF TypeOK
  <2> HIDE DEF r, tries, zero, se
  <2>8. TriesOf(d, r) /\ TriesOf(d, zero)
        /\ (d \notin Local /\ ~TooManyTries(tries) => TriesOf(d, tries))
    <3>1. r.startTries \in Nat
      BY <2>2 DEF DisplayRecords
    <3> QED
      BY <1>a, <2>2, <2>3, <3>1, ConfigAssumption, NoTries DEF TriesOf, TooManyTries
  <2>9. ASSUME NEW fate \in Fates, NEW x \in DisplayRecords,
               x.serverStatus = "ignore",
               TriesOf(d, x) \/ (d \notin Local /\ fate = "remove"),
               StopDisplayTo(d, x, fate, se, server)
        PROVE  Goal
    <3> DEFINE alive == se[d] # "none" \/ server[d] # "none"
               s == Stopped(d, x, alive, fate)
               n == [s EXCEPT !.status = "notRunning"]
               list == [disp EXCEPT ![d] = s]
    <3>1. /\ s \in DisplayRecords /\ s.startTries \in {x.startTries, 0}
          /\ s.serverStatus = "ignore"
          /\ ~alive /\ fate = "remove" => s.startTries = 0
      BY <2>9, StoppedType, StoppedTries DEF Fates
    <3>2. d \notin Local => ~alive
      BY <1>a, <2>7 DEF SeatInvOf
    <3>3. \/ disp' = list \/ disp' = [list EXCEPT ![d].status = "notRunning"]
          \/ disp' = WakeDisplays(list)
      BY <2>9 DEF StopDisplayTo, CheckTTYMode, SwitchToTTY
    <3> HIDE DEF s, alive
    <3>4. n.startTries = s.startTries /\ n.serverStatus = "ignore"
      BY <3>1 DEF DisplayRecords
    <3>5. TriesOf(d, s) /\ TriesOf(d, n)
      BY <2>9, <3>1, <3>2, <3>4, NoTries DEF TriesOf
    <3>6. \/ disp' = [disp EXCEPT ![d] = s] \/ disp' = [disp EXCEPT ![d] = n]
          \/ disp' = WakeDisplays(list)
      BY <1>0, <3>3 DEF TypeOK
    <3>7. list \in [Displays -> DisplayRecords] /\ \A e \in Displays : TriesOf(e, list[e])
      BY <1>0, <1>a, <3>1, <3>5 DEF TypeOK
    <3> HIDE DEF n, list
    <3> QED
      BY <1>b, <1>i, <3>5, <3>6, <3>7
  <2>10. ASSUME NEW keep, NEW x \in DisplayRecords, x.serverStatus = "ignore",
                TriesOf(d, x), RestartDisplay(d, x, keep, se)
         PROVE  Goal
    <3> DEFINE st == IF KillsServer(d, keep) THEN "phoenix" ELSE "notRunning"
               n == [x EXCEPT !.status = st]
    <3>1. disp' = [disp EXCEPT ![d] = n]
          /\ n.startTries = x.startTries /\ n.serverStatus = "ignore"
      <4>1. n.startTries = x.startTries /\ n.serverStatus = "ignore"
        BY <2>10 DEF DisplayRecords
      <4>2. disp' = [disp EXCEPT ![d] = n]
        BY <2>10 DEF RestartDisplay
      <4> QED
        BY <4>1, <4>2
    <3> HIDE DEF n
    <3>2. TriesOf(d, n)
      BY <2>10, <3>1 DEF TriesOf
    <3> QED
      BY <1>i, <3>1, <3>2
  <2>11. CASE \E fate \in Fates :
                StopDisplayTo(d, r, fate, se, server)
    <3>1. r.serverStatus = "ignore" /\ r \in DisplayRecords /\ TriesOf(d, r)
      BY <2>2, <2>8
    <3> QED
      BY <2>9, <2>11, <3>1
  <2>12. CASE d \notin Local /\ StopDisplayTo(d, tries, "remove", se, server)
    BY <2>3, <2>9, <2>12 DEF Fates
  <2>13. CASE \E keep \in BOOLEAN :
                \/ RestartDisplay(d, r, keep, se)
                \/ RestartDisplay(d, zero, keep, se)
                \/ /\ d \notin Local /\ ~TooManyTries(tries)
                   /\ RestartDisplay(d, tries, keep, se)
    <3>1. PICK keep \in BOOLEAN :
                \/ RestartDisplay(d, r, keep, se)
                \/ RestartDisplay(d, zero, keep, se)
                \/ /\ d \notin Local /\ ~TooManyTries(tries)
                   /\ RestartDisplay(d, tries, keep, se)
      BY <2>13
    <3>2. CASE RestartDisplay(d, r, keep, se)
      BY <2>2, <2>8, <2>10, <3>2
    <3>3. CASE RestartDisplay(d, zero, keep, se)
      BY <2>3, <2>8, <2>10, <3>3
    <3>4. CASE d \notin Local /\ ~TooManyTries(tries) /\ RestartDisplay(d, tries, keep, se)
      BY <2>3, <2>8, <2>10, <3>4
    <3> QED
      BY <3>1, <3>2, <3>3, <3>4
  <2> QED
    BY <2>6, <2>11, <2>12, <2>13
<1>13. ASSUME NEW d \in Displays, ReapServer(d) PROVE Goal
  <2> DEFINE sv == [server EXCEPT ![d] = "none"]
  <2>1. d \in Local
    BY <1>a, <1>13 DEF ReapServer, DeadServer, SeatInvOf
  <2>2. CASE disp[d].status = "zombie"
    <3> DEFINE alive == session[d] # "none" \/ sv[d] # "none"
               s == Stopped(d, disp[d], alive, disp[d].zstatus)
               n == [s EXCEPT !.status = "notRunning"]
               list == [disp EXCEPT ![d] = s]
    <3>1. disp[d].zstatus \in Fates
      BY <1>a, <2>2 DEF DisplayRecords
    <3>2. \/ disp' = list \/ disp' = [list EXCEPT ![d].status = "notRunning"]
          \/ disp' = WakeDisplays(list)
      BY <1>13, <2>2, <3>1 DEF ReapServer, StopDisplayTo, CheckTTYMode, SwitchToTTY
    <3>3. /\ s \in DisplayRecords /\ s.startTries \in {disp[d].startTries, 0}
          /\ s.serverStatus \in {disp[d].serverStatus, "ignore"}
      BY <1>a, <3>1, StoppedType, StoppedTries DEF Fates
    <3> HIDE DEF s
    <3>4. n.startTries = s.startTries /\ n.serverStatus = s.serverStatus
      BY <3>3 DEF DisplayRecords
    <3>5. TriesOf(d, s) /\ TriesOf(d, n)
      BY <1>a, <3>3, <3>4, NoTries DEF TriesOf, MoreAttempts
    <3>6. \/ disp' = [disp EXCEPT ![d] = s] \/ disp' = [disp EXCEPT ![d] = n]
          \/ disp' = WakeDisplays(list)
      BY <1>0, <3>2 DEF TypeOK
    <3>7. list \in [Displays -> DisplayRecords] /\ \A e \in Displays : TriesOf(e, list[e])
      BY <1>0, <1>a, <3>3, <3>5 DEF TypeOK
    <3> HIDE DEF n, list
    <3> QED
      BY <1>b, <1>i, <3>5, <3>6, <3>7
  <2>3. CASE StartServerFailed(d, disp[d], sv)
    <3>1. ServerAttempts = 0 \/ disp[d].startTries <= ServerAttempts
      BY <1>a, <2>1 DEF TriesOf
    <3> QED
      BY <1>0, <1>a, <1>h, <2>1, <2>3, <3>1, StartServerFailedTries
  <2>4. CASE disp[d].status # "zombie" /\ ~StartServerFailed(d, disp[d], sv)
    <3>1. disp' = disp \/ \E st : disp' = [disp EXCEPT ![d].status = st]
      BY <1>13, <2>4 DEF ReapServer
    <3> QED
      BY <1>d, <1>j, <3>1
  <2> QED
    BY <2>2, <2>3, <2>4
<1>14. ASSUME NEW d \in Displays,
              \E b : disp' = [disp EXCEPT ![d].userSess = b]
       PROVE  Goal
  <2>1. \A e \in Displays : Calm(e)
    BY <1>0, <1>a, <1>14 DEF Calm, TypeOK, DisplayRecords
  <2> QED
    BY <1>c, <2>1
<1>15. ASSUME NEW d \in Displays, CmdManage(d) PROVE Goal
  BY <1>15, <1>i, NewDisplayTries, NoTries DEF CmdManage
<1>16. ASSUME NEW d \in Displays, XdmcpManage(d) PROVE Goal
  <2>1. PICK S : \/ disp' = StopAll(S, "remove")
                 \/ disp' = [StopAll(S, "remove") EXCEPT ![d] = NewDisplay(d)]
    BY <1>16 DEF XdmcpManage
  <2>2. \A e \in Displays : disp'[e] \in {StopAll(S, "remove")[e], NewDisplay(e)}
    BY <2>1 DEF StopAll
  <2>3. \A e \in Displays : Calm(e)
    BY <1>0, <2>2, StopAllCalm, NewDisplayOK, NewDisplayTries DEF Calm
  <2> QED
    BY <1>c, <2>3
<1>17. CASE MainLoop
  BY <1>1, <1>2, <1>3, <1>4, <1>5, <1>17 DEF MainLoop
<1>18. CASE Timeouts
  BY <1>6, <1>7, <1>18 DEF Timeouts
<1>19. CASE Signals
  BY <1>8, <1>9, <1>10, <1>11, <1>12, <1>13, <1>19 DEF Signals
<1>20. CASE Messages
  <2>1. ASSUME NEW d \in Displays, RecvXConnOk(d) PROVE Goal
    BY <1>d, <2>1 DEF RecvXConnOk
  <2>2. ASSUME NEW d \in Displays, RecvUser(d) \/ \E s : RecvUnUser(d, s) PROVE Goal
    BY <1>14, <2>2 DEF RecvUser, RecvUnUser
  <2>3. ASSUME NEW d \in Displays, RecvGarbage(d) PROVE Goal
    BY <1>e, <2>3 DEF RecvGarbage
  <2>4. ASSUME NEW d \in Displays, RecvConsole(d) PROVE Goal
    <3>1. PICK S : disp' = StopAll(S, "textMode") \/ disp' = WakeDisplays(StopAll(S, "textMode"))
      BY <2>4 DEF RecvConsole, CheckTTYMode, SwitchToTTY
    <3> DEFINE list == StopAll(S, "textMode")
    <3>2. \A e \in Displays : /\ list[e] \in DisplayRecords
                              /\ list[e].serverStatus \in {disp[e].serverStatus, "ignore"}
                              /\ list[e].startTries \in {disp[e].startTries, 0}
      BY <1>0, StopAllGentle, StopAllCalm
    <3>3. list \in [Displays -> DisplayRecords]
      BY <3>2 DEF StopAll
    <3> HIDE DEF list
    <3>4. \A e \in Displays : TriesOf(e, list[e])
      BY <1>a, <3>2, NoTries DEF TriesOf, MoreAttempts
    <3> QED
      BY <1>b, <3>1, <3>3, <3>4 DEF list
  <2> QED
    BY <1>20, <2>1, <2>2, <2>3, <2>4 DEF Messages
<1>21. CASE Commands
  <2>1. ASSUME NEW d \in Displays, NEW now, CmdLogin(d, now) PROVE Goal
    BY <1>j, <2>1 DEF CmdLogin
  <2>2. ASSUME NEW d \in Displays, CmdSuicide(d) \/ CmdReserve(d) PROVE Goal
    BY <1>j, <2>2 DEF CmdSuicide, CmdReserve
  <2>3. ASSUME NEW d \in Displays, CmdUnmanage(d) PROVE Goal
    BY <1>e, <2>3 DEF CmdUnmanage
  <2>4. CASE CmdResume
    BY <1>0, <1>a, <1>b, <2>4 DEF CmdResume, TypeOK
  <2>5. ASSUME NEW f, RequestShutdown(f) PROVE Goal
    BY <1>d, <2>5 DEF RequestShutdown
  <2>6. ASSUME NEW C, CancelShutdown(C) PROVE Goal
    BY <1>g, <2>6 DEF CancelShutdown
  <2> QED
    BY <1>15, <1>21, <2>1, <2>2, <2>3, <2>4, <2>5, <2>6 DEF Commands
<1>22. CASE Packets
  BY <1>16, <1>22 DEF Packets
<1>23. CASE Children
  BY <1>d, <1>23 DEF Children, ServerReady, ServerExit, SessionConnect, SessionExit
<1>24. CASE Terminated \/ UNCHANGED vars
  BY <1>d, <1>24 DEF Terminated, vars
<1> QED
  BY <1>17, <1>18, <1>19, <1>20, <1>21, <1>22, <1>23, <1>24 DEF Next

\* main() starts without a try.
LEMMA TriesInit == Init => TriesInv
<1> SUFFICES ASSUME Init, NEW d \in Displays PROVE TriesOf(d, disp[d])
  BY TriesParts
<1>1. PICK C \in Kdmrc : disp = ScanServers([e \in Displays |-> Absent], C)
  BY DEF Init
<1>2. disp[d] \in {Absent, NewDisplay(d)}
  BY <1>1 DEF ScanServers, Absent
<1>3. disp[d].startTries = 0
  BY <1>2, NewDisplayTries DEF Absent
<1> QED
  BY <1>3, NoTries

\* Neither an X server nor a foreign display is tried more often than kdmrc says
\* (startServerFailed, exitDisplay).
THEOREM TriesCorrect ==
  ASSUME ConsoleOfTwo
  PROVE  Spec => []TriesBounded
<1>1. Init => IInv /\ SeatInv /\ TriesInv
  BY IInvInit, SeatInit, TriesInit
<1>2. IInv /\ SeatInv /\ TriesInv /\ [Next]_vars => IInv' /\ SeatInv' /\ TriesInv'
  BY IInvStep, SeatStep, TriesStep
<1>3. TriesInv => TriesBounded
  BY DEF TriesInv
<1> QED
  BY <1>1, <1>2, <1>3, PTL DEF Spec

-----------------------------------------------------------------------------
(* The end of the daemon *)

\* What ExitInv and IInv say of one display r with the session se and the X server sv,
\* when the daemon is stopping or not.
ExitOf(r, se, sv, st) ==
  /\ r.zstatus \in {"reserve", "remoteLogin"} => se = "none"
  /\ st => /\ r.status \in {"notRunning", "reserve", "textMode"} => sv = "none"
           /\ r.status = "running" => se # "none"
           /\ r.zstatus \in {"none", "remove", "textMode"}

\* ExitInv display by display.
LEMMA ExitParts ==
  IInv /\ ExitInv =>
    NoOrphans /\ \A d \in Displays : ExitOf(disp[d], session[d], server[d], stopping)
BY IInvParts DEF ExitInv, ExitOf, DisplaysOK, DisplayOK

\* The same after a step.
LEMMA ExitPartsNext ==
  ASSUME NoOrphans', \A d \in Displays : ExitOf(disp'[d], session'[d], server'[d], stopping')
  PROVE  ExitInv'
BY DEF ExitInv, ExitOf

\* A display that is removed or sent to the console is not waited for in vain.
LEMMA StoppedExit ==
  ASSUME NEW d \in Displays, NEW r \in DisplayRecords, NEW se, NEW sv, NEW st,
         NEW fate \in {"remove", "textMode"}
  PROVE  ExitOf(Stopped(d, r, se # "none" \/ sv # "none", fate), se, sv, st)
BY DEF ExitOf, Stopped, Absent, DisplayRecords

\* A new display has no process.
LEMMA NewDisplayExit ==
  ASSUME NEW d, NEW st
  PROVE  ExitOf(NewDisplay(d), "none", "none", st)
BY NewDisplayOK DEF ExitOf

\* The displays of a console that is given up have no X server.
LEMMA WakeExit ==
  ASSUME NEW list \in [Displays -> DisplayRecords], NEW d \in Displays,
         NEW se, NEW sv, NEW st, ExitOf(list[d], se, sv, st)
  PROVE  ExitOf(WakeDisplays(list)[d], se, sv, st)
<1>1. /\ WakeDisplays(list)[d].zstatus = list[d].zstatus
      /\ \/ WakeDisplays(list)[d].status = list[d].status
         \/ /\ list[d].status = "textMode"
            /\ WakeDisplays(list)[d].status \in {"notRunning", "reserve"}
  BY DEF WakeDisplays, DisplayRecords
<1> QED
  BY <1>1 DEF ExitOf

\* stopDisplay() of a set of displays, for good or for the console.
LEMMA StopAllExit ==
  ASSUME TypeOK, NEW S, NEW d \in Displays, NEW st, NEW fate \in {"remove", "textMode"},
         d \in S \/ ExitOf(disp[d], session[d], server[d], st)
  PROVE  ExitOf(StopAll(S, fate)[d], session[d], server[d], st)
<1>1. disp[d] \in DisplayRecords
  BY DEF TypeOK
<1> DEFINE s == Stopped(d, disp[d], session[d] # "none" \/ server[d] # "none", fate)
<1>2. StopAll(S, fate)[d] = IF d \in S THEN s ELSE disp[d]
  BY DEF StopAll
<1>3. ExitOf(s, session[d], server[d], st)
  BY <1>1 DEF ExitOf, Stopped, Absent, DisplayRecords
<1> HIDE DEF s
<1> QED
  BY <1>2, <1>3

\* stoppen() of a daemon with or without users: what it spares has a session.
LEMMA StoppenExit ==
  ASSUME IInv, NEW force \in BOOLEAN, stoppen(force), UNCHANGED <<session, server>>,
         NEW d \in Displays, ExitOf(disp[d], session[d], server[d], stopping)
  PROVE  ExitOf(disp'[d], session'[d], server'[d], stopping')
<1> DEFINE S == {e \in Managed : force \/ /\ ~disp[e].userSess
                                          /\ disp[e].status # "remoteLogin"}
<1>1. /\ TypeOK /\ DisplayOK(disp[d], session[d], server[d])
      /\ disp[d].userSess => session[d] # "none"
  BY IInvParts DEF DisplaysOK, Turns, UsersHaveSession
<1>2. stopping' = TRUE /\ disp' = StopAll(S, "remove")
  BY DEF stoppen
<1>3. d \in S \/ ExitOf(disp[d], session[d], server[d], TRUE)
  <2>1. disp[d].zstatus \in Fates \cup {"none"}
    BY <1>1 DEF TypeOK, DisplayRecords
  <2> QED
    BY <1>1, <2>1 DEF ExitOf, DisplayOK, Managed, Fates
<1> HIDE DEF S
<1> QED
  BY <1>1, <1>2, <1>3, StopAllExit

\* rescanConfigs() of a list that differs in its marks.
LEMMA RescanExit ==
  ASSUME IInv, NEW C, NEW list \in [Displays -> DisplayRecords],
         \A e \in Displays : /\ list[e].status = disp[e].status
                             /\ list[e].zstatus = disp[e].zstatus,
         rescanConfigs(list, C), UNCHANGED <<session, server>>, stopping' => stopping,
         NEW d \in Displays, ExitOf(disp[d], session[d], server[d], stopping)
  PROVE  ExitOf(disp'[d], session'[d], server'[d], stopping')
<1>1. list[d] \in DisplayRecords /\ DisplayOK(disp[d], session[d], server[d])
  BY IInvParts DEF DisplaysOK
<1>2. CASE disp' = list
  BY <1>2 DEF ExitOf
<1>3. CASE disp' = ScanServers(list, C)
  <2>1. disp'[d] = ScanServers(list, C)[d]
    BY <1>3
  <2>2. CASE d \in C /\ list[d].status = "absent"
    <3>1. disp'[d] = NewDisplay(d)
      BY <1>3, <2>2 DEF ScanServers
    <3>2. session[d] = "none" /\ server[d] = "none"
      BY <1>1, <2>2 DEF DisplayOK
    <3> QED
      BY <3>1, <3>2, NewDisplayExit
  <2>3. CASE ~(d \in C /\ list[d].status = "absent")
    <3>1. /\ disp'[d].zstatus = disp[d].zstatus
          /\ \/ disp'[d].status = disp[d].status
             \/ /\ disp'[d].status \in {"notRunning", "reserve"}
                /\ disp[d].status \in {"notRunning", "reserve"}
      BY <1>1, <2>1, <2>3 DEF ScanServers, DisplayRecords
    <3> QED
      BY <3>1 DEF ExitOf
  <2> QED
    BY <2>2, <2>3
<1> QED
  BY <1>2, <1>3 DEF rescanConfigs

\* startServerFailed() in a daemon that goes on.
LEMMA StartServerFailedExit ==
  ASSUME TypeOK, NEW d \in Displays, NEW r \in DisplayRecords, NEW sv,
         r.zstatus = "none", StartServerFailed(d, r, sv)
  PROVE  /\ ExitOf(disp'[d], session[d], sv[d], FALSE)
         /\ \A e \in Displays \ {d} : disp'[e] = disp[e]
<1> DEFINE p == [r EXCEPT !.serverStatus = "pausing"]
           i == [r EXCEPT !.serverStatus = "ignore"]
           s == Stopped(d, i, session[d] # "none" \/ sv[d] # "none", "remove")
<1>1. ExitOf(p, session[d], sv[d], FALSE)
  BY DEF ExitOf, DisplayRecords
<1>2. i \in DisplayRecords
  BY DEF DisplayRecords, ServerStatuses
<1>3. ExitOf(s, session[d], sv[d], FALSE)
  <2> HIDE DEF i
  <2> QED BY <1>2, StoppedExit
<1>4. disp' = [disp EXCEPT ![d] = IF MoreAttempts(r) THEN p ELSE s]
  BY DEF StartServerFailed
<1> HIDE DEF p, s
<1> QED
  BY <1>1, <1>3, <1>4 DEF TypeOK

\* What an X server is started for, in a daemon that goes on.
LEMMA StartServerOnceExit ==
  ASSUME TypeOK, NEW d \in Displays, NEW r \in DisplayRecords,
         r.status = "running", r.zstatus = "none",
         StartServerOnce(d, r), UNCHANGED session
  PROVE  /\ ExitOf(disp'[d], session'[d], server'[d], FALSE)
         /\ \A e \in Displays \ {d} : disp'[e] = disp[e] /\ server'[e] = server[e]
<1> DEFINE s == [r EXCEPT !.startTries = r.startTries + 1, !.serverStatus = "starting"]
           sv == [server EXCEPT ![d] = "none"]
<1>1. s \in DisplayRecords /\ s.zstatus = "none"
  <2>1. r.startTries + 1 \in Nat
    BY DEF DisplayRecords
  <2>2. \A n \in Nat :
          LET t == [r EXCEPT !.startTries = n, !.serverStatus = "starting"] IN
          t \in DisplayRecords /\ t.zstatus = "none"
    BY DEF DisplayRecords, ServerStatuses
  <2> QED
    BY <2>1, <2>2
<1>2. \/ disp' = [disp EXCEPT ![d] = s] /\ server' = [server EXCEPT ![d] = "booting"]
      \/ StartServerFailed(d, s, sv) /\ server' = sv
  BY DEF StartServerOnce, StartServerFailed
<1>3. \A e \in Displays \ {d} : server'[e] = server[e]
  BY <1>2 DEF TypeOK
<1> HIDE DEF s, sv
<1>4. CASE disp' = [disp EXCEPT ![d] = s] /\ server' = [server EXCEPT ![d] = "booting"]
  BY <1>1, <1>3, <1>4 DEF ExitOf, TypeOK
<1>5. CASE StartServerFailed(d, s, sv) /\ server' = sv
  <2>1. /\ ExitOf(disp'[d], session[d], sv[d], FALSE)
        /\ \A e \in Displays \ {d} : disp'[e] = disp[e]
    BY <1>1, <1>5, StartServerFailedExit
  <2> QED
    BY <1>3, <1>5, <2>1
<1> QED
  BY <1>2, <1>4, <1>5

\* What a session is started for.
LEMMA StartDisplayP2Exit ==
  ASSUME TypeOK, NEW d \in Displays, NEW r \in DisplayRecords,
         r.zstatus = "none", StartDisplayP2(d, r)
  PROVE  /\ ExitOf(disp'[d], session'[d], server'[d], FALSE)
         /\ \A e \in Displays \ {d} :
              disp'[e] = disp[e] /\ session'[e] = session[e] /\ server'[e] = server[e]
<1> DEFINE n == [r EXCEPT !.status = "notRunning"]
<1>1. n.zstatus = "none"
  BY DEF DisplayRecords
<1>2. /\ \/ disp' = [disp EXCEPT ![d] = r] /\ session' = [session EXCEPT ![d] = "waiting"]
         \/ disp' = [disp EXCEPT ![d] = n] /\ UNCHANGED session
      /\ UNCHANGED server
  BY DEF StartDisplayP2
<1> HIDE DEF n
<1> QED
  BY <1>1, <1>2 DEF ExitOf, TypeOK

\* rStopDisplay() of a display: unless it is to leave the list or to go to the console,
\* it has no session, and the daemon goes on.
LEMMA StopDisplayToExit ==
  ASSUME TypeOK, NEW d \in Displays, NEW r \in DisplayRecords,
         NEW fate \in Fates, NEW se, NEW sv,
         se \in [Displays -> SessionStates], sv \in [Displays -> ServerStates],
         \A e \in Displays \ {d} : /\ se[e] = session[e] /\ sv[e] = server[e]
                                   /\ ExitOf(disp[e], session[e], server[e], stopping),
         fate \notin {"remove", "textMode"} => se[d] = "none" /\ ~stopping,
         StopDisplayTo(d, r, fate, se, sv), UNCHANGED stopping
  PROVE  \A e \in Displays : ExitOf(disp'[e], session'[e], server'[e], stopping')
<1> DEFINE alive == se[d] # "none" \/ sv[d] # "none"
           s == Stopped(d, r, alive, fate)
           n == [s EXCEPT !.status = "notRunning"]
           list == [disp EXCEPT ![d] = s]
<1>1. session' = se
  BY DEF StopDisplayTo
<1>2. /\ fate \in {"remove", "textMode"} => server' = sv
      /\ \/ disp' = list /\ server' = sv
         \/ disp' = WakeDisplays(list) /\ server' = sv /\ fate = "textMode"
         \/ /\ fate = "remoteLogin"
            /\ \/ disp' = list /\ server' = [sv EXCEPT ![d] = "ready"]
               \/ disp' = [list EXCEPT ![d].status = "notRunning"] /\ server' = sv
  BY DEF StopDisplayTo, CheckTTYMode, SwitchToTTY, Fates
<1>3. s \in DisplayRecords
  BY StoppedType
<1>4. CASE fate \in {"remove", "textMode"}
  <2>1. ExitOf(s, se[d], sv[d], stopping)
    BY <1>4, StoppedExit
  <2> HIDE DEF s
  <2>2. /\ list \in [Displays -> DisplayRecords]
        /\ \A e \in Displays : ExitOf(list[e], se[e], sv[e], stopping)
    BY <1>3, <2>1 DEF TypeOK
  <2>3. disp' = list \/ disp' = WakeDisplays(list)
    BY <1>2, <1>4
  <2>4. server' = sv
    BY <1>2, <1>4
  <2> HIDE DEF list
  <2> QED
    BY <1>1, <2>2, <2>3, <2>4, WakeExit
<1>5. CASE fate \notin {"remove", "textMode"}
  <2>1. se[d] = "none" /\ ~stopping
    BY <1>5
  <2> HIDE DEF s
  <2>2. /\ disp' = [disp EXCEPT ![d] = s] \/ disp' = [disp EXCEPT ![d] = n]
        /\ \A e \in Displays \ {d} : server'[e] = sv[e]
    BY <1>2, <1>5 DEF TypeOK
  <2> HIDE DEF n
  <2>3. ASSUME NEW e \in Displays \ {d} PROVE disp'[e] = disp[e]
    BY <2>2, <2>3 DEF TypeOK
  <2> HIDE DEF list
  <2>4. ExitOf(disp'[d], session'[d], server'[d], stopping')
    BY <1>1, <2>1 DEF ExitOf
  <2> QED
    BY <1>1, <2>2, <2>3, <2>4
<1> QED
  BY <1>4, <1>5

\* What a stopping daemon has to do with its displays, one step per action.
LEMMA ExitStep ==
  IInv /\ ExitInv /\ [Next]_vars =>
    \A d \in Displays : ExitOf(disp'[d], session'[d], server'[d], stopping')
<1> SUFFICES ASSUME IInv, ExitInv, [Next]_vars
             PROVE  \A d \in Displays : ExitOf(disp'[d], session'[d], server'[d], stopping')
  OBVIOUS
<1> DEFINE Goal == \A d \in Displays : ExitOf(disp'[d], session'[d], server'[d], stopping')
<1>0. TypeOK /\ DisplaysOK /\ NoDanglingStart
  BY IInvParts
<1> USE DEF masterVars, childVars
<1>a. /\ \A d \in Displays : /\ disp[d] \in DisplayRecords
                             /\ DisplayOK(disp[d], session[d], server[d])
                             /\ ExitOf(disp[d], session[d], server[d], stopping)
                             /\ startingServer = d =>
                                  \/ disp[d].serverStatus \in {"ignore", "awaiting"}
                                  \/ disp[d].status = "running"
      /\ todo # {} => ~stopping
  BY <1>0, IInvParts, ExitParts
  DEF TypeOK, DisplaysOK, Turns, StartersAreLocal, TurnsAreTaken
<1>b. ASSUME NEW list \in [Displays -> DisplayRecords], disp' = list \/ disp' = WakeDisplays(list),
             \A d \in Displays : ExitOf(list[d], session[d], server[d], stopping),
             UNCHANGED <<session, server, stopping>>
      PROVE  Goal
  BY <1>b, WakeExit
<1>c. ASSUME UNCHANGED <<disp, session, server, stopping>> PROVE Goal
  BY <1>a, <1>c
<1>d. ASSUME NEW S, disp' = StopAll(S, "remove"), UNCHANGED <<session, server, stopping>>
      PROVE  Goal
  BY <1>0, <1>a, <1>d, StopAllExit
<1>e. ASSUME NEW force \in BOOLEAN, stoppen(force), UNCHANGED <<session, server>>
      PROVE  Goal
  BY <1>a, <1>e, StoppenExit
<1>f. ASSUME NEW C, NEW list \in [Displays -> DisplayRecords],
             \A e \in Displays : /\ list[e].status = disp[e].status
                                 /\ list[e].zstatus = disp[e].zstatus,
             rescanConfigs(list, C), UNCHANGED <<session, server>>, stopping' => stopping
      PROVE  Goal
  BY <1>a, <1>f, RescanExit
<1>g. ASSUME NEW C, cancelShutdown(C), UNCHANGED <<session, server>> PROVE Goal
  BY <1>0, <1>f, <1>g DEF cancelShutdown, TypeOK
<1>h. ASSUME NEW d \in Displays, UNCHANGED stopping,
             ExitOf(disp'[d], session'[d], server'[d], stopping'),
             \A e \in Displays \ {d} :
               disp'[e] = disp[e] /\ session'[e] = session[e] /\ server'[e] = server[e]
      PROVE  Goal
  BY <1>a, <1>h
<1>1. CASE LoopTop
  BY <1>1, <1>c, <1>d DEF LoopTop
<1>2. CASE NoShutdownDue \/ NothingElse
  BY <1>2, <1>c DEF NoShutdownDue, NothingElse
<1>3. CASE ShutdownWaits
  BY <1>3, <1>e DEF ShutdownWaits
<1>4. CASE ShutdownExpires
  BY <1>4, <1>e, <1>g DEF ShutdownExpires
<1>5. ASSUME NEW d \in Displays, NEW waits \in BOOLEAN, KickDisplay(d, waits) PROVE Goal
  <2> DEFINE r == [disp[d] EXCEPT !.status = "running"]
             w == [r EXCEPT !.serverStatus = "awaiting"]
             Fresh(x) == x \in DisplayRecords /\ x.status = "running" /\ x.zstatus = "none"
  <2>1. ~stopping /\ UNCHANGED stopping
    BY <1>5, <1>a DEF KickDisplay
  <2>3. CASE disp[d].status = "notRunning" /\ ~waits
    <3>1. Fresh(r)
      BY <1>a, <2>3 DEF DisplayOK, DisplayRecords, Statuses
    <3>2. CASE ~NeedsServer(d)
      <4>1. StartDisplayP2(d, r)
        BY <1>5, <2>3, <3>2 DEF KickDisplay, startDisplay
      <4> HIDE DEF r
      <4> QED
        BY <1>0, <1>h, <2>1, <3>1, <4>1, StartDisplayP2Exit DEF ExitOf
    <3>3. CASE NeedsServer(d)
      <4> DEFINE z == [w EXCEPT !.startTries = 0]
      <4>1. /\ \/ StartServerOnce(d, z)
               \/ disp' = [disp EXCEPT ![d] = w] /\ UNCHANGED server
            /\ UNCHANGED session
        BY <1>5, <2>3, <3>3 DEF KickDisplay, startDisplay
      <4> HIDE DEF r
      <4>2. Fresh(w)
        BY <3>1 DEF DisplayRecords, ServerStatuses
      <4> HIDE DEF w
      <4>3. Fresh(z)
        BY <4>2 DEF DisplayRecords
      <4> HIDE DEF z
      <4>4. CASE StartServerOnce(d, z)
        BY <1>0, <1>h, <2>1, <4>1, <4>3, <4>4, StartServerOnceExit DEF ExitOf
      <4>5. CASE disp' = [disp EXCEPT ![d] = w] /\ UNCHANGED server
        BY <1>0, <1>h, <2>1, <4>1, <4>2, <4>5 DEF ExitOf, TypeOK
      <4> QED
        BY <4>1, <4>4, <4>5
    <3> QED
      BY <3>2, <3>3
  <2>4. CASE ~(disp[d].status = "notRunning" /\ ~waits)
    <3> DEFINE z == [disp[d] EXCEPT !.startTries = 0]
    <3>1. CASE disp[d].serverStatus = "awaiting" /\ startingServer = None
      <4>1. StartServerOnce(d, z) /\ UNCHANGED session
        BY <1>5, <2>4, <3>1 DEF KickDisplay
      <4>2. Fresh(z)
        BY <1>a, <3>1 DEF DisplayOK, DisplayRecords
      <4> HIDE DEF z
      <4> QED
        BY <1>0, <1>h, <2>1, <4>1, <4>2, StartServerOnceExit DEF ExitOf
    <3>2. CASE ~(disp[d].serverStatus = "awaiting" /\ startingServer = None)
      BY <1>0, <1>5, <1>c, <2>1, <2>4, <3>2 DEF KickDisplay, TypeOK
    <3> QED
      BY <3>1, <3>2
  <2> QED
    BY <2>3, <2>4
<1>6. CASE ServerTimeout
  <2>1. UNCHANGED <<session, stopping>>
    BY <1>6 DEF ServerTimeout
  <2>2. CASE UNCHANGED <<disp, startingServer, server>>
    BY <1>c, <2>1, <2>2
  <2>3. CASE ~UNCHANGED <<disp, startingServer, server>>
    <3>1. PICK d \in Displays : d = startingServer
      BY <1>0, <1>6, <2>3 DEF ServerTimeout, TypeOK
    <3>2. disp[d].serverStatus \notin {"ignore", "awaiting"}
      BY <1>0, <1>6, <2>3, <3>1 DEF ServerTimeout, TypeOK, DisplayRecords, ServerStatuses
    <3>3. /\ disp[d] \in DisplayRecords
          /\ disp[d].status = "running" /\ disp[d].zstatus = "none"
          /\ session[d] = "none"
      BY <1>a, <3>1, <3>2 DEF DisplayOK
    <3>4. ~stopping
      BY <1>a, <3>3 DEF ExitOf
    <3>5. \/ \E st \in {"terminated", "killed"} :
               disp' = [disp EXCEPT ![d].serverStatus = st] /\ UNCHANGED server
          \/ StartServerFailed(d, disp[d], server)
          \/ StartServerOnce(d, disp[d])
      BY <1>6, <2>3, <3>1 DEF ServerTimeout
    <3>6. ASSUME NEW st, disp' = [disp EXCEPT ![d].serverStatus = st], UNCHANGED server
          PROVE  Goal
      BY <1>0, <1>h, <2>1, <3>3, <3>4, <3>6 DEF ExitOf, TypeOK, DisplayRecords
    <3>7. CASE StartServerFailed(d, disp[d], server)
      <4>1. UNCHANGED server
        BY <3>7 DEF StartServerFailed
      <4> QED
        BY <1>0, <1>h, <2>1, <3>3, <3>4, <3>7, <4>1, StartServerFailedExit DEF ExitOf
    <3>8. CASE StartServerOnce(d, disp[d])
      BY <1>0, <1>h, <2>1, <3>3, <3>4, <3>8, StartServerOnceExit DEF ExitOf
    <3> QED
      BY <3>5, <3>6, <3>7, <3>8
  <2> QED
    BY <2>2, <2>3
<1>7. CASE UtmpTimeout
  BY <1>0, <1>a, <1>b, <1>7 DEF UtmpTimeout, TypeOK
<1>8. CASE HandleSigterm
  BY <1>8, <1>e DEF HandleSigterm
<1>9. ASSUME NEW C, HandleSighup(C) PROVE Goal
  <2> DEFINE marked == [d \in Displays |-> [disp[d] EXCEPT !.stillThere = FALSE]]
  <2>1. /\ marked \in [Displays -> DisplayRecords]
        /\ \A e \in Displays : /\ marked[e].status = disp[e].status
                               /\ marked[e].zstatus = disp[e].zstatus
    BY <1>a DEF DisplayRecords
  <2>2. rescanConfigs(marked, C) /\ UNCHANGED <<session, server, stopping>>
    BY <1>9 DEF HandleSighup
  <2> HIDE DEF marked
  <2> QED
    BY <1>f, <2>1, <2>2
<1>10. ASSUME NEW C, EndReap(C) PROVE Goal
  BY <1>0, <1>10, <1>c, <1>f DEF EndReap, TypeOK
<1>11. ASSUME NEW d \in Displays, HandleSigusr1(d) PROVE Goal
  <2>1. CASE UNCHANGED <<disp, session, server>>
    BY <1>11, <1>c, <2>1 DEF HandleSigusr1
  <2>2. CASE /\ startingServer # None
             /\ disp[startingServer].serverStatus = "starting"
             /\ startServerSuccess(startingServer)
    <3> DEFINE e == startingServer
               r == [disp[e] EXCEPT !.serverStatus = "ignore"]
    <3>1. e \in Displays /\ UNCHANGED stopping
      BY <1>0, <1>11, <2>2 DEF TypeOK, HandleSigusr1
    <3>2. disp[e].status = "running" /\ disp[e].zstatus = "none" /\ session[e] = "none"
      BY <1>a, <2>2, <3>1 DEF DisplayOK
    <3>3. ~stopping
      BY <1>a, <3>1, <3>2 DEF ExitOf
    <3>4. r \in DisplayRecords /\ r.zstatus = "none"
      BY <1>a, <3>1, <3>2 DEF DisplayRecords, ServerStatuses
    <3>5. StartDisplayP2(e, r)
      BY <1>11, <2>2 DEF startServerSuccess, HandleSigusr1
    <3> HIDE DEF e, r
    <3> QED
      BY <1>0, <1>h, <3>1, <3>3, <3>4, <3>5, StartDisplayP2Exit DEF ExitOf
  <2> QED
    BY <1>11, <2>1, <2>2 DEF HandleSigusr1
<1>12. ASSUME NEW d \in Displays, ReapSession(d) PROVE Goal
  <2> DEFINE se == [session EXCEPT ![d] = "none"]
             r  == [disp[d] EXCEPT !.userSess = FALSE]
             tries == [r EXCEPT !.startTries = r.startTries + 1]
             zero == [r EXCEPT !.startTries = 0]
  <2>1. session[d] # "none"
    BY <1>12 DEF ReapSession, DeadSession, ExitCodes
  <2>2. r \in DisplayRecords /\ r.status = disp[d].status /\ r.zstatus = disp[d].zstatus
    BY <1>a DEF DisplayRecords
  <2>3. zero \in DisplayRecords /\ tries \in DisplayRecords
    <3> HIDE DEF r
    <3>1. r.startTries + 1 \in Nat
      BY <2>2 DEF DisplayRecords
    <3>2. \A n \in Nat : [r EXCEPT !.startTries = n] \in DisplayRecords
      BY <2>2 DEF DisplayRecords
    <3> QED
      BY <3>1, <3>2
  <2>4. EndState(d, session[d]) \in {"remove", "reserve", "remoteLogin", "restart"}
    BY DEF EndState
  <2>5. r.status = "zombie" => r.zstatus \in {"remove", "textMode"}
    BY <1>a, <2>1, <2>2 DEF ExitOf, DisplayRecords, Fates
  <2>6. \/ \E fate \in Fates :
             /\ fate \notin {"remove", "textMode"} => ~stopping
             /\ \/ StopDisplayTo(d, r, fate, se, server)
                \/ StopDisplayTo(d, tries, fate, se, server)
        \/ /\ ~stopping
           /\ \E keep \in BOOLEAN : \/ RestartDisplay(d, r, keep, se)
                                    \/ RestartDisplay(d, zero, keep, se)
                                    \/ RestartDisplay(d, tries, keep, se)
    BY <1>12, <2>2, <2>4, <2>5 DEF ReapSession, Fates
  <2>7. /\ se \in [Displays -> SessionStates] /\ server \in [Displays -> ServerStates]
        /\ se[d] = "none" /\ \A e \in Displays \ {d} : se[e] = session[e]
    BY <1>0 DEF TypeOK, SessionStates
  <2>8. UNCHANGED stopping
    BY <1>12 DEF ReapSession
  <2> HIDE DEF r, tries, zero, se
  <2>9. ASSUME NEW fate \in Fates, NEW x \in DisplayRecords,
               fate \notin {"remove", "textMode"} => ~stopping,
               StopDisplayTo(d, x, fate, se, server)
        PROVE  Goal
    BY <1>0, <1>a, <2>7, <2>8, <2>9, StopDisplayToExit
  <2>10. ASSUME NEW keep, NEW x, ~stopping, RestartDisplay(d, x, keep, se)
         PROVE  Goal
    <3> DEFINE st == IF KillsServer(d, keep) THEN "phoenix" ELSE "notRunning"
               n == [x EXCEPT !.status = st]
    <3>1. disp' = [disp EXCEPT ![d] = n] /\ session' = se /\ UNCHANGED server
      BY <2>10 DEF RestartDisplay
    <3> HIDE DEF n
    <3> QED
      BY <1>0, <1>h, <2>7, <2>8, <2>10, <3>1 DEF ExitOf, TypeOK
  <2> QED
    BY <2>2, <2>3, <2>6, <2>9, <2>10
<1>13. ASSUME NEW d \in Displays, ReapServer(d) PROVE Goal
  <2> DEFINE sv == [server EXCEPT ![d] = "none"]
  <2>1. /\ sv \in [Displays -> ServerStates] /\ sv[d] = "none"
        /\ \A e \in Displays \ {d} : sv[e] = server[e]
    BY <1>0 DEF TypeOK, ServerStates
  <2>2. UNCHANGED stopping
    BY <1>13 DEF ReapServer
  <2>4. CASE disp[d].status = "zombie"
    <3>1. StopDisplayTo(d, disp[d], disp[d].zstatus, session, sv)
      BY <1>13, <2>4 DEF ReapServer
    <3>2. disp[d].zstatus \in Fates
      BY <1>a, <2>4 DEF DisplayOK, DisplayRecords
    <3>3. disp[d].zstatus \notin {"remove", "textMode"} => session[d] = "none" /\ ~stopping
      BY <1>a, <2>4, <3>2 DEF ExitOf, Fates
    <3>4. session \in [Displays -> SessionStates]
      BY <1>0 DEF TypeOK
    <3> HIDE DEF sv
    <3> QED
      BY <1>0, <1>a, <2>1, <2>2, <3>1, <3>2, <3>3, <3>4, StopDisplayToExit
  <2>5. CASE /\ disp[d].status = "running" /\ startingServer = d
             /\ disp[d].serverStatus # "ignore"
    <3>1. StartServerFailed(d, disp[d], sv) /\ UNCHANGED session
      BY <1>13, <2>5 DEF ReapServer
    <3>2. server' = sv
      BY <3>1 DEF StartServerFailed
    <3>3. ~stopping /\ disp[d].zstatus = "none"
      BY <1>a, <2>5 DEF DisplayOK, ExitOf
    <3> HIDE DEF sv
    <3> QED
      BY <1>0, <1>a, <1>h, <2>1, <2>2, <3>1, <3>2, <3>3, StartServerFailedExit
      DEF ExitOf
  <2>6. CASE ~(\/ disp[d].status = "zombie"
               \/ /\ disp[d].status = "running" /\ startingServer = d
                  /\ disp[d].serverStatus # "ignore")
    <3>1. server' = sv /\ UNCHANGED session
      BY <1>13, <2>6 DEF ReapServer
    <3>2. \/ disp' = disp
          \/ \E st \in {"notRunning", "reserve"} : disp' = [disp EXCEPT ![d].status = st]
      BY <1>13, <2>6 DEF ReapServer
    <3>3. /\ disp'[d].zstatus = disp[d].zstatus
          /\ disp'[d].status \in {disp[d].status, "notRunning", "reserve"}
          /\ \A e \in Displays \ {d} : disp'[e] = disp[e]
      BY <1>0, <1>a, <3>2 DEF TypeOK, DisplayRecords
    <3>4. ExitOf(disp'[d], session'[d], server'[d], stopping')
      BY <1>a, <2>1, <2>2, <3>1, <3>3 DEF ExitOf
    <3> QED
      BY <1>h, <2>1, <2>2, <3>1, <3>3, <3>4
  <2> QED
    BY <2>4, <2>5, <2>6
<1>14. ASSUME NEW d \in Displays, RecvXConnOk(d) PROVE Goal
  BY <1>14, <1>c DEF RecvXConnOk
<1>15. ASSUME NEW d \in Displays, RecvUser(d) \/ \E s : RecvUnUser(d, s) PROVE Goal
  <2>1. session[d] = "connected" /\ \E b : disp' = [disp EXCEPT ![d].userSess = b]
    BY <1>15 DEF RecvUser, RecvUnUser
  <2>2. /\ disp'[d].status = disp[d].status /\ disp'[d].zstatus = disp[d].zstatus
        /\ \A e \in Displays \ {d} : disp'[e] = disp[e]
    BY <1>0, <1>a, <2>1 DEF TypeOK, DisplayRecords
  <2>3. UNCHANGED <<session, server, stopping>>
    BY <1>15 DEF RecvUser, RecvUnUser
  <2>4. ExitOf(disp'[d], session'[d], server'[d], stopping')
    BY <1>a, <2>1, <2>2, <2>3 DEF ExitOf
  <2> QED
    BY <1>h, <2>2, <2>3, <2>4
<1>16. ASSUME NEW d \in Displays,
              (\E now : CmdLogin(d, now)) \/ CmdSuicide(d) \/ CmdReserve(d)
       PROVE  Goal
  <2>1. UNCHANGED <<session, server, stopping>>
    BY <1>16 DEF CmdLogin, CmdSuicide, CmdReserve, OnlyDisp
  <2>2. \E st \in {"raiser", "notRunning"} :
          /\ disp' = [disp EXCEPT ![d].status = st]
          /\ disp[d].status = IF st = "raiser" THEN "running" ELSE "reserve"
    BY <1>16 DEF CmdLogin, CmdSuicide, CmdReserve
  <2>3. /\ disp'[d].zstatus = disp[d].zstatus
        /\ \/ disp'[d].status = "raiser"
           \/ disp'[d].status = "notRunning" /\ disp[d].status = "reserve"
        /\ \A e \in Displays \ {d} : disp'[e] = disp[e]
    BY <1>0, <1>a, <2>2 DEF TypeOK, DisplayRecords
  <2>4. ExitOf(disp'[d], session'[d], server'[d], stopping')
    BY <1>a, <2>1, <2>3 DEF ExitOf
  <2> QED
    BY <1>h, <2>1, <2>3, <2>4
<1>17. ASSUME NEW d \in Displays, CmdManage(d) PROVE Goal
  <2>1. session[d] = "none" /\ server[d] = "none"
    BY <1>17, <1>a DEF CmdManage, DisplayOK
  <2>2. UNCHANGED <<session, server, stopping>> /\ disp' = [disp EXCEPT ![d] = NewDisplay(d)]
    BY <1>17 DEF CmdManage, OnlyDisp
  <2>3. ExitOf(NewDisplay(d), session[d], server[d], stopping)
    BY <2>1, NewDisplayExit
  <2> QED
    BY <1>0, <1>h, <2>2, <2>3 DEF TypeOK
<1>18. ASSUME NEW d \in Displays, XdmcpManage(d) PROVE Goal
  <2>1. PICK S : \/ disp' = StopAll(S, "remove")
                 \/ /\ StopAll(S, "remove")[d].status = "absent"
                    /\ disp' = [StopAll(S, "remove") EXCEPT ![d] = NewDisplay(d)]
    BY <1>18 DEF XdmcpManage
  <2>2. UNCHANGED <<session, server, stopping>>
    BY <1>18 DEF XdmcpManage
  <2>3. \A e \in Displays :
          ExitOf(StopAll(S, "remove")[e], session[e], server[e], stopping)
    BY <1>0, <1>a, StopAllExit
  <2>4. StopAll(S, "remove")[d].status = "absent" => session[d] = "none" /\ server[d] = "none"
    BY <1>a, StoppedOK DEF StopAll, DisplayOK
  <2>5. ASSUME StopAll(S, "remove")[d].status = "absent"
        PROVE  ExitOf(NewDisplay(d), session[d], server[d], stopping)
    BY <2>4, <2>5, NewDisplayExit
  <2>6. ASSUME NEW e \in Displays
        PROVE  \/ disp'[e] = StopAll(S, "remove")[e]
               \/ StopAll(S, "remove")[d].status = "absent" /\ e = d /\ disp'[e] = NewDisplay(d)
    BY <2>1, <2>6 DEF StopAll
  <2> QED
    BY <2>2, <2>3, <2>5, <2>6
<1>19. ASSUME NEW d \in Displays,
              ServerReady(d) \/ ServerExit(d) \/ SessionConnect(d) \/ SessionExit(d)
       PROVE  Goal
  <2>1. UNCHANGED <<disp, stopping>>
    BY <1>19 DEF ServerReady, ServerExit, SessionConnect, SessionExit
  <2>2. "none" \notin PossibleExits(d)
    BY DEF PossibleExits
  <2>3. \A e \in Displays : /\ (session'[e] = "none") <=> (session[e] = "none")
                            /\ (server'[e] = "none") <=> (server[e] = "none")
    BY <1>0, <1>19, <2>2
    DEF ServerReady, ServerExit, SessionConnect, SessionExit, TypeOK
  <2> QED
    BY <1>a, <2>1, <2>3 DEF ExitOf
<1>20. CASE MainLoop
  BY <1>1, <1>2, <1>3, <1>4, <1>5, <1>20 DEF MainLoop
<1>21. CASE Timeouts
  BY <1>6, <1>7, <1>21 DEF Timeouts
<1>22. CASE Signals
  BY <1>8, <1>9, <1>10, <1>11, <1>12, <1>13, <1>22 DEF Signals
<1>23. CASE Messages
  <2>1. ASSUME NEW d \in Displays, RecvGarbage(d) PROVE Goal
    BY <1>d, <2>1 DEF RecvGarbage
  <2>2. ASSUME NEW d \in Displays, RecvConsole(d) PROVE Goal
    <3> DEFINE S == {e \in Managed \cap Local : disp[e].status \notin {"reserve", "textMode"}}
               list == StopAll(S, "textMode")
    <3>1. disp' = list \/ disp' = WakeDisplays(list)
      BY <2>2 DEF RecvConsole, CheckTTYMode, SwitchToTTY
    <3>2. UNCHANGED <<session, server, stopping>>
      BY <2>2 DEF RecvConsole
    <3> HIDE DEF S
    <3>3. \A e \in Displays : ExitOf(list[e], session[e], server[e], stopping)
      BY <1>0, <1>a, StopAllExit
    <3>4. list \in [Displays -> DisplayRecords]
      <4>1. \A e \in Displays : list[e] \in DisplayRecords
        BY <1>0, StopAllGentle
      <4> QED
        BY <4>1 DEF StopAll
    <3> HIDE DEF list
    <3> QED
      BY <1>b, <3>1, <3>2, <3>3, <3>4
  <2> QED
    BY <1>14, <1>15, <1>23, <2>1, <2>2 DEF Messages
<1>24. CASE Commands
  <2>1. ASSUME NEW d \in Displays, CmdUnmanage(d) PROVE Goal
    BY <1>d, <2>1 DEF CmdUnmanage
  <2>2. CASE CmdResume
    BY <1>0, <1>a, <1>b, <2>2 DEF CmdResume, TypeOK
  <2>3. ASSUME NEW f, RequestShutdown(f) PROVE Goal
    BY <1>c, <2>3 DEF RequestShutdown
  <2>4. ASSUME NEW C, CancelShutdown(C) PROVE Goal
    BY <1>g, <2>4 DEF CancelShutdown
  <2> QED
    BY <1>16, <1>17, <1>24, <2>1, <2>2, <2>3, <2>4 DEF Commands
<1>25. CASE Packets
  BY <1>18, <1>25 DEF Packets
<1>26. CASE Children
  BY <1>19, <1>26 DEF Children
<1>27. CASE Terminated \/ UNCHANGED vars
  BY <1>c, <1>27 DEF Terminated, vars
<1> QED
  BY <1>20, <1>21, <1>22, <1>23, <1>24, <1>25, <1>26, <1>27 DEF Next

\* The daemon leaves the main loop only with nothing to wait for, and does not come back.
LEMMA OrphansStep == IInv /\ ExitInv /\ [Next]_vars => NoOrphans'
<1> SUFFICES ASSUME IInv, ExitInv, [Next]_vars, pc' = "exit",
                    NEW d \in Displays
             PROVE  session'[d] = "none" /\ server'[d] = "none"
  BY DEF NoOrphans
<1> USE DEF masterVars, childVars
<1>1. CASE LoopTop
  <2>1. ~KeepsLooping /\ UNCHANGED <<session, server>>
    BY <1>1 DEF LoopTop
  <2>2. DisplayOK(disp[d], session[d], server[d])
        /\ ExitOf(disp[d], session[d], server[d], stopping)
    BY IInvParts, ExitParts DEF DisplaysOK
  <2>3. CASE stopping
    <3>1. disp[d].status \in {"absent", "notRunning", "textMode", "reserve"}
      BY <2>1, <2>3 DEF KeepsLooping, anyRunningDisplays, Managed
    <3> QED
      BY <2>1, <2>2, <2>3, <3>1 DEF DisplayOK, ExitOf
  <2>4. CASE ~stopping
    <3>1. disp[d].status = "absent"
      BY <2>1, <2>4 DEF KeepsLooping, Managed
    <3> QED
      BY <2>1, <2>2, <3>1 DEF DisplayOK
  <2> QED
    BY <2>3, <2>4
<1>2. CASE ~LoopTop
  <2>1. pc = "exit" /\ UNCHANGED <<session, server>>
    BY <1>2 DEF Next, vars, MainLoop, Timeouts, Signals, Messages, Commands,
       Packets, Children, Terminated, Alive, NoShutdownDue, ShutdownWaits,
       ShutdownExpires, NothingElse, KickDisplay, ServerTimeout, UtmpTimeout,
       HandleSigterm, HandleSighup, EndReap, HandleSigusr1, ReapSession, ReapServer,
       RecvXConnOk, RecvUser, RecvGarbage, RecvConsole, RecvUnUser, CmdResume, CmdLogin,
       CmdSuicide, CmdReserve, CmdManage, CmdUnmanage, RequestShutdown, CancelShutdown,
       XdmcpManage, ServerReady, ServerExit, SessionConnect, SessionExit, Dispatch, Reap
  <2> QED
    BY <2>1 DEF ExitInv, NoOrphans
<1> QED
  BY <1>1, <1>2

\* main() starts with nothing to wait for.
LEMMA ExitInit == Init => ExitInv
<1> SUFFICES ASSUME Init PROVE ExitInv
  OBVIOUS
<1>1. NoOrphans
  BY DEF Init, NoOrphans
<1>2. ASSUME NEW d \in Displays
      PROVE  ExitOf(disp[d], session[d], server[d], stopping)
  <2>1. PICK C \in Kdmrc : disp = ScanServers([e \in Displays |-> Absent], C)
    BY DEF Init
  <2>2. disp[d] \in {Absent, NewDisplay(d)} /\ session[d] = "none" /\ server[d] = "none"
    BY <2>1 DEF ScanServers, Absent, Init
  <2> QED
    BY <2>2, NewDisplayExit DEF ExitOf, Absent
<1> QED
  BY <1>1, <1>2 DEF ExitInv, ExitOf

\* The daemon leaves no child behind, in every configuration without a console mode or
\* with two local displays, however its shutdown comes about (mainLoop, stoppen,
\* exitDisplay, rStopDisplay, stopToTTY).
THEOREM OrphansCorrect ==
  ASSUME ConsoleOfTwo
  PROVE  Spec => []NoOrphans
<1>1. Init => IInv /\ ExitInv
  BY IInvInit, ExitInit
<1>2. ExitInv /\ IInv /\ [Next]_vars => ExitInv'
  BY ExitStep, OrphansStep, ExitPartsNext
<1>3. IInv /\ ExitInv /\ [Next]_vars => IInv' /\ ExitInv'
  BY <1>2, IInvStep
<1>4. ExitInv => NoOrphans
  BY DEF ExitInv
<1> QED
  BY <1>1, <1>3, <1>4, PTL DEF Spec

=============================================================================
