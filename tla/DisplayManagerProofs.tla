------------------------ MODULE DisplayManagerProofs ------------------------
(***************************************************************************)
(* What DisplayManager keeps invariant for every set of displays and every *)
(* configuration: the types, and, for a kdmrc without ConsoleTTYs or with  *)
(* two local displays, that the status of a display matches its processes, *)
(* that no start dangles, no child is lost and a removal is final.         *)
(***************************************************************************)
EXTENDS DisplayManager, TLAPS

-----------------------------------------------------------------------------
(* The types of the helpers *)

\* rStopDisplay() leaves a well-formed display.
LEMMA StoppedType ==
  ASSUME NEW d \in Displays, NEW r \in DisplayRecords, NEW alive, NEW fate \in Fates
  PROVE  Stopped(d, r, alive, fate) \in DisplayRecords
BY ZenonT(60) DEF Stopped, Absent, DisplayRecords, Statuses, Fates, ServerStatuses

\* newDisplay() makes a well-formed display.
LEMMA NewDisplayType ==
  ASSUME NEW d \in Displays
  PROVE  NewDisplay(d) \in DisplayRecords
<1>1. \A st \in {"reserve", "notRunning"} : \A b \in BOOLEAN :
        [Absent EXCEPT !.status = st, !.stillThere = b] \in DisplayRecords
  BY DEF Absent, DisplayRecords, Statuses, Fates, ServerStatuses
<1>2. (IF d \in Reserve THEN "reserve" ELSE "notRunning") \in {"reserve", "notRunning"}
  OBVIOUS
<1>3. (d \in Config) \in BOOLEAN
  OBVIOUS
<1> QED
  BY <1>1, <1>2, <1>3 DEF NewDisplay

\* wakeDisplays() leaves well-formed displays.
LEMMA WakeType ==
  ASSUME NEW list \in [Displays -> DisplayRecords]
  PROVE  WakeDisplays(list) \in [Displays -> DisplayRecords]
BY DEF WakeDisplays, DisplayRecords, Statuses

\* scanServers() leaves well-formed displays.
LEMMA ScanType ==
  ASSUME NEW list \in [Displays -> DisplayRecords], NEW C
  PROVE  ScanServers(list, C) \in [Displays -> DisplayRecords]
BY NewDisplayType, ZenonT(60) DEF ScanServers, DisplayRecords, Statuses

\* Stopping a set of displays leaves well-formed displays.
LEMMA StopAllType ==
  ASSUME TypeOK, NEW S, NEW fate \in Fates
  PROVE  StopAll(S, fate) \in [Displays -> DisplayRecords]
BY StoppedType DEF StopAll, TypeOK

\* abortStartServer() keeps startingServer and serverTimer in their types.
LEMMA AbortType ==
  ASSUME TypeOK, NEW S, AbortStartServer(S)
  PROVE  startingServer' \in Displays \cup {None} /\ serverTimer' \in BOOLEAN
BY DEF AbortStartServer, TypeOK

\* rStopDisplay() with what is left of the processes of d.
LEMMA StopDisplayToType ==
  ASSUME TypeOK, NEW d \in Displays, NEW r \in DisplayRecords, NEW fate \in Fates,
         NEW se \in [Displays -> SessionStates], NEW sv \in [Displays -> ServerStates],
         StopDisplayTo(d, r, fate, se, sv)
  PROVE  /\ disp' \in [Displays -> DisplayRecords]
         /\ startingServer' \in Displays \cup {None}
         /\ serverTimer' \in BOOLEAN
         /\ ttyWatch' \in BOOLEAN
         /\ session' \in [Displays -> SessionStates]
         /\ server' \in [Displays -> ServerStates]
<1> DEFINE alive == se[d] # "none" \/ sv[d] # "none"
           list  == [disp EXCEPT ![d] = Stopped(d, r, alive, fate)]
<1>1. list \in [Displays -> DisplayRecords]
  BY StoppedType DEF TypeOK
<1>2. [list EXCEPT ![d].status = "notRunning"] \in [Displays -> DisplayRecords]
  <2> HIDE DEF list
  <2> QED BY <1>1 DEF DisplayRecords, Statuses
<1>3. startingServer' \in Displays \cup {None} /\ serverTimer' \in BOOLEAN
  BY AbortType DEF StopDisplayTo
<1>4. session' = se
  BY DEF StopDisplayTo
<1>5. server' \in {sv, [sv EXCEPT ![d] = "ready"]}
  BY DEF StopDisplayTo
<1>6. server' \in [Displays -> ServerStates]
  BY <1>5 DEF ServerStates
<1>7. disp' \in {list, WakeDisplays(list), [list EXCEPT ![d].status = "notRunning"]}
      /\ ttyWatch' \in {ttyWatch, TRUE, FALSE}
  BY DEF StopDisplayTo, CheckTTYMode, SwitchToTTY
<1>8. WakeDisplays(list) \in [Displays -> DisplayRecords]
  <2> HIDE DEF list
  <2> QED BY <1>1, WakeType
<1> HIDE DEF list
<1> QED
  BY <1>1, <1>2, <1>3, <1>4, <1>6, <1>7, <1>8 DEF TypeOK

\* startServerFailed() for d.
LEMMA StartServerFailedType ==
  ASSUME TypeOK, NEW d \in Displays, NEW r \in DisplayRecords,
         NEW sv \in [Displays -> ServerStates], StartServerFailed(d, r, sv)
  PROVE  /\ disp' \in [Displays -> DisplayRecords]
         /\ startingServer' \in Displays \cup {None}
         /\ serverTimer' \in BOOLEAN
         /\ server' \in [Displays -> ServerStates]
<1> DEFINE alive == session[d] # "none" \/ sv[d] # "none"
           s == [r EXCEPT !.serverStatus = "ignore"]
           p == [r EXCEPT !.serverStatus = "pausing"]
<1>1. s \in DisplayRecords /\ p \in DisplayRecords
  BY DEF DisplayRecords, ServerStatuses
<1>2. Stopped(d, s, alive, "remove") \in DisplayRecords
  <2> HIDE DEF s, p
  <2> QED BY <1>1, StoppedType DEF Fates
<1>3. MoreAttempts(r) \in BOOLEAN
  BY DEF MoreAttempts
<1>4. /\ disp' = [disp EXCEPT ![d] = IF MoreAttempts(r) THEN p
                                     ELSE Stopped(d, s, alive, "remove")]
      /\ serverTimer' = MoreAttempts(r)
      /\ startingServer' \in {d, None}
      /\ server' = sv
  BY DEF StartServerFailed
<1> HIDE DEF s, p, alive
<1> QED
  BY <1>1, <1>2, <1>3, <1>4 DEF TypeOK

\* startServerOnce() for d.
LEMMA StartServerOnceType ==
  ASSUME TypeOK, NEW d \in Displays, NEW r \in DisplayRecords, StartServerOnce(d, r)
  PROVE  /\ disp' \in [Displays -> DisplayRecords]
         /\ startingServer' \in Displays \cup {None}
         /\ serverTimer' \in BOOLEAN
         /\ server' \in [Displays -> ServerStates]
<1> DEFINE s == [r EXCEPT !.startTries = r.startTries + 1, !.serverStatus = "starting"]
<1>1. s \in DisplayRecords
  <2>1. r.startTries + 1 \in Nat
    BY DEF DisplayRecords
  <2>2. \A n \in Nat :
          [r EXCEPT !.startTries = n, !.serverStatus = "starting"] \in DisplayRecords
    BY DEF DisplayRecords, ServerStatuses
  <2> QED
    BY <2>1, <2>2
<1>2. [server EXCEPT ![d] = "none"] \in [Displays -> ServerStates]
      /\ [server EXCEPT ![d] = "booting"] \in [Displays -> ServerStates]
  BY DEF TypeOK, ServerStates
<1>3. \/ /\ disp' = [disp EXCEPT ![d] = s]
         /\ serverTimer' = TRUE
         /\ startingServer' = d
         /\ server' = [server EXCEPT ![d] = "booting"]
      \/ StartServerFailed(d, s, [server EXCEPT ![d] = "none"])
  BY DEF StartServerOnce
<1> HIDE DEF s
<1>4. CASE StartServerFailed(d, s, [server EXCEPT ![d] = "none"])
  BY <1>1, <1>2, <1>4, StartServerFailedType
<1>5. CASE ~StartServerFailed(d, s, [server EXCEPT ![d] = "none"])
  BY <1>1, <1>2, <1>3, <1>5 DEF TypeOK
<1> QED
  BY <1>4, <1>5

\* startDisplayP2() for d.
LEMMA StartDisplayP2Type ==
  ASSUME TypeOK, NEW d \in Displays, NEW r \in DisplayRecords, StartDisplayP2(d, r)
  PROVE  /\ disp' \in [Displays -> DisplayRecords]
         /\ session' \in [Displays -> SessionStates]
         /\ server' = server
<1>1. [r EXCEPT !.status = "notRunning"] \in DisplayRecords
  BY DEF DisplayRecords, Statuses
<1>2. [session EXCEPT ![d] = "waiting"] \in [Displays -> SessionStates]
  BY DEF TypeOK, SessionStates
<1> QED
  BY <1>1, <1>2 DEF StartDisplayP2, TypeOK

\* rescanConfigs()
LEMMA RescanType ==
  ASSUME TypeOK, NEW C, NEW list \in [Displays -> DisplayRecords], rescanConfigs(list, C)
  PROVE  disp' \in [Displays -> DisplayRecords] /\ listening' \in BOOLEAN
BY ScanType, ConfigAssumption DEF rescanConfigs, TypeOK

\* The shutdowns that can be asked for, or taken back.
LEMMA ScheduleType == {NoShutdown} \cup Schedules \subseteq Shutdowns
BY ConfigAssumption DEF NoShutdown, Schedules, Shutdowns

\* cancelShutdown()
LEMMA CancelType ==
  ASSUME TypeOK, NEW C, cancelShutdown(C)
  PROVE  /\ disp' \in [Displays -> DisplayRecords]
         /\ listening' \in BOOLEAN
         /\ stopping' \in BOOLEAN
         /\ sd' \in Shutdowns
<1>1. NoShutdown \in Shutdowns
  BY DEF NoShutdown, Shutdowns
<1>2. rescanConfigs(disp, C) /\ stopping' = FALSE /\ sd' = NoShutdown
  BY DEF cancelShutdown
<1> QED
  BY <1>1, <1>2, RescanType DEF TypeOK

\* stoppen()
LEMMA StoppenType ==
  ASSUME TypeOK, NEW force, stoppen(force)
  PROVE  /\ disp' \in [Displays -> DisplayRecords]
         /\ startingServer' \in Displays \cup {None}
         /\ serverTimer' \in BOOLEAN
         /\ listening' \in BOOLEAN
         /\ stopping' \in BOOLEAN
BY StopAllType, AbortType DEF stoppen, Fates

-----------------------------------------------------------------------------
(* TypeOK is invariant *)

\* main() starts with every variable in its type.
LEMMA TypeInit == Init => TypeOK
<1> SUFFICES ASSUME Init PROVE TypeOK
  OBVIOUS
<1>1. [d \in Displays |-> Absent] \in [Displays -> DisplayRecords]
  BY DEF Absent, DisplayRecords, Statuses, Fates, ServerStatuses
<1>2. disp \in [Displays -> DisplayRecords]
  <2>1. PICK C \in Kdmrc : disp = ScanServers([d \in Displays |-> Absent], C)
    BY DEF Init
  <2> QED
    BY <1>1, <2>1, ScanType
<1> QED
  BY <1>2, ConfigAssumption
  DEF Init, TypeOK, NoShutdown, Shutdowns, SessionStates, ServerStates

\* One step per action, in the order of Next.
LEMMA TypeStep == TypeOK /\ [Next]_vars => TypeOK'
<1> SUFFICES ASSUME TypeOK, [Next]_vars PROVE TypeOK'
  OBVIOUS
<1> USE DEF masterVars, childVars
<1>1. CASE LoopTop
  <2>1. UNCHANGED <<stopping, sd, listening, ttyWatch, session, server, xconn, usr1>>
        /\ pc' \in {"exit", "kick"}
    BY <1>1 DEF LoopTop
  <2>2. CASE UNCHANGED <<todo, disp, startingServer, serverTimer>>
    BY <2>1, <2>2 DEF TypeOK
  <2>3. CASE ~UNCHANGED <<todo, disp, startingServer, serverTimer>>
    <3>1. PICK S : disp' = StopAll(S, "remove") /\ AbortStartServer(S)
      BY <1>1, <2>3 DEF LoopTop
    <3>2. todo' \in SUBSET Displays
      BY <1>1, <2>3 DEF LoopTop
    <3>3. disp' \in [Displays -> DisplayRecords]
      BY <3>1, StopAllType DEF Fates
    <3> QED
      BY <2>1, <3>1, <3>2, <3>3, AbortType DEF TypeOK
  <2> QED
    BY <2>2, <2>3
<1>2. CASE NoShutdownDue
  <2>1. sd' \in Shutdowns
    BY <1>2 DEF NoShutdownDue, Shutdowns, TypeOK
  <2> QED
    BY <1>2, <2>1 DEF NoShutdownDue, TypeOK
<1>3. CASE ShutdownWaits
  <2>1. sd' \in Shutdowns
    BY <1>3 DEF ShutdownWaits, Shutdowns, TypeOK
  <2>2. stoppen(FALSE) /\ pc' = "select" /\ UNCHANGED <<todo, ttyWatch, childVars>>
    BY <1>3 DEF ShutdownWaits
  <2> QED
    BY <2>1, <2>2, StoppenType DEF TypeOK
<1>4. CASE ShutdownExpires
  <2>1. pc' = "select" /\ UNCHANGED <<todo, ttyWatch, childVars>>
    BY <1>4 DEF ShutdownExpires
  <2>2. CASE stoppen(TRUE) /\ sd' = [sd EXCEPT !.phase = "expired"]
    <3>1. sd' \in Shutdowns
      BY <2>2 DEF Shutdowns, TypeOK
    <3> QED
      BY <2>1, <2>2, <3>1, StoppenType DEF TypeOK
  <2>3. ASSUME NEW C \in Kdmrc, cancelShutdown(C),
               UNCHANGED <<startingServer, serverTimer>>
        PROVE  TypeOK'
    BY <2>1, <2>3, CancelType DEF TypeOK
  <2> QED
    BY <1>4, <2>2, <2>3 DEF ShutdownExpires
<1>5. CASE NothingElse
  BY <1>5 DEF NothingElse, TypeOK
<1>6. ASSUME NEW d \in Displays, NEW waits \in BOOLEAN, KickDisplay(d, waits)
      PROVE  TypeOK'
  <2>1. /\ todo' \in SUBSET Displays
        /\ UNCHANGED <<pc, stopping, sd, listening, ttyWatch, xconn, usr1>>
    BY <1>6 DEF KickDisplay, startDisplay, TypeOK
  <2> DEFINE r == [disp[d] EXCEPT !.status = "running"]
             s == IF disp[d].status = "notRunning" /\ ~waits
                  THEN [r EXCEPT !.serverStatus = "awaiting"] ELSE disp[d]
             t == [s EXCEPT !.startTries = 0]
  <2>2. r \in DisplayRecords
    BY DEF TypeOK, DisplayRecords, Statuses
  <2>3. s \in DisplayRecords
    <3> HIDE DEF r
    <3> QED BY <2>2 DEF TypeOK, DisplayRecords, ServerStatuses
  <2>4. t \in DisplayRecords
    <3> HIDE DEF s
    <3> QED BY <2>3 DEF DisplayRecords
  <2>5. \/ StartDisplayP2(d, r) /\ UNCHANGED <<startingServer, serverTimer>>
        \/ StartServerOnce(d, t) /\ UNCHANGED session
        \/ disp' = [disp EXCEPT ![d] = s]
           /\ UNCHANGED <<startingServer, serverTimer, server, session>>
    BY <1>6 DEF KickDisplay, startDisplay
  <2> HIDE DEF r, s, t
  <2>6. CASE StartDisplayP2(d, r) /\ UNCHANGED <<startingServer, serverTimer>>
    BY <2>1, <2>2, <2>6, StartDisplayP2Type DEF TypeOK
  <2>7. CASE StartServerOnce(d, t) /\ UNCHANGED session
    BY <2>1, <2>4, <2>7, StartServerOnceType DEF TypeOK
  <2>8. CASE disp' = [disp EXCEPT ![d] = s]
             /\ UNCHANGED <<startingServer, serverTimer, server, session>>
    BY <2>1, <2>3, <2>8 DEF TypeOK
  <2> QED
    BY <2>5, <2>6, <2>7, <2>8
<1>7. CASE ServerTimeout
  <2>1. /\ pc' \in {"crashed", "dispatch"}
        /\ UNCHANGED <<todo, stopping, sd, listening, ttyWatch, session, xconn, usr1>>
    BY <1>7 DEF ServerTimeout
  <2>2. CASE UNCHANGED <<disp, startingServer, server>> /\ serverTimer' = FALSE
    BY <2>1, <2>2 DEF TypeOK
  <2>3. CASE startingServer # None
             /\ ~(UNCHANGED <<disp, startingServer, server>> /\ serverTimer' = FALSE)
    <3> DEFINE d == startingServer
               r == disp[d]
    <3>1. d \in Displays /\ r \in DisplayRecords
      BY <2>3 DEF TypeOK
    <3>2. \/ \E st \in {"terminated", "killed"} :
               /\ disp' = [disp EXCEPT ![d].serverStatus = st]
               /\ serverTimer' = TRUE
               /\ UNCHANGED <<startingServer, server>>
          \/ StartServerFailed(d, r, server) \/ StartServerOnce(d, r)
      BY <1>7, <2>3 DEF ServerTimeout
    <3> HIDE DEF d, r
    <3>3. CASE StartServerFailed(d, r, server)
      BY <2>1, <3>1, <3>3, StartServerFailedType DEF TypeOK
    <3>4. CASE StartServerOnce(d, r)
      BY <2>1, <3>1, <3>4, StartServerOnceType DEF TypeOK
    <3>5. ASSUME NEW st \in {"terminated", "killed"},
                 disp' = [disp EXCEPT ![d].serverStatus = st],
                 serverTimer' = TRUE, UNCHANGED <<startingServer, server>>
          PROVE  TypeOK'
      <4>1. disp' \in [Displays -> DisplayRecords]
        BY <3>1, <3>5 DEF TypeOK, DisplayRecords, ServerStatuses
      <4> QED
        BY <2>1, <3>5, <4>1 DEF TypeOK
    <3> QED
      BY <3>2, <3>3, <3>4, <3>5
  <2> QED
    BY <1>7, <2>2, <2>3 DEF ServerTimeout
<1>8. CASE UtmpTimeout
  <2>1. disp' \in [Displays -> DisplayRecords] /\ ttyWatch' \in BOOLEAN
    BY <1>8, WakeType DEF UtmpTimeout, TypeOK
  <2> QED
    BY <1>8, <2>1 DEF UtmpTimeout, TypeOK
<1>9. CASE HandleSigterm
  BY <1>9, StoppenType DEF HandleSigterm, Dispatch, TypeOK
<1>10. ASSUME NEW C \in Kdmrc, HandleSighup(C) PROVE TypeOK'
  <2> DEFINE marked == [d \in Displays |-> [disp[d] EXCEPT !.stillThere = FALSE]]
  <2>1. marked \in [Displays -> DisplayRecords]
    BY DEF TypeOK, DisplayRecords
  <2>2. /\ rescanConfigs(marked, C)
        /\ pc' = "top"
        /\ UNCHANGED <<todo, startingServer, serverTimer, stopping, sd, ttyWatch, childVars>>
    BY <1>10 DEF HandleSighup, Dispatch
  <2> HIDE DEF marked
  <2> QED
    BY <2>1, <2>2, RescanType DEF TypeOK
<1>11. ASSUME NEW C \in Kdmrc, EndReap(C) PROVE TypeOK'
  <2>1. disp' \in [Displays -> DisplayRecords] /\ listening' \in BOOLEAN
    BY <1>11, RescanType DEF EndReap, TypeOK
  <2> QED
    BY <1>11, <2>1 DEF EndReap, TypeOK
<1>12. ASSUME NEW d \in Displays, HandleSigusr1(d) PROVE TypeOK'
  <2>1. /\ pc' = "top" /\ usr1' \in SUBSET Displays
        /\ UNCHANGED <<todo, startingServer, stopping, sd, listening, ttyWatch, xconn>>
    BY <1>12 DEF HandleSigusr1, Dispatch, TypeOK
  <2>2. CASE UNCHANGED <<disp, serverTimer, session, server>>
    BY <2>1, <2>2 DEF TypeOK
  <2>3. CASE startingServer # None /\ startServerSuccess(startingServer)
    <3> DEFINE r == [disp[startingServer] EXCEPT !.serverStatus = "ignore"]
    <3>1. startingServer \in Displays
      BY <2>3 DEF TypeOK
    <3>2. r \in DisplayRecords
      BY <3>1 DEF TypeOK, DisplayRecords, ServerStatuses
    <3>3. StartDisplayP2(startingServer, r) /\ serverTimer' = FALSE
      BY <2>3 DEF startServerSuccess
    <3> HIDE DEF r
    <3> QED
      BY <2>1, <3>1, <3>2, <3>3, StartDisplayP2Type DEF TypeOK
  <2> QED
    BY <1>12, <2>2, <2>3 DEF HandleSigusr1
<1>13. ASSUME NEW d \in Displays, ReapSession(d) PROVE TypeOK'
  <2> DEFINE se == [session EXCEPT ![d] = "none"]
             r  == [disp[d] EXCEPT !.userSess = FALSE]
             tries == [r EXCEPT !.startTries = r.startTries + 1]
             zero == [r EXCEPT !.startTries = 0]
  <2>1. se \in [Displays -> SessionStates]
    BY DEF TypeOK, SessionStates
  <2>2. r \in DisplayRecords
    BY ZenonT(60) DEF TypeOK, DisplayRecords
  <2>3. tries \in DisplayRecords /\ zero \in DisplayRecords
    <3> HIDE DEF r
    <3>1. r.startTries + 1 \in Nat
      BY <2>2 DEF DisplayRecords
    <3>2. \A n \in Nat : [r EXCEPT !.startTries = n] \in DisplayRecords
      BY <2>2 DEF DisplayRecords
    <3> QED
      BY <3>1, <3>2
  <2>4. /\ pc' = "reap" /\ xconn' \in SUBSET Displays
        /\ UNCHANGED <<todo, stopping, sd, listening, usr1>>
    BY <1>13 DEF ReapSession, Reap, TypeOK
  <2>5. r.status = "zombie" => r.zstatus \in Fates
    <3> HIDE DEF r
    <3> QED BY <2>2 DEF DisplayRecords
  <2>6. EndState(d, session[d]) \in Fates \cup {"restart"}
    BY DEF EndState, Fates
  <2>7. \/ \E fate \in Fates : \/ StopDisplayTo(d, r, fate, se, server)
                               \/ StopDisplayTo(d, tries, fate, se, server)
        \/ \E keep \in BOOLEAN : \/ RestartDisplay(d, r, keep, se)
                                 \/ RestartDisplay(d, zero, keep, se)
                                 \/ RestartDisplay(d, tries, keep, se)
    BY <1>13, <2>5, <2>6 DEF ReapSession, Fates
  <2> HIDE DEF r, tries, zero, se
  <2>8. ASSUME NEW fate \in Fates, NEW s \in DisplayRecords,
               StopDisplayTo(d, s, fate, se, server)
        PROVE  TypeOK'
    BY <2>1, <2>4, <2>8, StopDisplayToType DEF TypeOK
  <2>9. ASSUME NEW keep, NEW s \in DisplayRecords, RestartDisplay(d, s, keep, se)
        PROVE  TypeOK'
    <3>1. \A st \in {"phoenix", "notRunning"} : [s EXCEPT !.status = st] \in DisplayRecords
      BY <2>9 DEF DisplayRecords, Statuses
    <3>2. disp' \in [Displays -> DisplayRecords]
      BY <2>9, <3>1 DEF RestartDisplay, TypeOK
    <3> QED
      BY <2>1, <2>4, <2>9, <3>2 DEF RestartDisplay, TypeOK
  <2> QED
    BY <2>2, <2>3, <2>7, <2>8, <2>9
<1>14. ASSUME NEW d \in Displays, ReapServer(d) PROVE TypeOK'
  <2> DEFINE sv == [server EXCEPT ![d] = "none"]
  <2>1. sv \in [Displays -> ServerStates]
    BY DEF TypeOK, ServerStates
  <2>2. disp[d] \in DisplayRecords
    BY DEF TypeOK
  <2>3. pc' = "reap" /\ UNCHANGED <<todo, stopping, sd, listening, xconn, usr1>>
    BY <1>14 DEF ReapServer, Reap
  <2>4. \/ /\ disp[d].status = "zombie"
           /\ StopDisplayTo(d, disp[d], disp[d].zstatus, session, sv)
        \/ StartServerFailed(d, disp[d], sv) /\ UNCHANGED <<session, ttyWatch>>
        \/ /\ \/ UNCHANGED disp
              \/ \E st \in {"notRunning", "reserve"} :
                   disp' = [disp EXCEPT ![d].status = st]
           /\ server' = sv
           /\ UNCHANGED <<startingServer, serverTimer, session, ttyWatch>>
    BY <1>14 DEF ReapServer
  <2> HIDE DEF sv
  <2>5. CASE /\ disp[d].status = "zombie"
             /\ StopDisplayTo(d, disp[d], disp[d].zstatus, session, sv)
    <3>1. disp[d].zstatus \in Fates
      BY <2>2, <2>5 DEF DisplayRecords
    <3>2. session \in [Displays -> SessionStates]
      BY DEF TypeOK
    <3> QED
      BY <2>1, <2>2, <2>3, <2>5, <3>1, <3>2, StopDisplayToType DEF TypeOK
  <2>6. CASE StartServerFailed(d, disp[d], sv) /\ UNCHANGED <<session, ttyWatch>>
    BY <2>1, <2>2, <2>3, <2>6, StartServerFailedType DEF TypeOK
  <2>7. CASE UNCHANGED disp /\ server' = sv
             /\ UNCHANGED <<startingServer, serverTimer, session, ttyWatch>>
    BY <2>1, <2>3, <2>7 DEF TypeOK
  <2>8. ASSUME NEW st \in {"notRunning", "reserve"},
               disp' = [disp EXCEPT ![d].status = st], server' = sv,
               UNCHANGED <<startingServer, serverTimer, session, ttyWatch>>
        PROVE  TypeOK'
    <3>1. disp' \in [Displays -> DisplayRecords]
      BY <2>2, <2>8 DEF TypeOK, DisplayRecords, Statuses
    <3> QED
      BY <2>1, <2>3, <2>8, <3>1 DEF TypeOK
  <2> QED
    BY <2>4, <2>5, <2>6, <2>7, <2>8
<1>15. ASSUME NEW d \in Displays, RecvXConnOk(d) PROVE TypeOK'
  BY <1>15 DEF RecvXConnOk, Dispatch, TypeOK
<1>16. ASSUME NEW d \in Displays, RecvUser(d) PROVE TypeOK'
  <2>1. disp' \in [Displays -> DisplayRecords]
    BY <1>16, ZenonT(60) DEF RecvUser, TypeOK, DisplayRecords
  <2> QED
    BY <1>16, <2>1 DEF RecvUser, Dispatch, TypeOK
<1>17. ASSUME NEW d \in Displays, NEW s \in Shutdowns, RecvUnUser(d, s) PROVE TypeOK'
  <2>1. disp' \in [Displays -> DisplayRecords]
    BY <1>17, ZenonT(60) DEF RecvUnUser, TypeOK, DisplayRecords
  <2> QED
    BY <1>17, <2>1 DEF RecvUnUser, Dispatch, TypeOK
<1>18. ASSUME NEW S, NEW fate \in Fates, disp' = StopAll(S, fate), AbortStartServer(S),
              pc' = "top",
              UNCHANGED <<todo, stopping, sd, listening, ttyWatch, childVars>>
       PROVE  TypeOK'
  BY <1>18, StopAllType, AbortType DEF TypeOK
<1>19. ASSUME NEW d \in Displays, RecvConsole(d) PROVE TypeOK'
  <2>1. PICK S : CheckTTYMode(StopAll(S, "textMode")) /\ AbortStartServer(S)
    BY <1>19 DEF RecvConsole
  <2> DEFINE list == StopAll(S, "textMode")
  <2>2. list \in [Displays -> DisplayRecords]
    BY StopAllType DEF Fates
  <2>3. disp' \in {list, WakeDisplays(list)} /\ ttyWatch' \in {ttyWatch, TRUE, FALSE}
    BY <2>1 DEF CheckTTYMode, SwitchToTTY
  <2>4. pc' = "top" /\ UNCHANGED <<todo, stopping, sd, listening, childVars>>
    BY <1>19 DEF RecvConsole, Dispatch
  <2> HIDE DEF list
  <2> QED
    BY <2>1, <2>2, <2>3, <2>4, AbortType, WakeType DEF TypeOK
<1>20. ASSUME NEW d \in Displays,
              NEW st \in {"raiser", "notRunning"}, disp' = [disp EXCEPT ![d].status = st],
              pc' = "top", OnlyDisp
       PROVE  TypeOK'
  <2>1. disp' \in [Displays -> DisplayRecords]
    BY <1>20 DEF TypeOK, DisplayRecords, Statuses
  <2> QED
    BY <1>20, <2>1 DEF OnlyDisp, TypeOK
<1>21. CASE CmdResume
  BY <1>21, WakeType DEF CmdResume, Dispatch, TypeOK
<1>22. ASSUME NEW d \in Displays, disp' = [disp EXCEPT ![d] = NewDisplay(d)],
              pc' = "top", OnlyDisp
       PROVE  TypeOK'
  BY <1>22, NewDisplayType DEF OnlyDisp, TypeOK
<1>23. ASSUME NEW d \in Displays, XdmcpManage(d) PROVE TypeOK'
  <2>1. PICK S : /\ AbortStartServer(S)
                 /\ \/ disp' = StopAll(S, "remove")
                    \/ disp' = [StopAll(S, "remove") EXCEPT ![d] = NewDisplay(d)]
    BY <1>23 DEF XdmcpManage
  <2>2. disp' \in [Displays -> DisplayRecords]
    <3>1. StopAll(S, "remove") \in [Displays -> DisplayRecords]
      BY StopAllType DEF Fates
    <3> QED
      BY <2>1, <3>1, NewDisplayType
  <2> QED
    BY <1>23, <2>1, <2>2, AbortType DEF XdmcpManage, Dispatch, TypeOK
<1>24. ASSUME NEW s \in Shutdowns, RequestShutdown(s) PROVE TypeOK'
  BY <1>24 DEF RequestShutdown, Dispatch, TypeOK
<1>25. ASSUME NEW C \in Kdmrc, CancelShutdown(C) PROVE TypeOK'
  BY <1>25, CancelType DEF CancelShutdown, Dispatch, TypeOK
<1>26. ASSUME NEW d \in Displays,
              ServerReady(d) \/ ServerExit(d) \/ SessionConnect(d) \/ SessionExit(d)
       PROVE  TypeOK'
  <2>1. UNCHANGED masterVars
    BY <1>26 DEF ServerReady, ServerExit, SessionConnect, SessionExit
  <2>2. /\ server' \in [Displays -> ServerStates]
        /\ xconn' \in SUBSET Displays /\ usr1' \in SUBSET Displays
    BY <1>26 DEF ServerReady, ServerExit, SessionConnect, SessionExit, TypeOK, ServerStates
  <2>3. PossibleExits(d) \subseteq SessionStates
    BY DEF PossibleExits, SessionStates, ExitCodes
  <2>4. session' \in [Displays -> SessionStates]
    BY <1>26, <2>3
    DEF ServerReady, ServerExit, SessionConnect, SessionExit, TypeOK, SessionStates
  <2> QED
    BY <2>1, <2>2, <2>4 DEF TypeOK
<1>27. CASE UNCHANGED vars
  BY <1>27 DEF vars, TypeOK
<1>28. CASE MainLoop
  BY <1>1, <1>2, <1>3, <1>4, <1>5, <1>6, <1>28 DEF MainLoop
<1>29. CASE Timeouts
  BY <1>7, <1>8, <1>29 DEF Timeouts
<1>30. CASE Signals
  BY <1>9, <1>10, <1>11, <1>12, <1>13, <1>14, <1>30 DEF Signals
<1>31. CASE Messages
  <2>1. ASSUME NEW d \in Displays, RecvGarbage(d) PROVE TypeOK'
    BY <1>18, <2>1 DEF RecvGarbage, Dispatch, Fates
  <2>2. {sd} \cup Schedules \subseteq Shutdowns
    BY ScheduleType DEF TypeOK
  <2> QED
    BY <1>15, <1>16, <1>17, <1>19, <1>31, <2>1, <2>2 DEF Messages
<1>32. CASE Commands
  <2>1. ASSUME NEW d \in Displays, NEW now \in BOOLEAN, CmdLogin(d, now) PROVE TypeOK'
    BY <1>20, <2>1 DEF CmdLogin, Dispatch
  <2>2. ASSUME NEW d \in Displays, CmdSuicide(d) \/ CmdReserve(d) PROVE TypeOK'
    BY <1>20, <2>2 DEF CmdSuicide, CmdReserve, Dispatch
  <2>3. ASSUME NEW d \in Displays, CmdManage(d) PROVE TypeOK'
    BY <1>22, <2>3 DEF CmdManage, Dispatch
  <2>4. ASSUME NEW d \in Displays, CmdUnmanage(d) PROVE TypeOK'
    BY <1>18, <2>4 DEF CmdUnmanage, Dispatch, Fates
  <2> QED
    BY <1>21, <1>24, <1>25, <1>32, <2>1, <2>2, <2>3, <2>4, ScheduleType DEF Commands
<1>35. CASE Packets
  BY <1>23, <1>35 DEF Packets
<1>33. CASE Children
  BY <1>26, <1>33 DEF Children
<1>34. CASE Terminated
  BY <1>27, <1>34 DEF Terminated
<1> QED
  BY <1>27, <1>28, <1>29, <1>30, <1>31, <1>32, <1>33, <1>34, <1>35 DEF Next

\* Whatever the children do, and whatever kdmrc says, the variables of the master
\* keep their types.
THEOREM TypeCorrect == Spec => []TypeOK
BY TypeInit, TypeStep, PTL DEF Spec

-----------------------------------------------------------------------------
(* The inductive invariant, display by display.  With a console mode it     *)
(* takes that there are two local displays at most: otherwise G_Console can *)
(* suspend a display that still waits for its X server.                     *)

TwoLocals == \A a, b, c \in Local : a = b \/ b = c \/ a = c
ConsoleOfTwo == ConsoleTTYs => TwoLocals

\* What IInv says of one display r with the session se and the X server sv.
DisplayOK(r, se, sv) ==
  /\ ConsoleTTYs \/ (r.status # "textMode" /\ r.zstatus # "textMode")
  /\ r.status = "zombie" <=> r.zstatus # "none"
  /\ r.serverStatus = "awaiting" => r.status = "running" /\ se = "none" /\ sv = "none"
  /\ r.serverStatus \notin {"ignore", "awaiting"} =>
       /\ se = "none"
       /\ \/ r.status = "running" \/ r.zstatus = "remove"
          \/ /\ ConsoleTTYs
             /\ r.zstatus = "textMode" \/ (r.status # "absent" /\ sv = "none")
  /\ r.status = "zombie" => se # "none" \/ sv # "none"
  /\ r.status \in {"phoenix", "remoteLogin"} => sv # "none"
  /\ r.status = "raiser" => se # "none"
  /\ se # "none" => r.status \in {"running", "zombie", "raiser"}
  /\ r.status \in {"absent", "textMode"} => sv = "none"

DisplaysOK == \A d \in Displays : DisplayOK(disp[d], session[d], server[d])

\* The parts of IInv that relate the displays.
Turns == StartersAreLocal /\ TurnsAreTaken /\ UsersHaveSession

\* The TTYs are watched for a console mode only.
WatchOK == ConsoleTTYs \/ ~ttyWatch

\* IInv taken apart and put together again.
LEMMA IInvParts ==
  IInv <=> TypeOK /\ WatchOK /\ DisplaysOK /\ NoDanglingStart /\ Turns
<1>1. DisplaysOK <=> /\ ZombiesHaveFate /\ StartersHaveNoSession /\ StatusMatchesProcesses
                     /\ ConsoleTTYs \/ \A d \in Displays :
                          disp[d].status # "textMode" /\ disp[d].zstatus # "textMode"
  <2>1. ASSUME DisplaysOK PROVE ZombiesHaveFate /\ StartersHaveNoSession
    BY <2>1 DEF DisplaysOK, DisplayOK, ZombiesHaveFate, StartersHaveNoSession
  <2>2. ASSUME DisplaysOK
        PROVE  /\ StatusMatchesProcesses
               /\ ConsoleTTYs \/ \A d \in Displays :
                    disp[d].status # "textMode" /\ disp[d].zstatus # "textMode"
    BY <2>2 DEF DisplaysOK, DisplayOK, StatusMatchesProcesses
  <2>3. ASSUME ZombiesHaveFate, StartersHaveNoSession, StatusMatchesProcesses,
               ConsoleTTYs \/ \A d \in Displays :
                 disp[d].status # "textMode" /\ disp[d].zstatus # "textMode"
        PROVE  DisplaysOK
    BY <2>3
    DEF DisplaysOK, DisplayOK, ZombiesHaveFate, StartersHaveNoSession, StatusMatchesProcesses
  <2> QED
    BY <2>1, <2>2, <2>3
<1> QED
  BY <1>1 DEF IInv, TextModeIsAllowed, Turns, WatchOK

\* The same after a step.
LEMMA IInvPartsNext ==
  TypeOK' /\ WatchOK' /\ DisplaysOK' /\ NoDanglingStart' /\ Turns' => IInv'
BY IInvParts, PTL

\* A change of one display is a change of IInv at that display only.
LEMMA OneDisplay ==
  ASSUME TypeOK, TypeOK', DisplaysOK, NoDanglingStart, NEW d \in Displays,
         \A e \in Displays \ {d} : /\ disp'[e] = disp[e]
                                   /\ session'[e] = session[e]
                                   /\ server'[e] = server[e],
         DisplayOK(disp'[d], session'[d], server'[d]),
         startingServer' \in {startingServer, d, None},
         startingServer' = d => disp'[d].status \in
           {"running", "raiser", "phoenix", "notRunning", "reserve"}
  PROVE  DisplaysOK' /\ NoDanglingStart'
<1>1. DisplaysOK'
  BY DEF DisplaysOK
<1>2. NoDanglingStart'
  BY DEF NoDanglingStart, TypeOK
<1> QED
  BY <1>1, <1>2

\* A display that is removed leaves the list, or waits as a zombie for it; one that
\* goes to the console is there, or waits for it, if it did not await its turn.
LEMMA StoppedOK ==
  ASSUME NEW d \in Displays, NEW r \in DisplayRecords, NEW se, NEW sv, DisplayOK(r, se, sv),
         NEW fate \in {"remove", "textMode"},
         fate = "textMode" =>
           ConsoleTTYs /\ (r.serverStatus = "awaiting" => startingServer = d)
  PROVE  LET s == Stopped(d, r, se # "none" \/ sv # "none", fate) IN
         DisplayOK(s, se, sv) /\ s.status \in {"zombie", "absent", "textMode"}
BY DEF DisplayOK, Stopped, Absent, DisplayRecords

\* wakeDisplays() on a correct list.
LEMMA WakeOK ==
  ASSUME NEW list \in [Displays -> DisplayRecords], NEW d \in Displays, NEW se, NEW sv,
         DisplayOK(list[d], se, sv)
  PROVE  DisplayOK(WakeDisplays(list)[d], se, sv)
<1> DEFINE st == IF d \in Reserve THEN "reserve" ELSE "notRunning"
           w == [list[d] EXCEPT !.status = st]
<1>1. /\ list[d].status # "textMode" => WakeDisplays(list)[d] = list[d]
      /\ list[d].status = "textMode" => WakeDisplays(list)[d] = w
  BY DEF WakeDisplays
<1>2. /\ w.status \in {"reserve", "notRunning"}
      /\ w.zstatus = list[d].zstatus /\ w.serverStatus = list[d].serverStatus
  BY DEF DisplayRecords
<1> HIDE DEF w
<1>3. list[d].status = "textMode" => DisplayOK(w, se, sv)
  BY <1>2 DEF DisplayOK
<1> QED
  BY <1>1, <1>3

\* switchToTTY() from a correct list, in which startingServer is not at the console.
LEMMA ConsoleOK ==
  ASSUME TypeOK', NEW list \in [Displays -> DisplayRecords], ConsoleTTYs,
         \A e \in Displays : DisplayOK(list[e], session'[e], server'[e]),
         startingServer' # None => list[startingServer'].status \in
           {"running", "raiser", "phoenix", "notRunning", "reserve"},
         disp' = list \/ disp' = WakeDisplays(list)
  PROVE  WatchOK' /\ DisplaysOK' /\ NoDanglingStart'
<1>1. DisplaysOK'
  BY WakeOK DEF DisplaysOK
<1>2. ASSUME startingServer' # None PROVE disp'[startingServer'] = list[startingServer']
  <2>1. startingServer' \in Displays
    BY <1>2 DEF TypeOK
  <2> QED
    BY <1>2, <2>1 DEF WakeDisplays
<1>3. NoDanglingStart'
  BY <1>2 DEF NoDanglingStart
<1> QED
  BY <1>1, <1>3 DEF WatchOK

\* stopDisplay() for a set of displays.
LEMMA StopAllOK ==
  ASSUME IInv, TypeOK', NEW S, disp' = StopAll(S, "remove"), AbortStartServer(S),
         UNCHANGED <<session, server>>
  PROVE  DisplaysOK' /\ NoDanglingStart'
<1>1. DisplaysOK /\ NoDanglingStart /\ TypeOK
  BY IInvParts
<1>2. \A e \in Displays :
        disp'[e] = IF e \in S
                   THEN Stopped(e, disp[e], session[e] # "none" \/ server[e] # "none", "remove")
                   ELSE disp[e]
  BY DEF StopAll
<1>3. \A e \in Displays : disp[e] \in DisplayRecords
  BY <1>1 DEF TypeOK
<1>4. DisplaysOK'
  BY <1>1, <1>2, <1>3, StoppedOK DEF DisplaysOK
<1>5. NoDanglingStart'
  BY <1>1, <1>2 DEF NoDanglingStart, AbortStartServer, TypeOK
<1> QED
  BY <1>4, <1>5

\* rStopDisplay() for a display of which a process has been reaped.
LEMMA StopDisplayToOK ==
  ASSUME IInv, TypeOK', NEW d \in Displays, NEW r \in DisplayRecords,
         NEW fate \in Fates, NEW se, NEW sv,
         se \in [Displays -> SessionStates], sv \in [Displays -> ServerStates],
         \A e \in Displays \ {d} : se[e] = session[e] /\ sv[e] = server[e],
         fate = "textMode" => ConsoleTTYs,
         r.serverStatus # "ignore" =>
           r.serverStatus # "awaiting" /\ se[d] = "none" /\ fate \in {"remove", "textMode"},
         StopDisplayTo(d, r, fate, se, sv)
  PROVE  WatchOK' /\ DisplaysOK' /\ NoDanglingStart'
<1>1. DisplaysOK /\ NoDanglingStart /\ TypeOK /\ WatchOK
  BY IInvParts
<1> DEFINE alive == se[d] # "none" \/ sv[d] # "none"
           s == Stopped(d, r, alive, fate)
           list == [disp EXCEPT ![d] = s]
<1>2. /\ session' = se
      /\ startingServer' = IF startingServer = d THEN None ELSE startingServer
  BY DEF StopDisplayTo, AbortStartServer
<1>3. DOMAIN disp = Displays /\ s \in DisplayRecords
  BY <1>1, StoppedType DEF TypeOK
<1>4. CASE ~alive /\ fate = "textMode"
  <2>1. server' = sv /\ (disp' = list \/ disp' = WakeDisplays(list))
    BY <1>4 DEF StopDisplayTo, CheckTTYMode, SwitchToTTY
  <2>2. /\ s.status = "textMode" /\ s.zstatus = "none"
        /\ s.serverStatus \in {r.serverStatus, "ignore"}
    BY <1>4 DEF Stopped, DisplayRecords
  <2> HIDE DEF s
  <2>3. DisplayOK(s, se[d], sv[d])
    BY <1>4, <2>2 DEF DisplayOK
  <2>4. /\ list \in [Displays -> DisplayRecords]
        /\ \A e \in Displays : list[e] = IF e = d THEN s ELSE disp[e]
    BY <1>1, <1>3 DEF TypeOK
  <2> HIDE DEF list
  <2>5. \A e \in Displays : DisplayOK(list[e], session'[e], server'[e])
    BY <1>1, <1>2, <2>1, <2>3, <2>4 DEF DisplaysOK
  <2>6. startingServer' # None => list[startingServer'].status \in
          {"running", "raiser", "phoenix", "notRunning", "reserve"}
    BY <1>1, <1>2, <2>4 DEF NoDanglingStart, TypeOK
  <2> QED
    BY <1>4, <2>1, <2>4, <2>5, <2>6, ConsoleOK
<1>5. CASE alive \/ fate # "textMode"
  <2>1. \/ disp' = list /\ server' = sv /\ (alive \/ fate \in {"remove", "reserve"})
        \/ /\ ~alive /\ fate = "remoteLogin"
           /\ \/ disp' = list /\ server' = [sv EXCEPT ![d] = "ready"]
              \/ disp' = [list EXCEPT ![d].status = "notRunning"] /\ server' = sv
    BY <1>5 DEF StopDisplayTo, Fates
  <2>2. UNCHANGED ttyWatch
    BY <1>5 DEF StopDisplayTo
  <2>3. DisplayOK(disp'[d], session'[d], server'[d])
    <3>1. CASE alive
      <4>1. s.status = "zombie" /\ s.zstatus = fate
            /\ s.serverStatus \in {r.serverStatus, "ignore"}
        BY <3>1 DEF Stopped, DisplayRecords
      <4>2. disp'[d] = s /\ session'[d] = se[d] /\ server'[d] = sv[d]
        <5> HIDE DEF s
        <5> QED BY <1>2, <1>3, <2>1, <3>1
      <4> HIDE DEF s
      <4>3. fate # "none"
        BY DEF Fates
      <4> QED
        BY <3>1, <4>1, <4>2, <4>3 DEF DisplayOK
    <3>2. CASE ~alive /\ fate = "remove"
      <4>1. s = Absent
        BY <3>2 DEF Stopped
      <4> HIDE DEF s
      <4> QED
        BY <1>2, <1>3, <2>1, <3>2, <4>1 DEF DisplayOK, Absent
    <3>3. CASE ~alive /\ fate \in {"reserve", "remoteLogin"}
      <4>1. s.status = fate /\ s.zstatus = "none" /\ s.serverStatus = "ignore"
        BY <3>3 DEF Stopped, DisplayRecords
      <4> HIDE DEF s
      <4>2. [s EXCEPT !.status = "notRunning"].status = "notRunning"
            /\ [s EXCEPT !.status = "notRunning"].zstatus = "none"
            /\ [s EXCEPT !.status = "notRunning"].serverStatus = "ignore"
        BY <1>3, <4>1 DEF DisplayRecords
      <4>3. sv[d] = "none" /\ se[d] = "none"
        BY <3>3
      <4>4. fate = "remoteLogin" => \/ disp'[d] = s /\ server'[d] = "ready"
                                    \/ /\ disp'[d] = [s EXCEPT !.status = "notRunning"]
                                       /\ server'[d] = "none"
        BY <1>3, <2>1, <3>3, <4>3
      <4>5. fate = "reserve" => disp'[d] = s /\ server'[d] = "none"
        BY <1>3, <2>1, <3>3, <4>3
      <4> QED
        BY <1>2, <3>3, <4>1, <4>2, <4>3, <4>4, <4>5 DEF DisplayOK
    <3> QED
      BY <1>5, <3>1, <3>2, <3>3 DEF Fates
  <2>4. \A e \in Displays \ {d} : /\ disp'[e] = disp[e]
                                  /\ session'[e] = session[e]
                                  /\ server'[e] = server[e]
    <3> HIDE DEF s
    <3> QED BY <1>2, <1>3, <2>1
  <2>5. startingServer' \in {startingServer, None} /\ startingServer' # d
    BY <1>2, ConfigAssumption
  <2> QED
    BY <1>1, <1>2, <2>2, <2>3, <2>4, <2>5, OneDisplay DEF WatchOK
<1> QED
  BY <1>4, <1>5

\* startServerFailed() of a running display: it pauses, or it is removed.
LEMMA StartServerFailedOK ==
  ASSUME IInv, TypeOK', NEW d \in Displays, NEW r \in DisplayRecords,
         NEW sv \in [Displays -> ServerStates],
         \A e \in Displays \ {d} : sv[e] = server[e],
         r.status = "running", r.zstatus = "none", session[d] = "none",
         StartServerFailed(d, r, sv), UNCHANGED session
  PROVE  DisplaysOK' /\ NoDanglingStart'
<1> DEFINE p == [r EXCEPT !.serverStatus = "pausing"]
           i == [r EXCEPT !.serverStatus = "ignore"]
           s == Stopped(d, i, session[d] # "none" \/ sv[d] # "none", "remove")
<1>1. DisplaysOK /\ NoDanglingStart /\ TypeOK
  BY IInvParts
<1>2. DisplayOK(p, session[d], sv[d]) /\ p.status = "running"
  BY DEF DisplayOK, DisplayRecords
<1>3. DisplayOK(i, session[d], sv[d]) /\ i \in DisplayRecords
  BY DEF DisplayOK, DisplayRecords, ServerStatuses
<1>4. DisplayOK(s, session[d], sv[d])
  <2> HIDE DEF i
  <2> QED BY <1>3, StoppedOK
<1>5. /\ \/ disp' = [disp EXCEPT ![d] = p] /\ startingServer' = d
         \/ disp' = [disp EXCEPT ![d] = s] /\ startingServer' = None
      /\ server' = sv
  BY DEF StartServerFailed
<1> HIDE DEF p, i, s
<1>6. \/ disp'[d] = p /\ startingServer' = d
      \/ disp'[d] = s /\ startingServer' = None
  BY <1>1, <1>5 DEF TypeOK
<1>7. \A e \in Displays \ {d} : disp'[e] = disp[e]
  BY <1>1, <1>5 DEF TypeOK
<1>8. startingServer' = d => disp'[d].status = "running"
  BY <1>2, <1>6, ConfigAssumption
<1> QED
  BY <1>1, <1>2, <1>4, <1>5, <1>6, <1>7, <1>8, OneDisplay

\* startServerOnce() of a running display.
LEMMA StartServerOnceOK ==
  ASSUME IInv, TypeOK', NEW d \in Displays, NEW r \in DisplayRecords,
         r.status = "running", r.zstatus = "none", session[d] = "none",
         StartServerOnce(d, r), UNCHANGED session
  PROVE  DisplaysOK' /\ NoDanglingStart'
<1> DEFINE s == [r EXCEPT !.startTries = r.startTries + 1, !.serverStatus = "starting"]
           sv == [server EXCEPT ![d] = "none"]
<1>1. DisplaysOK /\ NoDanglingStart /\ TypeOK
  BY IInvParts
<1>2. s \in DisplayRecords /\ s.status = "running" /\ s.zstatus = "none"
      /\ s.serverStatus = "starting"
  <2>1. r.startTries + 1 \in Nat
    BY DEF DisplayRecords
  <2>2. \A n \in Nat :
          LET t == [r EXCEPT !.startTries = n, !.serverStatus = "starting"] IN
          /\ t \in DisplayRecords /\ t.status = "running" /\ t.zstatus = "none"
          /\ t.serverStatus = "starting"
    BY DEF DisplayRecords, ServerStatuses
  <2> QED
    BY <2>1, <2>2
<1>3. sv \in [Displays -> ServerStates] /\ \A e \in Displays \ {d} : sv[e] = server[e]
  BY <1>1 DEF TypeOK, ServerStates
<1>4. \/ /\ disp' = [disp EXCEPT ![d] = s]
         /\ startingServer' = d
         /\ server' = [server EXCEPT ![d] = "booting"]
      \/ StartServerFailed(d, s, sv)
  BY DEF StartServerOnce
<1> HIDE DEF s, sv
<1>5. CASE StartServerFailed(d, s, sv)
  BY <1>2, <1>3, <1>5, StartServerFailedOK
<1>6. CASE /\ disp' = [disp EXCEPT ![d] = s]
           /\ startingServer' = d
           /\ server' = [server EXCEPT ![d] = "booting"]
  <2>1. /\ disp'[d] = s /\ server'[d] = "booting" /\ session'[d] = "none"
        /\ \A e \in Displays \ {d} : disp'[e] = disp[e] /\ server'[e] = server[e]
    BY <1>1, <1>6 DEF TypeOK
  <2>2. DisplayOK(disp'[d], session'[d], server'[d])
    BY <1>2, <2>1 DEF DisplayOK
  <2> QED
    BY <1>1, <1>2, <1>6, <2>1, <2>2, OneDisplay
<1> QED
  BY <1>4, <1>5, <1>6

\* startDisplayP2() of a running display without a session.
LEMMA StartDisplayP2OK ==
  ASSUME IInv, TypeOK', NEW d \in Displays, NEW r \in DisplayRecords,
         r.status = "running", r.zstatus = "none", r.serverStatus = "ignore",
         session[d] = "none", StartDisplayP2(d, r), UNCHANGED startingServer
  PROVE  DisplaysOK' /\ NoDanglingStart'
<1> DEFINE n == [r EXCEPT !.status = "notRunning"]
<1>1. DisplaysOK /\ NoDanglingStart /\ TypeOK
  BY IInvParts
<1>2. n.status = "notRunning" /\ n.zstatus = "none" /\ n.serverStatus = "ignore"
  BY DEF DisplayRecords
<1>3. /\ \/ disp' = [disp EXCEPT ![d] = r] /\ session' = [session EXCEPT ![d] = "waiting"]
         \/ disp' = [disp EXCEPT ![d] = n] /\ UNCHANGED session
      /\ UNCHANGED server
  BY DEF StartDisplayP2
<1> HIDE DEF n
<1>4. /\ \/ disp'[d] = r /\ session'[d] = "waiting"
         \/ disp'[d] = n /\ session'[d] = "none"
      /\ \A e \in Displays \ {d} : disp'[e] = disp[e] /\ session'[e] = session[e]
  BY <1>1, <1>3 DEF TypeOK
<1>5. DisplayOK(disp'[d], session'[d], server'[d])
      /\ disp'[d].status \in {"running", "notRunning"}
  BY <1>2, <1>3, <1>4 DEF DisplayOK
<1> QED
  BY <1>1, <1>3, <1>4, <1>5, OneDisplay

\* A new display has neither fate nor processes.
LEMMA NewDisplayOK ==
  ASSUME NEW d
  PROVE  /\ NewDisplay(d).status \in {"reserve", "notRunning"}
         /\ NewDisplay(d).zstatus = "none"
         /\ NewDisplay(d).serverStatus = "ignore"
<1>1. \A st \in {"reserve", "notRunning"} : \A b :
        LET n == [Absent EXCEPT !.status = st, !.stillThere = b] IN
        n.status = st /\ n.zstatus = "none" /\ n.serverStatus = "ignore"
  BY DEF Absent
<1>2. (IF d \in Reserve THEN "reserve" ELSE "notRunning") \in {"reserve", "notRunning"}
  OBVIOUS
<1> QED
  BY <1>1, <1>2 DEF NewDisplay

\* A new display beside, or in the place of, those that are stopped for it.
LEMMA ManageOK ==
  ASSUME IInv, TypeOK', NEW S, NEW d \in Displays, AbortStartServer(S),
         StopAll(S, "remove")[d].status = "absent",
         disp' = [StopAll(S, "remove") EXCEPT ![d] = NewDisplay(d)],
         UNCHANGED <<session, server>>
  PROVE  DisplaysOK' /\ NoDanglingStart'
<1>1. DisplaysOK /\ NoDanglingStart /\ TypeOK
  BY IInvParts
<1> DEFINE list == StopAll(S, "remove")
<1>2. \A e \in Displays :
        list[e] = IF e \in S
                  THEN Stopped(e, disp[e], session[e] # "none" \/ server[e] # "none", "remove")
                  ELSE disp[e]
  BY DEF StopAll
<1>3. \A e \in Displays : disp[e] \in DisplayRecords
  BY <1>1 DEF TypeOK
<1>4. \A e \in Displays : DisplayOK(list[e], session[e], server[e])
  BY <1>1, <1>2, <1>3, StoppedOK DEF DisplaysOK
<1>5. DOMAIN list = Displays
  BY DEF StopAll
<1>6. session[d] = "none" /\ server[d] = "none"
  BY <1>4 DEF DisplayOK
<1> HIDE DEF list
<1>7. \A e \in Displays : disp'[e] = IF e = d THEN NewDisplay(d) ELSE list[e]
  BY <1>5 DEF list
<1>8. DisplayOK(NewDisplay(d), session[d], server[d])
  BY <1>6, NewDisplayOK DEF DisplayOK
<1>9. DisplaysOK'
  BY <1>4, <1>7, <1>8 DEF DisplaysOK
<1>10. NoDanglingStart'
  BY <1>1, <1>2, <1>7, NewDisplayOK DEF NoDanglingStart, AbortStartServer, TypeOK
<1> QED
  BY <1>9, <1>10

\* rescanConfigs() on the list, when it differs from disp in stillThere at most.
LEMMA RescanOK ==
  ASSUME IInv, TypeOK', NEW C, NEW list \in [Displays -> DisplayRecords],
         \A e \in Displays : /\ list[e].status = disp[e].status
                             /\ list[e].zstatus = disp[e].zstatus
                             /\ list[e].serverStatus = disp[e].serverStatus,
         rescanConfigs(list, C), UNCHANGED <<startingServer, session, server>>
  PROVE  DisplaysOK' /\ NoDanglingStart'
<1>1. DisplaysOK /\ NoDanglingStart /\ TypeOK
  BY IInvParts
<1>2. \A e \in Displays : /\ disp'[e].zstatus = disp[e].zstatus
                          /\ disp'[e].serverStatus = disp[e].serverStatus
                          /\ \/ disp'[e].status = disp[e].status
                             \/ /\ disp'[e].status \in {"notRunning", "reserve"}
                                /\ disp[e].status \in {"notRunning", "reserve", "absent"}
  <2>1. CASE disp' = list
    BY <2>1
  <2>2. CASE disp' = ScanServers(list, C)
    <3> TAKE e \in Displays
    <3>1. disp'[e] = ScanServers(list, C)[e] /\ list[e] \in DisplayRecords
      BY <2>2
    <3>2. CASE e \in C /\ list[e].status = "absent"
      <4>1. disp'[e] = NewDisplay(e)
        BY <2>2, <3>2 DEF ScanServers
      <4>2. disp[e].zstatus = "none" /\ disp[e].serverStatus = "ignore"
        BY <1>1, <3>2 DEF DisplaysOK, DisplayOK, TypeOK
      <4> QED
        BY <3>2, <4>1, <4>2, NewDisplayOK
    <3>3. CASE ~(e \in C /\ list[e].status = "absent")
      BY <3>1, <3>3 DEF ScanServers, DisplayRecords
    <3> QED
      BY <3>2, <3>3
  <2> QED
    BY <2>1, <2>2 DEF rescanConfigs
<1>3. DisplaysOK'
  BY <1>1, <1>2 DEF DisplaysOK, DisplayOK
<1>4. NoDanglingStart'
  BY <1>1, <1>2 DEF NoDanglingStart, TypeOK
<1> QED
  BY <1>3, <1>4

-----------------------------------------------------------------------------
(* IInv is inductive *)

\* main() starts with no process and no server being started.
LEMMA IInvInit == Init => IInv
<1> SUFFICES ASSUME Init PROVE IInv
  OBVIOUS
<1>1. TypeOK
  BY TypeInit
<1>2. PICK C \in Kdmrc : disp = ScanServers([d \in Displays |-> Absent], C)
  BY DEF Init
<1>3. \A d \in Displays : disp[d] \in {Absent, NewDisplay(d)}
  BY <1>2 DEF ScanServers, Absent
<1>4. DisplaysOK
  <2> SUFFICES ASSUME NEW d \in Displays
               PROVE  DisplayOK(disp[d], session[d], server[d])
    BY DEF DisplaysOK
  <2>1. session[d] = "none" /\ server[d] = "none"
    BY DEF Init
  <2>2. /\ disp[d].status \in {"absent", "reserve", "notRunning"}
        /\ disp[d].zstatus = "none" /\ disp[d].serverStatus = "ignore"
    <3>1. CASE disp[d] = Absent
      BY <3>1 DEF Absent
    <3>2. CASE disp[d] = NewDisplay(d)
      BY <3>2, NewDisplayOK
    <3> QED
      BY <1>3, <3>1, <3>2
  <2> QED
    BY <2>1, <2>2 DEF DisplayOK
<1>5. NoDanglingStart /\ WatchOK
  BY DEF Init, NoDanglingStart, WatchOK
<1>6. Turns
  <2>1. ASSUME NEW d \in Displays PROVE disp[d].serverStatus = "ignore" /\ ~disp[d].userSess
    <3>1. CASE disp[d] = Absent
      BY <3>1 DEF Absent
    <3>2. CASE disp[d] = NewDisplay(d)
      <4>1. ~NewDisplay(d).userSess
        BY DEF NewDisplay, Absent
      <4> QED
        BY <3>2, <4>1, NewDisplayOK
    <3> QED
      BY <1>3, <3>1, <3>2
  <2>2. startingServer \notin Displays /\ ~stopping /\ pc = "top" /\ todo = {}
    BY ConfigAssumption DEF Init
  <2> QED
    BY <2>1, <2>2 DEF Turns, StartersAreLocal, TurnsAreTaken, UsersHaveSession
<1> QED
  BY <1>1, <1>4, <1>5, <1>6, IInvParts

\* One step per action, in the order of Next.
LEMMA ProcessStep == IInv /\ [Next]_vars => WatchOK' /\ DisplaysOK' /\ NoDanglingStart'
<1> SUFFICES ASSUME IInv, [Next]_vars
             PROVE  WatchOK' /\ DisplaysOK' /\ NoDanglingStart'
  OBVIOUS
<1>0. TypeOK /\ WatchOK /\ DisplaysOK /\ NoDanglingStart /\ TypeOK' /\ Turns
  BY IInvParts, TypeStep
<1> DEFINE Goal == WatchOK' /\ DisplaysOK' /\ NoDanglingStart'
<1> USE DEF masterVars, childVars
<1>a. \A d \in Displays : /\ disp[d] \in DisplayRecords
                          /\ DisplayOK(disp[d], session[d], server[d])
  BY <1>0 DEF TypeOK, DisplaysOK
<1>b. ASSUME UNCHANGED <<startingServer, session, server>>, disp' = WakeDisplays(disp), ~ttyWatch'
      PROVE  Goal
  <2>1. disp \in [Displays -> DisplayRecords]
    BY <1>0 DEF TypeOK
  <2>2. DisplaysOK'
    BY <1>0, <1>b, <2>1, WakeOK DEF DisplaysOK
  <2>3. startingServer # None => WakeDisplays(disp)[startingServer] = disp[startingServer]
    BY <1>0 DEF WakeDisplays, NoDanglingStart, TypeOK
  <2> QED
    BY <1>0, <1>b, <2>2, <2>3 DEF NoDanglingStart, WatchOK
<1>c. ASSUME UNCHANGED <<disp, startingServer, session, server, ttyWatch>> PROVE Goal
  BY <1>0, <1>c DEF DisplaysOK, NoDanglingStart, WatchOK
<1>d. UNCHANGED ttyWatch => WatchOK'
  BY <1>0 DEF WatchOK
<1>1. CASE LoopTop
  <2>1. \/ UNCHANGED <<disp, startingServer>>
        \/ \E S : disp' = StopAll(S, "remove") /\ AbortStartServer(S)
    BY <1>1 DEF LoopTop
  <2>2. UNCHANGED <<session, server, ttyWatch>>
    BY <1>1 DEF LoopTop
  <2> QED
    BY <1>0, <1>c, <1>d, <2>1, <2>2, StopAllOK
<1>2. CASE NoShutdownDue \/ NothingElse
  BY <1>c, <1>2 DEF NoShutdownDue, NothingElse
<1>3. ASSUME NEW force, stoppen(force), UNCHANGED <<session, server, ttyWatch>>
      PROVE  Goal
  BY <1>0, <1>d, <1>3, StopAllOK DEF stoppen
<1>4. ASSUME NEW C, cancelShutdown(C),
             UNCHANGED <<startingServer, session, server, ttyWatch>>
      PROVE  Goal
  BY <1>0, <1>d, <1>4, RescanOK DEF cancelShutdown, TypeOK
<1>5. CASE ShutdownWaits
  BY <1>3, <1>5 DEF ShutdownWaits
<1>6. CASE ShutdownExpires
  BY <1>3, <1>4, <1>6 DEF ShutdownExpires
<1>7. ASSUME NEW d \in Displays, NEW waits \in BOOLEAN, KickDisplay(d, waits)
      PROVE  Goal
  <2> DEFINE r == [disp[d] EXCEPT !.status = "running"]
             w == [r EXCEPT !.serverStatus = "awaiting"]
  <2>1. UNCHANGED ttyWatch
    BY <1>7 DEF KickDisplay
  <2>2. CASE disp[d].status = "notRunning" /\ ~waits
    <3>1. disp[d].zstatus = "none" /\ session[d] = "none"
      BY <1>a, <2>2 DEF DisplayOK
    <3>2. /\ r \in DisplayRecords /\ r.status = "running" /\ r.zstatus = "none"
          /\ r.serverStatus = disp[d].serverStatus
      BY <1>a, <3>1 DEF DisplayRecords, Statuses
    <3>3. CASE ~NeedsServer(d)
      <4>2. disp[d].serverStatus = "ignore"
        BY <1>0, <1>a, <2>2, <3>3 DEF DisplayOK, NeedsServer, Turns, StartersAreLocal
      <4>1. StartDisplayP2(d, r) /\ UNCHANGED startingServer
        BY <1>7, <2>2, <3>3 DEF KickDisplay, startDisplay
      <4> HIDE DEF r
      <4> QED
        BY <1>0, <1>d, <2>1, <3>1, <3>2, <4>1, <4>2, StartDisplayP2OK
    <3>4. CASE NeedsServer(d)
      <4> DEFINE z == [w EXCEPT !.startTries = 0]
      <4>1. \/ StartServerOnce(d, z) /\ UNCHANGED session
            \/ /\ disp' = [disp EXCEPT ![d] = w]
               /\ UNCHANGED <<startingServer, server, session>>
        BY <1>7, <2>2, <3>4 DEF KickDisplay, startDisplay
      <4> HIDE DEF r
      <4>2. w \in DisplayRecords /\ w.status = "running" /\ w.zstatus = "none"
            /\ w.serverStatus = "awaiting"
        BY <3>2 DEF DisplayRecords, ServerStatuses
      <4>3. server[d] = "none"
        BY <3>4 DEF NeedsServer
      <4> HIDE DEF w
      <4>4. z \in DisplayRecords /\ z.status = "running" /\ z.zstatus = "none"
        BY <4>2 DEF DisplayRecords
      <4> HIDE DEF z
      <4>5. CASE StartServerOnce(d, z) /\ UNCHANGED session
        BY <1>0, <1>d, <2>1, <3>1, <4>4, <4>5, StartServerOnceOK
      <4>6. CASE /\ disp' = [disp EXCEPT ![d] = w]
                 /\ UNCHANGED <<startingServer, server, session>>
        <5>1. disp'[d] = w /\ \A e \in Displays \ {d} : disp'[e] = disp[e]
          BY <1>0, <4>6 DEF TypeOK
        <5>2. DisplayOK(disp'[d], session'[d], server'[d])
          BY <3>1, <4>2, <4>3, <4>6, <5>1 DEF DisplayOK
        <5> QED
          BY <1>0, <1>d, <2>1, <4>2, <4>6, <5>1, <5>2, OneDisplay
      <4> QED
        BY <4>1, <4>5, <4>6
    <3> QED
      BY <3>3, <3>4
  <2>3. CASE ~(disp[d].status = "notRunning" /\ ~waits)
    <3> DEFINE z == [disp[d] EXCEPT !.startTries = 0]
    <3>1. CASE disp[d].serverStatus = "awaiting" /\ startingServer = None
      <4>1. StartServerOnce(d, z) /\ UNCHANGED session
        BY <1>7, <2>3, <3>1 DEF KickDisplay
      <4>2. disp[d].status = "running" /\ disp[d].zstatus = "none" /\ session[d] = "none"
        BY <1>a, <3>1 DEF DisplayOK
      <4>3. z \in DisplayRecords /\ z.status = "running" /\ z.zstatus = "none"
        BY <1>a, <4>2 DEF DisplayRecords
      <4> HIDE DEF z
      <4> QED
        BY <1>0, <1>d, <2>1, <4>1, <4>2, <4>3, StartServerOnceOK
    <3>2. CASE ~(disp[d].serverStatus = "awaiting" /\ startingServer = None)
      <4>1. /\ disp' = [disp EXCEPT ![d] = disp[d]]
            /\ UNCHANGED <<startingServer, server, session>>
        BY <1>7, <2>3, <3>2 DEF KickDisplay
      <4>2. disp' = disp
        BY <1>0, <4>1 DEF TypeOK
      <4> QED
        BY <1>c, <2>1, <4>1, <4>2
    <3> QED
      BY <3>1, <3>2
  <2> QED
    BY <2>2, <2>3
<1>8. CASE ServerTimeout
  <2>1. UNCHANGED <<ttyWatch, session>>
    BY <1>8 DEF ServerTimeout
  <2>2. CASE UNCHANGED <<disp, startingServer, server>>
    BY <1>c, <2>1, <2>2
  <2>3. CASE ~UNCHANGED <<disp, startingServer, server>>
    <3> DEFINE d == startingServer
               r == disp[d]
    <3>1. d \in Displays /\ r.serverStatus \notin {"ignore", "awaiting"}
      BY <1>0, <1>8, <2>3 DEF ServerTimeout, TypeOK, DisplayRecords, ServerStatuses
    <3>2. r.status = "running" /\ r.zstatus = "none" /\ session[d] = "none"
      BY <1>0, <1>a, <3>1 DEF DisplayOK, Turns, StartersAreLocal
    <3>3. \/ \E st \in {"terminated", "killed"} :
               /\ disp' = [disp EXCEPT ![d].serverStatus = st]
               /\ UNCHANGED <<startingServer, server>>
          \/ StartServerFailed(d, r, server)
          \/ StartServerOnce(d, r)
      BY <1>8, <2>3 DEF ServerTimeout
    <3>4. server \in [Displays -> ServerStates] /\ r \in DisplayRecords
      BY <1>0, <1>a, <3>1 DEF TypeOK
    <3> HIDE DEF d, r
    <3>5. CASE StartServerFailed(d, r, server)
      BY <1>0, <1>d, <2>1, <3>1, <3>2, <3>4, <3>5, StartServerFailedOK
    <3>6. CASE StartServerOnce(d, r)
      BY <1>0, <1>d, <2>1, <3>1, <3>2, <3>4, <3>6, StartServerOnceOK
    <3>7. ASSUME NEW st \in {"terminated", "killed"},
                 disp' = [disp EXCEPT ![d].serverStatus = st],
                 UNCHANGED <<startingServer, server>>
          PROVE  Goal
      <4>1. /\ disp'[d].status = "running" /\ disp'[d].zstatus = "none"
            /\ disp'[d].serverStatus = st
            /\ \A e \in Displays \ {d} : disp'[e] = disp[e]
        BY <1>0, <3>1, <3>2, <3>4, <3>7 DEF TypeOK, DisplayRecords, d, r
      <4>2. DisplayOK(disp'[d], session'[d], server'[d])
        BY <2>1, <3>2, <3>7, <4>1 DEF DisplayOK
      <4> QED
        BY <1>0, <1>d, <2>1, <3>1, <3>7, <4>1, <4>2, OneDisplay
    <3> QED
      BY <3>3, <3>5, <3>6, <3>7
  <2> QED
    BY <2>2, <2>3
<1>9. CASE UtmpTimeout
  BY <1>b, <1>c, <1>9 DEF UtmpTimeout
<1>10. CASE HandleSigterm
  BY <1>3, <1>10 DEF HandleSigterm
<1>11. ASSUME NEW C \in Kdmrc, HandleSighup(C) PROVE Goal
  <2> DEFINE marked == [d \in Displays |-> [disp[d] EXCEPT !.stillThere = FALSE]]
  <2>1. /\ marked \in [Displays -> DisplayRecords]
        /\ \A e \in Displays : /\ marked[e].status = disp[e].status
                               /\ marked[e].zstatus = disp[e].zstatus
                               /\ marked[e].serverStatus = disp[e].serverStatus
    BY <1>a DEF DisplayRecords
  <2>2. rescanConfigs(marked, C) /\ UNCHANGED <<startingServer, session, server, ttyWatch>>
    BY <1>11 DEF HandleSighup
  <2> HIDE DEF marked
  <2> QED
    BY <1>0, <1>d, <2>1, <2>2, RescanOK
<1>12. ASSUME NEW C \in Kdmrc, EndReap(C) PROVE Goal
  <2>1. disp \in [Displays -> DisplayRecords]
    BY <1>0 DEF TypeOK
  <2>2. /\ UNCHANGED disp \/ rescanConfigs(disp, C)
        /\ UNCHANGED <<startingServer, session, server, ttyWatch>>
    BY <1>12 DEF EndReap
  <2> QED
    BY <1>0, <1>c, <1>d, <2>1, <2>2, RescanOK
<1>13. ASSUME NEW d \in Displays, HandleSigusr1(d) PROVE Goal
  <2>1. UNCHANGED <<ttyWatch, startingServer>>
    BY <1>13 DEF HandleSigusr1
  <2>2. CASE UNCHANGED <<disp, session, server>>
    BY <1>c, <2>1, <2>2
  <2>3. CASE /\ startingServer # None
             /\ disp[startingServer].serverStatus = "starting"
             /\ startServerSuccess(startingServer)
    <3> DEFINE e == startingServer
               r == [disp[e] EXCEPT !.serverStatus = "ignore"]
    <3>1. e \in Displays
      BY <1>0, <2>3 DEF TypeOK
    <3>2. disp[e].status = "running" /\ disp[e].zstatus = "none" /\ session[e] = "none"
      BY <1>0, <1>a, <2>3, <3>1 DEF DisplayOK, Turns, StartersAreLocal
    <3>3. /\ r \in DisplayRecords
          /\ r.status = "running" /\ r.zstatus = "none" /\ r.serverStatus = "ignore"
      BY <1>a, <3>1, <3>2 DEF DisplayRecords, ServerStatuses
    <3>4. StartDisplayP2(e, r)
      BY <2>3 DEF startServerSuccess
    <3> HIDE DEF e, r
    <3> QED
      BY <1>0, <1>d, <2>1, <3>1, <3>2, <3>3, <3>4, StartDisplayP2OK
  <2> QED
    BY <1>13, <2>2, <2>3 DEF HandleSigusr1
<1>14. ASSUME NEW d \in Displays, ReapSession(d) PROVE Goal
  <2> DEFINE se == [session EXCEPT ![d] = "none"]
             r  == [disp[d] EXCEPT !.userSess = FALSE]
             tries == [r EXCEPT !.startTries = r.startTries + 1]
             zero == [r EXCEPT !.startTries = 0]
             Same(s) == /\ s \in DisplayRecords
                        /\ s.zstatus = disp[d].zstatus
                        /\ s.serverStatus = "ignore"
  <2>1. session[d] # "none"
    BY <1>14 DEF ReapSession, DeadSession, ExitCodes
  <2>2. disp[d].serverStatus = "ignore"
    BY <1>a, <2>1 DEF DisplayOK
  <2>3. Same(r) /\ r.status = disp[d].status
    BY <1>a, <2>2 DEF DisplayRecords
  <2>4. Same(zero) /\ Same(tries)
    <3> HIDE DEF r
    <3>1. r.startTries + 1 \in Nat
      BY <2>3 DEF DisplayRecords
    <3>2. \A n \in Nat : Same([r EXCEPT !.startTries = n])
      BY <2>3 DEF DisplayRecords
    <3> QED
      BY <3>1, <3>2
  <2>5. EndState(d, session[d]) \in {"remove", "reserve", "remoteLogin", "restart"}
    BY DEF EndState
  <2>6. r.status = "zombie" => r.zstatus \in Fates /\ (r.zstatus = "textMode" => ConsoleTTYs)
    BY <1>a, <2>3 DEF DisplayOK, DisplayRecords
  <2>7. \/ \E fate \in Fates :
             /\ fate = "textMode" => ConsoleTTYs
             /\ \/ StopDisplayTo(d, r, fate, se, server)
                \/ StopDisplayTo(d, tries, fate, se, server)
        \/ /\ disp[d].status # "zombie"
           /\ \E keep \in BOOLEAN : \/ RestartDisplay(d, r, keep, se)
                                    \/ RestartDisplay(d, zero, keep, se)
                                    \/ RestartDisplay(d, tries, keep, se)
    BY <1>14, <2>3, <2>5, <2>6 DEF ReapSession, Fates
  <2>8. /\ se \in [Displays -> SessionStates] /\ server \in [Displays -> ServerStates]
        /\ se[d] = "none"
        /\ \A e \in Displays \ {d} : se[e] = session[e]
    BY <1>0 DEF TypeOK, SessionStates
  <2> HIDE DEF r, tries, zero, se
  <2>9. ASSUME NEW fate \in Fates, fate = "textMode" => ConsoleTTYs, NEW s, Same(s),
               StopDisplayTo(d, s, fate, se, server)
        PROVE  Goal
    BY <1>0, <2>8, <2>9, StopDisplayToOK
  <2>10. ASSUME NEW keep, NEW s, Same(s), disp[d].status # "zombie",
                RestartDisplay(d, s, keep, se)
         PROVE  Goal
    <3> DEFINE st == IF KillsServer(d, keep) THEN "phoenix" ELSE "notRunning"
               n == [s EXCEPT !.status = st]
    <3>1. n.status = st /\ n.zstatus = "none" /\ n.serverStatus = "ignore"
      BY <1>a, <2>10 DEF DisplayOK, DisplayRecords
    <3>2. st \in {"phoenix", "notRunning"} /\ (st = "phoenix" => server[d] # "none")
      BY DEF KillsServer
    <3>3. disp' = [disp EXCEPT ![d] = n] /\ session' = se
          /\ UNCHANGED <<startingServer, server, ttyWatch>>
      BY <2>10 DEF RestartDisplay
    <3> HIDE DEF n, st
    <3>4. disp'[d] = n /\ \A e \in Displays \ {d} : disp'[e] = disp[e]
      BY <1>0, <3>3 DEF TypeOK
    <3>5. DisplayOK(disp'[d], session'[d], server'[d])
      BY <2>8, <3>1, <3>2, <3>3, <3>4 DEF DisplayOK
    <3> QED
      BY <1>0, <1>d, <2>8, <3>1, <3>2, <3>3, <3>4, <3>5, OneDisplay
  <2> QED
    BY <2>3, <2>4, <2>7, <2>9, <2>10
<1>15. ASSUME NEW d \in Displays, ReapServer(d) PROVE Goal
  <2> DEFINE sv == [server EXCEPT ![d] = "none"]
  <2>1. /\ sv \in [Displays -> ServerStates] /\ session \in [Displays -> SessionStates]
        /\ sv[d] = "none"
        /\ \A e \in Displays \ {d} : sv[e] = server[e]
    BY <1>0 DEF TypeOK, ServerStates
  <2>2. server[d] = "dead"
    BY <1>15 DEF ReapServer, DeadServer
  <2>3. disp[d].serverStatus # "awaiting"
    BY <1>a, <2>2 DEF DisplayOK
  <2>4. CASE disp[d].status = "zombie"
    <3>1. StopDisplayTo(d, disp[d], disp[d].zstatus, session, sv)
      BY <1>15, <2>4 DEF ReapServer
    <3>2. disp[d].zstatus \in Fates /\ (disp[d].zstatus = "textMode" => ConsoleTTYs)
      BY <1>a, <2>4 DEF DisplayOK, DisplayRecords
    <3>3. disp[d].serverStatus # "ignore" =>
            session[d] = "none" /\ disp[d].zstatus \in {"remove", "textMode"}
      BY <1>a, <2>2, <2>3, <2>4 DEF DisplayOK
    <3> HIDE DEF sv
    <3> QED
      BY <1>0, <1>a, <2>1, <2>3, <3>1, <3>2, <3>3, StopDisplayToOK
  <2>5. CASE /\ disp[d].status = "running" /\ startingServer = d
             /\ disp[d].serverStatus # "ignore"
    <3>1. StartServerFailed(d, disp[d], sv) /\ UNCHANGED <<session, ttyWatch>>
      BY <1>15, <2>5 DEF ReapServer
    <3>2. disp[d].zstatus = "none" /\ session[d] = "none"
      BY <1>a, <2>3, <2>5 DEF DisplayOK
    <3> HIDE DEF sv
    <3> QED
      BY <1>0, <1>a, <1>d, <2>1, <2>5, <3>1, <3>2, StartServerFailedOK
  <2>6. CASE ~(\/ disp[d].status = "zombie"
               \/ /\ disp[d].status = "running" /\ startingServer = d
                  /\ disp[d].serverStatus # "ignore")
    <3>1. server' = sv /\ UNCHANGED <<startingServer, session, ttyWatch>>
      BY <1>15, <2>6 DEF ReapServer
    <3>2. IF disp[d].status \in {"phoenix", "remoteLogin"}
          THEN \E st \in {"notRunning", "reserve"} : disp' = [disp EXCEPT ![d].status = st]
          ELSE disp' = disp
      BY <1>15, <2>6 DEF ReapServer
    <3>3. server'[d] = "none" /\ \A e \in Displays \ {d} : server'[e] = server[e]
      BY <2>1, <3>1
    <3> HIDE DEF sv
    <3>4. CASE disp' = disp /\ disp[d].status \notin {"phoenix", "remoteLogin"}
      <4>1. DisplayOK(disp'[d], session'[d], server'[d])
        BY <1>a, <2>6, <3>1, <3>3, <3>4 DEF DisplayOK
      <4>2. startingServer = d => disp[d].status \in
              {"running", "raiser", "phoenix", "notRunning", "reserve"}
        BY <1>0, ConfigAssumption DEF NoDanglingStart
      <4> QED
        BY <1>0, <1>d, <3>1, <3>3, <3>4, <4>1, <4>2, OneDisplay
    <3>5. ASSUME NEW st \in {"notRunning", "reserve"},
                 disp' = [disp EXCEPT ![d].status = st],
                 disp[d].status \in {"phoenix", "remoteLogin"}
          PROVE  Goal
      <4>1. disp[d].zstatus = "none" /\ disp[d].serverStatus = "ignore"
            /\ session[d] = "none"
        BY <1>a, <3>5 DEF DisplayOK
      <4>2. /\ disp'[d].status = st /\ disp'[d].zstatus = "none"
            /\ disp'[d].serverStatus = "ignore"
            /\ \A e \in Displays \ {d} : disp'[e] = disp[e]
        BY <1>0, <1>a, <3>5, <4>1 DEF TypeOK, DisplayRecords
      <4>3. DisplayOK(disp'[d], session'[d], server'[d])
        BY <3>1, <3>3, <4>1, <4>2 DEF DisplayOK
      <4> QED
        BY <1>0, <1>d, <3>1, <3>3, <4>2, <4>3, OneDisplay
    <3> QED
      BY <3>2, <3>4, <3>5
  <2> QED
    BY <2>4, <2>5, <2>6
<1>16. ASSUME NEW d \in Displays, RecvXConnOk(d) PROVE Goal
  BY <1>0, <1>16 DEF RecvXConnOk, DisplaysOK, NoDanglingStart, WatchOK
<1>17. ASSUME NEW d \in Displays, RecvUser(d) \/ \E s : RecvUnUser(d, s) PROVE Goal
  <2>1. UNCHANGED <<startingServer, session, server, ttyWatch>>
        /\ \E b \in BOOLEAN : disp' = [disp EXCEPT ![d].userSess = b]
    BY <1>17 DEF RecvUser, RecvUnUser
  <2>2. \A e \in Displays : /\ disp'[e].status = disp[e].status
                            /\ disp'[e].zstatus = disp[e].zstatus
                            /\ disp'[e].serverStatus = disp[e].serverStatus
    BY <1>0, <1>a, <2>1 DEF TypeOK, DisplayRecords
  <2>3. DisplaysOK'
    BY <1>0, <1>d, <2>1, <2>2 DEF DisplaysOK, DisplayOK
  <2>4. NoDanglingStart'
    BY <1>0, <1>d, <2>1, <2>2 DEF NoDanglingStart, TypeOK
  <2> QED
    BY <1>0, <1>d, <2>1, <2>3, <2>4
<1>18. ASSUME NEW S, disp' = StopAll(S, "remove"), AbortStartServer(S),
              UNCHANGED <<session, server, ttyWatch>>
       PROVE  Goal
  BY <1>0, <1>d, <1>18, StopAllOK
<1>19. ASSUME NEW d \in Displays, NEW st \in {"raiser", "notRunning"},
              disp' = [disp EXCEPT ![d].status = st],
              \/ st = "raiser" /\ disp[d].status = "running" /\ session[d] # "none"
              \/ st = "notRunning" /\ disp[d].status = "reserve",
              UNCHANGED <<startingServer, session, server, ttyWatch>>
       PROVE  Goal
  <2>1. disp[d].zstatus = "none"
    BY <1>a, <1>19 DEF DisplayOK
  <2>2. /\ disp'[d].status = st /\ disp'[d].zstatus = "none"
        /\ disp'[d].serverStatus = disp[d].serverStatus
        /\ \A e \in Displays \ {d} : disp'[e] = disp[e]
    BY <1>0, <1>a, <1>19, <2>1 DEF TypeOK, DisplayRecords
  <2>3. session[d] # "none" => st = "raiser"
    BY <1>a, <1>19 DEF DisplayOK
  <2>4. DisplayOK(disp'[d], session'[d], server'[d])
    BY <1>a, <1>19, <2>2, <2>3 DEF DisplayOK
  <2> QED
    BY <1>0, <1>d, <1>19, <2>2, <2>4, OneDisplay
<1>20. CASE CmdResume
  BY <1>b, <1>20 DEF CmdResume
<1>21. ASSUME NEW d \in Displays, disp[d].status = "absent",
              disp' = [disp EXCEPT ![d] = NewDisplay(d)],
              UNCHANGED <<startingServer, session, server, ttyWatch>>
       PROVE  Goal
  <2>1. session[d] = "none" /\ server[d] = "none"
    BY <1>a, <1>21 DEF DisplayOK
  <2>2. disp'[d] = NewDisplay(d) /\ \A e \in Displays \ {d} : disp'[e] = disp[e]
    BY <1>0, <1>21 DEF TypeOK
  <2>3. DisplayOK(disp'[d], session'[d], server'[d])
        /\ disp'[d].status \in {"reserve", "notRunning"}
    BY <1>21, <2>1, <2>2, NewDisplayOK DEF DisplayOK
  <2> QED
    BY <1>0, <1>d, <1>21, <2>2, <2>3, OneDisplay
<1>22. ASSUME NEW C \in Kdmrc, CancelShutdown(C) PROVE Goal
  BY <1>4, <1>22 DEF CancelShutdown
<1>23. CASE \E s \in {NoShutdown} \cup Schedules : RequestShutdown(s)
  BY <1>c, <1>23 DEF RequestShutdown
<1>24. ASSUME NEW d \in Displays,
              ServerReady(d) \/ ServerExit(d) \/ SessionConnect(d) \/ SessionExit(d)
       PROVE  Goal
  <2>1. UNCHANGED masterVars
    BY <1>24 DEF ServerReady, ServerExit, SessionConnect, SessionExit
  <2>2. PossibleExits(d) \subseteq ExitCodes
    BY DEF PossibleExits, ExitCodes
  <2>3. \A e \in Displays : /\ (session'[e] = "none") <=> (session[e] = "none")
                            /\ (server'[e] = "none") <=> (server[e] = "none")
    BY <1>0, <1>24, <2>2
    DEF ServerReady, ServerExit, SessionConnect, SessionExit, TypeOK, ExitCodes
  <2>4. DisplaysOK'
    BY <1>0, <1>d, <2>1, <2>3 DEF DisplaysOK, DisplayOK
  <2> QED
    BY <1>0, <1>d, <2>1, <2>4 DEF NoDanglingStart
<1>25. CASE UNCHANGED vars
  BY <1>c, <1>25 DEF vars
<1>26. CASE MainLoop
  BY <1>1, <1>2, <1>5, <1>6, <1>7, <1>26 DEF MainLoop
<1>27. CASE Timeouts
  BY <1>8, <1>9, <1>27 DEF Timeouts
<1>28. CASE Signals
  BY <1>10, <1>11, <1>12, <1>13, <1>14, <1>15, <1>28 DEF Signals
<1>29. CASE Messages
  <2>1. ASSUME NEW d \in Displays, RecvGarbage(d) PROVE Goal
    BY <1>18, <2>1 DEF RecvGarbage
  <2>2. ASSUME NEW d \in Displays, RecvConsole(d) PROVE Goal
    <3> DEFINE S == {e \in Managed \cap Local : disp[e].status \notin {"reserve", "textMode"}}
               list == StopAll(S, "textMode")
    <3>1. /\ ConsoleTTYs /\ pc \in {"select", "dispatch"}
          /\ d \in Local /\ session[d] = "connected" /\ d \notin xconn
          /\ CheckTTYMode(list) /\ AbortStartServer(S)
          /\ UNCHANGED <<session, server>>
      BY <2>2 DEF RecvConsole, Dispatch
    <3>2. \A e \in Displays :
            list[e] = IF e \in S
                      THEN Stopped(e, disp[e], session[e] # "none" \/ server[e] # "none", "textMode")
                      ELSE disp[e]
      BY DEF StopAll
    <3>3. \A e \in Displays : disp[e].serverStatus = "awaiting" => startingServer = e
      BY <1>0, <3>1 DEF Turns, TurnsAreTaken, Awaiting
    <3>4. \A e \in Displays : list[e] \in DisplayRecords /\ DisplayOK(list[e], session[e], server[e])
      BY <1>a, <3>1, <3>2, <3>3, StoppedOK, StoppedType DEF Fates
    <3>5. list \in [Displays -> DisplayRecords]
      BY <3>4 DEF StopAll
    <3>6. startingServer' # None => startingServer' = startingServer /\ startingServer \notin S
      BY <3>1 DEF AbortStartServer
    <3>7. disp' = list \/ disp' = WakeDisplays(list)
      BY <3>1 DEF CheckTTYMode, SwitchToTTY
    <3>8. startingServer' # None => list[startingServer'].status \in
            {"running", "raiser", "phoenix", "notRunning", "reserve"}
      BY <1>0, <3>2, <3>6 DEF NoDanglingStart, TypeOK
    <3> HIDE DEF list
    <3> QED
      BY <1>0, <3>1, <3>4, <3>5, <3>7, <3>8, ConsoleOK
  <2> QED
    BY <1>16, <1>17, <1>29, <2>1, <2>2 DEF Messages
<1>30. CASE Commands
  <2>1. ASSUME NEW d \in Displays, NEW now \in BOOLEAN, CmdLogin(d, now) PROVE Goal
    BY <1>19, <2>1 DEF CmdLogin, OnlyDisp
  <2>2. ASSUME NEW d \in Displays, CmdSuicide(d) \/ CmdReserve(d) PROVE Goal
    BY <1>19, <2>2 DEF CmdSuicide, CmdReserve, OnlyDisp
  <2>3. ASSUME NEW d \in Displays, CmdManage(d) PROVE Goal
    BY <1>21, <2>3 DEF CmdManage, OnlyDisp
  <2>4. ASSUME NEW d \in Displays, CmdUnmanage(d) PROVE Goal
    BY <1>18, <2>4 DEF CmdUnmanage
  <2> QED
    BY <1>20, <1>22, <1>23, <1>30, <2>1, <2>2, <2>3, <2>4 DEF Commands
<1>33. CASE Packets
  BY <1>0, <1>d, <1>18, <1>33, ManageOK DEF Packets, XdmcpManage
<1>31. CASE Children
  BY <1>24, <1>31 DEF Children
<1>32. CASE Terminated
  BY <1>25, <1>32 DEF Terminated
<1> QED
  BY <1>25, <1>26, <1>27, <1>28, <1>29, <1>30, <1>31, <1>32, <1>33 DEF Next

-----------------------------------------------------------------------------
(* The turns are inductive *)

\* A step that leaves display e where it is in server.c, or takes it out of there.
Still(e) ==
  /\ disp'[e].serverStatus \in {disp[e].serverStatus, "ignore"}
  /\ disp'[e].userSess => disp[e].userSess /\ session'[e] # "none"
  /\ startingServer' \in {startingServer, None}
  /\ startingServer' = e => \/ disp'[e].status = disp[e].status
                            \/ disp'[e].serverStatus = "ignore"
                            \/ disp[e].status # "running"

\* What is left of StartersAreLocal and UsersHaveSession to be shown of a step.
KeepsTurn(e) ==
  /\ disp'[e].serverStatus # "ignore" => disp[e].serverStatus # "ignore"
  /\ disp'[e].serverStatus = "awaiting" => disp[e].serverStatus = "awaiting"
  /\ disp'[e].userSess => session'[e] # "none"
  /\ startingServer' = e =>
       /\ startingServer = e
       /\ disp'[e].serverStatus \in {"ignore", "awaiting"} \/ disp'[e].status = "running"

LEMMA StillKeeps == ASSUME IInv, NEW e \in Displays, Still(e) PROVE KeepsTurn(e)
<1>1. startingServer' = e => startingServer = e
  BY ConfigAssumption DEF Still
<1>2. startingServer = e => disp[e].serverStatus \in {"ignore", "awaiting"} \/ disp[e].status = "running"
  BY IInvParts DEF Turns, StartersAreLocal
<1> QED
  BY <1>1, <1>2 DEF Still, KeepsTurn

\* Nothing happens to a display.
LEMMA SameStill ==
  ASSUME IInv, NEW e \in Displays, disp'[e] = disp[e],
         session'[e] = "none" => session[e] = "none", startingServer' \in {startingServer, None}
  PROVE  Still(e)
BY IInvParts DEF Still, Turns, UsersHaveSession

\* stopDisplay() for a set of displays.
LEMMA StopAllStill ==
  ASSUME IInv, NEW S, NEW fate, AbortStartServer(S), UNCHANGED session, NEW e \in Displays,
         disp'[e] = StopAll(S, fate)[e]
  PROVE  Still(e)
<1>1. disp[e] \in DisplayRecords
  BY IInvParts DEF TypeOK
<1>2. startingServer' \in {startingServer, None} /\ (startingServer' = e => e \notin S)
  BY ConfigAssumption DEF AbortStartServer
<1>3. CASE e \notin S
  BY <1>2, <1>3, SameStill DEF StopAll
<1>4. CASE e \in S
  <2> DEFINE alive == session[e] # "none" \/ server[e] # "none"
  <2>1. disp'[e] = Stopped(e, disp[e], alive, fate)
    BY <1>4 DEF StopAll
  <2>2. /\ Stopped(e, disp[e], alive, fate).serverStatus \in {disp[e].serverStatus, "ignore"}
        /\ Stopped(e, disp[e], alive, fate).userSess => disp[e].userSess
    BY <1>1 DEF Stopped, Absent, DisplayRecords
  <2>3. disp[e].userSess => session[e] # "none"
    BY IInvParts DEF Turns, UsersHaveSession
  <2> QED
    BY <1>2, <1>4, <2>1, <2>2, <2>3 DEF Still
<1> QED
  BY <1>3, <1>4

\* rescanConfigs() on a list that differs from disp in stillThere at most.
LEMMA RescanStill ==
  ASSUME IInv, NEW C, NEW list \in [Displays -> DisplayRecords],
         \A e \in Displays : /\ list[e].status = disp[e].status
                             /\ list[e].serverStatus = disp[e].serverStatus
                             /\ list[e].userSess = disp[e].userSess,
         rescanConfigs(list, C), UNCHANGED <<startingServer, session>>, NEW e \in Displays
  PROVE  Still(e)
<1>1. disp[e].userSess => session[e] # "none"
  BY IInvParts DEF Turns, UsersHaveSession
<1>2. CASE disp' = list
  BY <1>1, <1>2 DEF Still
<1>3. CASE disp' = ScanServers(list, C)
  <2>1. list[e] \in DisplayRecords /\ disp'[e] = ScanServers(list, C)[e]
    BY <1>3
  <2>2. CASE e \in C /\ list[e].status = "absent"
    <3>1. disp'[e] = NewDisplay(e)
      BY <1>3, <2>2 DEF ScanServers
    <3>2. ~NewDisplay(e).userSess
      BY DEF NewDisplay, Absent
    <3> QED
      BY <2>2, <3>1, <3>2, NewDisplayOK DEF Still
  <2>3. CASE ~(e \in C /\ list[e].status = "absent")
    <3>1. /\ disp'[e].serverStatus = list[e].serverStatus
          /\ disp'[e].userSess = list[e].userSess
          /\ disp'[e].status = list[e].status \/ list[e].status # "running"
      BY <2>1, <2>3 DEF ScanServers, DisplayRecords
    <3> QED
      BY <1>1, <3>1 DEF Still
  <2> QED
    BY <2>2, <2>3
<1> QED
  BY <1>2, <1>3 DEF rescanConfigs

\* wakeDisplays() or not, on a list in which startingServer is not at the console.
LEMMA WakeStill ==
  ASSUME IInv, NEW list \in [Displays -> DisplayRecords], NEW e \in Displays,
         disp' = list \/ disp' = WakeDisplays(list), UNCHANGED session,
         list[e].serverStatus \in {disp[e].serverStatus, "ignore"},
         list[e].userSess => disp[e].userSess,
         startingServer' \in {startingServer, None},
         startingServer' = e => list[e] = disp[e]
  PROVE  Still(e)
<1>1. disp[e].userSess => session[e] # "none"
  BY IInvParts DEF Turns, UsersHaveSession
<1>2. /\ disp'[e].serverStatus = list[e].serverStatus
      /\ disp'[e].userSess = list[e].userSess
      /\ disp'[e].status = list[e].status \/ list[e].status # "running"
  BY DEF WakeDisplays, DisplayRecords
<1> QED
  BY <1>1, <1>2 DEF Still

\* rStopDisplay() for a display of which a process has been reaped.
LEMMA StopDisplayToStill ==
  ASSUME IInv, NEW d \in Displays, NEW r \in DisplayRecords, NEW fate \in Fates,
         r.serverStatus = disp[d].serverStatus, NEW se, NEW sv,
         \A e \in Displays \ {d} : se[e] = session[e], r.userSess => disp[d].userSess /\ se[d] # "none",
         StopDisplayTo(d, r, fate, se, sv), NEW e \in Displays
  PROVE  Still(e)
<1>1. DisplaysOK /\ NoDanglingStart /\ TypeOK /\ UsersHaveSession
  BY IInvParts DEF Turns
<1> DEFINE s == Stopped(d, r, se[d] # "none" \/ sv[d] # "none", fate)
           list == [disp EXCEPT ![d] = s]
           n == [list EXCEPT ![d].status = "notRunning"]
<1>2. /\ session' = se
      /\ startingServer' = IF startingServer = d THEN None ELSE startingServer
  BY DEF StopDisplayTo, AbortStartServer
<1>3. /\ s \in DisplayRecords /\ s.serverStatus \in {r.serverStatus, "ignore"}
      /\ s.userSess => r.userSess
  <2>1. s \in DisplayRecords
    BY StoppedType
  <2> QED
    BY <2>1 DEF Stopped, Absent, DisplayRecords
<1>4. disp' = list \/ disp' = n \/ disp' = WakeDisplays(list)
  BY DEF StopDisplayTo, CheckTTYMode, SwitchToTTY
<1> HIDE DEF s
<1>5. list \in [Displays -> DisplayRecords] /\ \A x \in Displays : list[x] = IF x = d THEN s ELSE disp[x]
  BY <1>1, <1>3 DEF TypeOK
<1> HIDE DEF list
<1>6. \A x \in Displays : /\ disp'[x].serverStatus = list[x].serverStatus
                          /\ disp'[x].userSess = list[x].userSess
                          /\ \/ disp'[x].status = list[x].status \/ list[x].status # "running"
                             \/ x = d
  <2>1. CASE disp' = list
    BY <2>1
  <2>2. CASE disp' = n
    BY <1>5, <2>2 DEF DisplayRecords
  <2>3. CASE disp' = WakeDisplays(list)
    BY <1>5, <2>3 DEF WakeDisplays, DisplayRecords
  <2> QED
    BY <1>4, <2>1, <2>2, <2>3
<1>7. startingServer' \in {startingServer, None} /\ startingServer' # d
  BY <1>2, ConfigAssumption
<1>8. CASE e = d
  BY <1>2, <1>3, <1>5, <1>6, <1>7, <1>8 DEF Still
<1>9. CASE e # d
  BY <1>1, <1>2, <1>5, <1>6, <1>7, <1>9 DEF Still, UsersHaveSession
<1> QED
  BY <1>8, <1>9

\* A change of one display, e.g. of its status.
LEMMA OneStill ==
  ASSUME IInv, NEW d \in Displays, NEW r, disp' = [disp EXCEPT ![d] = r],
         \A x \in Displays \ {d} : session'[x] = session[x],
         startingServer' \in {startingServer, None}, Still(d), NEW e \in Displays
  PROVE  Still(e)
<1>1. disp \in [Displays -> DisplayRecords]
  BY IInvParts DEF TypeOK
<1>2. e # d => disp'[e] = disp[e] /\ session'[e] = session[e]
  BY <1>1
<1> QED
  BY <1>2, SameStill

\* No step but one of kickDisplay() gives a display a turn; one step per action.
LEMMA TurnsKept ==
  ASSUME IInv, [Next]_vars, \A d \in Displays, waits \in BOOLEAN : ~KickDisplay(d, waits),
         NEW e \in Displays
  PROVE  KeepsTurn(e)
<1>0. TypeOK /\ DisplaysOK /\ NoDanglingStart /\ TypeOK' /\ Turns
  BY IInvParts, TypeStep
<1> USE DEF masterVars, childVars
<1>a. \A d \in Displays : /\ disp[d] \in DisplayRecords
                          /\ DisplayOK(disp[d], session[d], server[d])
                          /\ disp[d].userSess => session[d] # "none"
  BY <1>0 DEF TypeOK, DisplaysOK, Turns, UsersHaveSession
<1>b. disp \in [Displays -> DisplayRecords]
  BY <1>0 DEF TypeOK
<1>c. Still(e) => KeepsTurn(e)
  BY StillKeeps
<1>d. ASSUME UNCHANGED <<disp, startingServer, session>> PROVE Still(e)
  BY <1>d, SameStill
<1>e. ASSUME NEW S, NEW fate, disp' = StopAll(S, fate), AbortStartServer(S), UNCHANGED session
      PROVE  Still(e)
  BY <1>e, StopAllStill
<1>f. ASSUME NEW C, rescanConfigs(disp, C), UNCHANGED <<startingServer, session>> PROVE Still(e)
  BY <1>b, <1>f, RescanStill
<1>1. CASE MainLoop
  <2>1. CASE LoopTop
    <3>1. \/ UNCHANGED <<disp, startingServer>>
          \/ \E S : disp' = StopAll(S, "remove") /\ AbortStartServer(S)
      BY <2>1 DEF LoopTop
    <3> QED
      BY <1>c, <1>d, <1>e, <2>1, <3>1 DEF LoopTop
  <2>2. CASE ShutdownWaits \/ ShutdownExpires
    <3>1. /\ \/ \E S : disp' = StopAll(S, "remove") /\ AbortStartServer(S)
             \/ UNCHANGED startingServer /\ \E C : rescanConfigs(disp, C)
          /\ UNCHANGED session
      BY <2>2 DEF ShutdownWaits, ShutdownExpires, stoppen, cancelShutdown
    <3> QED
      BY <1>c, <1>e, <1>f, <3>1
  <2>3. CASE NoShutdownDue \/ NothingElse
    BY <1>c, <1>d, <2>3 DEF NoShutdownDue, NothingElse
  <2> QED
    BY <1>1, <2>1, <2>2, <2>3 DEF MainLoop
<1>2. ASSUME UNCHANGED <<startingServer, session>>, disp' = WakeDisplays(disp) PROVE Still(e)
  BY <1>b, <1>2, WakeStill
<1>3. ASSUME NEW d \in Displays, NEW r \in DisplayRecords, NEW sv, StartServerFailed(d, r, sv),
             r.serverStatus \notin {"ignore", "awaiting"}, r.status = "running", ~r.userSess,
             startingServer = d, disp[d].serverStatus # "ignore", UNCHANGED session
      PROVE  KeepsTurn(e)
  <2> DEFINE p == [r EXCEPT !.serverStatus = "pausing"]
             i == [r EXCEPT !.serverStatus = "ignore"]
             s == Stopped(d, i, session[d] # "none" \/ sv[d] # "none", "remove")
  <2>1. p.serverStatus = "pausing" /\ p.status = "running" /\ ~p.userSess
    BY <1>3 DEF DisplayRecords
  <2>2. i \in DisplayRecords /\ i.serverStatus = "ignore" /\ ~i.userSess
    BY <1>3 DEF DisplayRecords, ServerStatuses
  <2>3. s.serverStatus = "ignore" /\ ~s.userSess
    <3> HIDE DEF i
    <3> QED BY <2>2 DEF Stopped, Absent, DisplayRecords
  <2>4. \/ disp' = [disp EXCEPT ![d] = p] /\ startingServer' = d
        \/ disp' = [disp EXCEPT ![d] = s] /\ startingServer' = None
    BY <1>3 DEF StartServerFailed
  <2> HIDE DEF p, i, s
  <2>5. CASE e = d
    <3>1. \/ disp'[d] = p /\ startingServer' = d
          \/ disp'[d] = s /\ startingServer' = None
      BY <1>b, <2>4
    <3> QED
      BY <1>3, <2>1, <2>3, <2>5, <3>1, ConfigAssumption DEF KeepsTurn
  <2>6. CASE e # d
    <3>1. disp'[e] = disp[e] /\ startingServer' \in {startingServer, None}
      BY <1>3, <1>b, <2>4, <2>6
    <3> QED
      BY <1>3, <1>c, <3>1, SameStill
  <2> QED
    BY <2>5, <2>6
<1>4. CASE ServerTimeout
  <2>1. CASE UNCHANGED <<disp, startingServer>>
    BY <1>4, <1>c, <1>d, <2>1 DEF ServerTimeout
  <2>2. CASE ~UNCHANGED <<disp, startingServer>>
    <3> DEFINE d == startingServer
               r == disp[d]
               t == [r EXCEPT !.startTries = r.startTries + 1, !.serverStatus = "starting"]
               sv == [server EXCEPT ![d] = "none"]
    <3>1. d \in Displays /\ r.serverStatus \notin {"ignore", "awaiting"}
      BY <1>0, <1>4, <2>2 DEF ServerTimeout, TypeOK, DisplayRecords, ServerStatuses
    <3>2. /\ r \in DisplayRecords /\ r.status = "running" /\ ~r.userSess
          /\ session[d] = "none"
      BY <1>0, <1>a, <3>1 DEF DisplayOK, Turns, StartersAreLocal
    <3>3. /\ t \in DisplayRecords /\ t.status = "running" /\ ~t.userSess
          /\ t.serverStatus = "starting"
      <4>1. r.startTries + 1 \in Nat
        BY <3>2 DEF DisplayRecords
      <4>2. \A n \in Nat : LET x == [r EXCEPT !.startTries = n, !.serverStatus = "starting"] IN
              /\ x \in DisplayRecords /\ x.status = "running" /\ ~x.userSess
              /\ x.serverStatus = "starting"
        BY <3>2 DEF DisplayRecords, ServerStatuses
      <4> QED
        BY <4>1, <4>2
    <3>4. /\ UNCHANGED session
          /\ \/ \E st \in {"terminated", "killed"} :
                  disp' = [disp EXCEPT ![d].serverStatus = st] /\ UNCHANGED startingServer
             \/ StartServerFailed(d, r, server)
             \/ disp' = [disp EXCEPT ![d] = t] /\ startingServer' = d
             \/ StartServerFailed(d, t, sv)
      BY <1>4, <2>2 DEF ServerTimeout, StartServerOnce
    <3> HIDE DEF t, sv, r
    <3>5. CASE StartServerFailed(d, r, server)
      BY <1>3, <3>1, <3>2, <3>4, <3>5 DEF r
    <3>6. CASE StartServerFailed(d, t, sv)
      BY <1>3, <3>1, <3>3, <3>4, <3>6 DEF r
    <3>7. ASSUME NEW u, disp' = [disp EXCEPT ![d] = u], startingServer' = d, u.status = "running",
                 ~u.userSess, u.serverStatus \notin {"ignore", "awaiting"}
          PROVE  KeepsTurn(e)
      <4>1. CASE e = d
        <5>1. disp'[d] = u
          BY <1>b, <3>1, <3>7
        <5> QED
          BY <3>1, <3>7, <4>1, <5>1 DEF KeepsTurn, r
      <4>2. CASE e # d
        BY <1>b, <1>c, <3>4, <3>7, <4>2, SameStill
      <4> QED
        BY <4>1, <4>2
    <3>8. ASSUME NEW st \in {"terminated", "killed"}, disp' = [disp EXCEPT ![d].serverStatus = st],
                 UNCHANGED startingServer
          PROVE  KeepsTurn(e)
      <4> DEFINE u == [r EXCEPT !.serverStatus = st]
      <4>1. u.status = "running" /\ ~u.userSess /\ u.serverStatus = st
        BY <3>2 DEF DisplayRecords
      <4>2. disp' = [disp EXCEPT ![d] = u]
        BY <3>8 DEF r
      <4> QED
        BY <3>7, <3>8, <4>1, <4>2
    <3> QED
      BY <3>3, <3>4, <3>5, <3>6, <3>7, <3>8
  <2> QED
    BY <2>1, <2>2
<1>5. CASE UtmpTimeout
  BY <1>2, <1>5, <1>c, <1>d DEF UtmpTimeout
<1>6. CASE HandleSigterm
  BY <1>6, <1>c, <1>e DEF HandleSigterm, stoppen
<1>7. ASSUME NEW C \in Kdmrc, HandleSighup(C) PROVE Still(e)
  <2> DEFINE marked == [d \in Displays |-> [disp[d] EXCEPT !.stillThere = FALSE]]
  <2>1. /\ marked \in [Displays -> DisplayRecords]
        /\ \A x \in Displays : /\ marked[x].status = disp[x].status
                               /\ marked[x].serverStatus = disp[x].serverStatus
                               /\ marked[x].userSess = disp[x].userSess
    BY <1>a DEF DisplayRecords
  <2>2. rescanConfigs(marked, C) /\ UNCHANGED <<startingServer, session>>
    BY <1>7 DEF HandleSighup
  <2> HIDE DEF marked
  <2> QED
    BY <2>1, <2>2, RescanStill
<1>8. ASSUME NEW C \in Kdmrc, EndReap(C) PROVE Still(e)
  BY <1>8, <1>d, <1>f DEF EndReap
<1>9. ASSUME NEW d \in Displays, HandleSigusr1(d) PROVE Still(e)
  <2>1. CASE UNCHANGED <<disp, session>>
    BY <1>9, <1>d, <2>1 DEF HandleSigusr1
  <2>2. CASE /\ startingServer # None
             /\ startServerSuccess(startingServer)
    <3> DEFINE x == startingServer
               r == [disp[x] EXCEPT !.serverStatus = "ignore"]
               n == [r EXCEPT !.status = "notRunning"]
    <3>1. x \in Displays /\ UNCHANGED startingServer
      BY <1>0, <1>9, <2>2 DEF TypeOK, HandleSigusr1
    <3>2. r.serverStatus = "ignore" /\ r.userSess = disp[x].userSess
          /\ n.serverStatus = "ignore" /\ n.userSess = disp[x].userSess
      BY <1>a, <3>1 DEF DisplayRecords
    <3>3. \/ disp' = [disp EXCEPT ![x] = r] /\ session' = [session EXCEPT ![x] = "waiting"]
          \/ disp' = [disp EXCEPT ![x] = n] /\ UNCHANGED session
      BY <2>2 DEF startServerSuccess, StartDisplayP2
    <3> HIDE DEF r, n
    <3>4. /\ disp'[x] = r \/ disp'[x] = n
          /\ session'[x] \in {session[x], "waiting"}
          /\ \A y \in Displays \ {x} : session'[y] = session[y]
      BY <1>0, <1>b, <3>1, <3>3 DEF TypeOK
    <3>5. Still(x)
      BY <1>a, <3>1, <3>2, <3>4 DEF Still
    <3> QED
      BY <3>1, <3>3, <3>4, <3>5, OneStill
  <2> QED
    BY <1>9, <2>1, <2>2 DEF HandleSigusr1
<1>10. ASSUME NEW d \in Displays, ReapSession(d) PROVE Still(e)
  <2> DEFINE se == [session EXCEPT ![d] = "none"]
             r  == [disp[d] EXCEPT !.userSess = FALSE]
             tries == [r EXCEPT !.startTries = r.startTries + 1]
             zero == [r EXCEPT !.startTries = 0]
             Same(s) == s \in DisplayRecords /\ ~s.userSess /\ s.serverStatus = "ignore"
  <2>1. disp[d].serverStatus = "ignore"
    BY <1>10, <1>a DEF ReapSession, DeadSession, ExitCodes, DisplayOK
  <2>2. Same(r) /\ r.status = disp[d].status
    BY <1>a, <2>1 DEF DisplayRecords
  <2>3. Same(zero) /\ Same(tries)
    <3> HIDE DEF r
    <3>1. r.startTries + 1 \in Nat
      BY <2>2 DEF DisplayRecords
    <3>2. \A n \in Nat : Same([r EXCEPT !.startTries = n])
      BY <2>2 DEF DisplayRecords
    <3> QED
      BY <3>1, <3>2
  <2>4. r.status = "zombie" => r.zstatus \in Fates
    BY <1>a, <2>2 DEF DisplayRecords
  <2>5. \/ \E fate \in Fates : \/ StopDisplayTo(d, r, fate, se, server)
                               \/ StopDisplayTo(d, tries, fate, se, server)
        \/ \E keep \in BOOLEAN : \/ RestartDisplay(d, r, keep, se)
                                 \/ RestartDisplay(d, zero, keep, se)
                                 \/ RestartDisplay(d, tries, keep, se)
    BY <1>10, <2>2, <2>4 DEF ReapSession, Fates, EndState
  <2>6. \A x \in Displays \ {d} : se[x] = session[x]
    BY <1>0 DEF TypeOK
  <2> HIDE DEF r, tries, zero, se
  <2>7. ASSUME NEW fate \in Fates, NEW s, Same(s), StopDisplayTo(d, s, fate, se, server)
        PROVE  Still(e)
    BY <2>1, <2>6, <2>7, StopDisplayToStill
  <2>8. ASSUME NEW keep, NEW s, Same(s), RestartDisplay(d, s, keep, se) PROVE Still(e)
    <3> DEFINE n == [s EXCEPT !.status = IF KillsServer(d, keep) THEN "phoenix" ELSE "notRunning"]
    <3>1. ~n.userSess /\ n.serverStatus = "ignore"
      BY <2>8 DEF DisplayRecords
    <3>2. disp' = [disp EXCEPT ![d] = n] /\ session' = se /\ UNCHANGED startingServer
      BY <2>8 DEF RestartDisplay
    <3> HIDE DEF n
    <3>3. disp'[d] = n
      BY <1>b, <3>2
    <3>4. Still(d)
      BY <3>1, <3>2, <3>3 DEF Still
    <3> QED
      BY <2>6, <3>2, <3>4, OneStill
  <2> QED
    BY <2>2, <2>3, <2>5, <2>7, <2>8
<1>11. ASSUME NEW d \in Displays, ReapServer(d) PROVE KeepsTurn(e)
  <2> DEFINE sv == [server EXCEPT ![d] = "none"]
  <2>1. CASE disp[d].status = "zombie"
    <3>1. StopDisplayTo(d, disp[d], disp[d].zstatus, session, sv)
      BY <1>11, <2>1 DEF ReapServer
    <3>2. disp[d].zstatus \in Fates
      BY <1>a, <2>1 DEF DisplayRecords
    <3> HIDE DEF sv
    <3> QED
      BY <1>a, <1>c, <3>1, <3>2, StopDisplayToStill
  <2>2. CASE /\ disp[d].status = "running" /\ startingServer = d
             /\ disp[d].serverStatus # "ignore"
    <3>1. StartServerFailed(d, disp[d], sv) /\ UNCHANGED session
      BY <1>11, <2>2 DEF ReapServer
    <3>2. disp[d].serverStatus # "awaiting" /\ session[d] = "none" /\ ~disp[d].userSess
      BY <1>11, <1>a, <2>2 DEF DisplayOK, ReapServer, DeadServer
    <3> HIDE DEF sv
    <3> QED
      BY <1>3, <1>a, <2>2, <3>1, <3>2
  <2>3. CASE ~(\/ disp[d].status = "zombie"
               \/ /\ disp[d].status = "running" /\ startingServer = d
                  /\ disp[d].serverStatus # "ignore")
    <3>1. UNCHANGED <<startingServer, session>>
      BY <1>11, <2>3 DEF ReapServer
    <3>2. \/ UNCHANGED disp
          \/ /\ disp[d].status # "running"
             /\ \E st \in {"notRunning", "reserve"} : disp' = [disp EXCEPT ![d].status = st]
      BY <1>11, <2>3 DEF ReapServer
    <3>3. ASSUME NEW st, disp' = [disp EXCEPT ![d].status = st], disp[d].status # "running"
          PROVE  Still(e)
      <4> DEFINE u == [disp[d] EXCEPT !.status = st]
      <4>1. u.serverStatus = disp[d].serverStatus /\ u.userSess = disp[d].userSess
        BY <1>a DEF DisplayRecords
      <4>2. disp' = [disp EXCEPT ![d] = u]
        BY <3>3
      <4> HIDE DEF u
      <4>3. disp'[d] = u
        BY <1>b, <4>2
      <4>4. Still(d)
        BY <1>a, <3>1, <3>3, <4>1, <4>3 DEF Still
      <4> QED
        BY <3>1, <4>2, <4>4, OneStill
    <3> QED
      BY <1>c, <1>d, <3>1, <3>2, <3>3
  <2> QED
    BY <2>1, <2>2, <2>3
<1>12. CASE Signals
  BY <1>6, <1>7, <1>8, <1>9, <1>10, <1>11, <1>12, <1>c DEF Signals
<1>13. ASSUME NEW d \in Displays, RecvXConnOk(d) PROVE Still(e)
  BY <1>13, SameStill DEF RecvXConnOk
<1>14. ASSUME NEW d \in Displays, NEW r, disp' = [disp EXCEPT ![d] = r],
              UNCHANGED <<startingServer, session>>, r.serverStatus = disp[d].serverStatus,
              r.userSess => session[d] # "none",
              \/ r.status = disp[d].status \/ disp[d].serverStatus = "ignore"
              \/ disp[d].status # "running"
       PROVE  KeepsTurn(e)
  <2>1. disp'[d] = r /\ \A x \in Displays \ {d} : disp'[x] = disp[x]
    BY <1>14, <1>b
  <2>2. CASE e = d
    <3>1. startingServer = d => disp[d].serverStatus \in {"ignore", "awaiting"} \/ disp[d].status = "running"
      BY <1>0 DEF Turns, StartersAreLocal
    <3> QED
      BY <1>14, <2>1, <2>2, <3>1 DEF KeepsTurn
  <2>3. CASE e # d
    BY <1>14, <1>c, <2>1, <2>3, SameStill
  <2> QED
    BY <2>2, <2>3
<1>15. ASSUME NEW d \in Displays, RecvUser(d) \/ \E s : RecvUnUser(d, s) PROVE KeepsTurn(e)
  <2>1. /\ UNCHANGED <<startingServer, session>> /\ session[d] = "connected"
        /\ \E b \in BOOLEAN : disp' = [disp EXCEPT ![d].userSess = b]
    BY <1>15 DEF RecvUser, RecvUnUser
  <2>2. PICK b \in BOOLEAN : disp' = [disp EXCEPT ![d].userSess = b]
    BY <2>1
  <2> DEFINE r == [disp[d] EXCEPT !.userSess = b]
  <2>3. r.serverStatus = disp[d].serverStatus /\ r.status = disp[d].status
    BY <1>a DEF DisplayRecords
  <2>4. disp' = [disp EXCEPT ![d] = r]
    BY <2>2
  <2> HIDE DEF r
  <2> QED
    BY <1>14, <2>1, <2>3, <2>4
<1>16. ASSUME NEW d \in Displays, RecvConsole(d) PROVE Still(e)
  <2> DEFINE S == {x \in Managed \cap Local : disp[x].status \notin {"reserve", "textMode"}}
             list == StopAll(S, "textMode")
  <2>1. /\ disp' = list \/ disp' = WakeDisplays(list)
        /\ AbortStartServer(S) /\ UNCHANGED session
    BY <1>16 DEF RecvConsole, CheckTTYMode, SwitchToTTY
  <2>2. \A x \in Displays :
          /\ x \notin S => list[x] = disp[x]
          /\ x \in S =>
               list[x] = Stopped(x, disp[x], session[x] # "none" \/ server[x] # "none", "textMode")
    BY DEF StopAll
  <2>3. \A x \in Displays : list[x] \in DisplayRecords
    BY <1>a, <2>2, StoppedType DEF Fates
  <2>4. list \in [Displays -> DisplayRecords]
    BY <2>3 DEF StopAll
  <2>5. startingServer' \in {startingServer, None} /\ (startingServer' = e => e \notin S)
    BY <2>1, ConfigAssumption DEF AbortStartServer
  <2> HIDE DEF S, list
  <2>6. /\ list[e].serverStatus \in {disp[e].serverStatus, "ignore"}
        /\ list[e].userSess => disp[e].userSess
    <3>1. disp[e] \in DisplayRecords
      BY <1>a
    <3>2. LET s == Stopped(e, disp[e], session[e] # "none" \/ server[e] # "none", "textMode") IN
          s.serverStatus \in {disp[e].serverStatus, "ignore"} /\ (s.userSess => disp[e].userSess)
      BY <3>1 DEF Stopped, Absent, DisplayRecords
    <3> QED
      BY <2>2, <3>2
  <2> QED
    BY <2>1, <2>2, <2>4, <2>5, <2>6, WakeStill
<1>17. CASE Messages
  BY <1>13, <1>15, <1>16, <1>17, <1>c, <1>e DEF Messages, RecvGarbage
<1>18. ASSUME NEW d \in Displays, NEW st \in {"raiser", "notRunning"},
              disp' = [disp EXCEPT ![d].status = st],
              session[d] # "none" \/ disp[d].status = "reserve",
              UNCHANGED <<startingServer, session>>
       PROVE  KeepsTurn(e)
  <2> DEFINE r == [disp[d] EXCEPT !.status = st]
  <2>1. r.serverStatus = disp[d].serverStatus /\ r.userSess = disp[d].userSess
    BY <1>a DEF DisplayRecords
  <2>2. disp' = [disp EXCEPT ![d] = r]
    BY <1>18
  <2>3. disp[d].serverStatus = "ignore" \/ disp[d].status # "running"
    BY <1>18, <1>a DEF DisplayOK
  <2> HIDE DEF r
  <2> QED
    BY <1>14, <1>18, <1>a, <2>1, <2>2, <2>3
<1>19. ASSUME NEW S, NEW d \in Displays, AbortStartServer(S), StopAll(S, "remove")[d].status = "absent",
              disp' = [StopAll(S, "remove") EXCEPT ![d] = NewDisplay(d)], UNCHANGED session
       PROVE  Still(e)
  <2>1. DOMAIN StopAll(S, "remove") = Displays
    BY DEF StopAll
  <2>2. CASE e = d
    <3>1. disp'[e].serverStatus = "ignore" /\ ~disp'[e].userSess
      BY <1>19, <2>1, <2>2, NewDisplayOK DEF NewDisplay, Absent
    <3> QED
      BY <1>19, <3>1 DEF Still, AbortStartServer
  <2>3. CASE e # d
    <3>1. disp'[e] = StopAll(S, "remove")[e]
      BY <1>19, <2>1, <2>3
    <3> QED
      BY <1>19, <3>1, StopAllStill
  <2> QED
    BY <2>2, <2>3
<1>20. CASE Packets
  BY <1>19, <1>20, <1>c, <1>e DEF Packets, XdmcpManage
<1>21. CASE Commands
  <2>1. ASSUME NEW d \in Displays, NEW now \in BOOLEAN, CmdLogin(d, now) PROVE KeepsTurn(e)
    BY <1>18, <2>1 DEF CmdLogin, OnlyDisp
  <2>2. ASSUME NEW d \in Displays, CmdSuicide(d) \/ CmdReserve(d) PROVE KeepsTurn(e)
    BY <1>18, <2>2 DEF CmdSuicide, CmdReserve, OnlyDisp
  <2>3. ASSUME NEW d \in Displays, CmdManage(d) PROVE Still(e)
    <3>1. disp' = [disp EXCEPT ![d] = NewDisplay(d)] /\ UNCHANGED <<startingServer, session>>
      BY <2>3 DEF CmdManage, OnlyDisp
    <3>2. disp'[d] = NewDisplay(d)
      BY <1>b, <3>1
    <3>3. ~NewDisplay(d).userSess
      BY DEF NewDisplay, Absent
    <3>4. Still(d)
      BY <3>1, <3>2, <3>3, NewDisplayOK DEF Still
    <3> QED
      BY <3>1, <3>4, OneStill
  <2>4. ASSUME NEW d \in Displays, CmdUnmanage(d) PROVE Still(e)
    BY <1>e, <2>4 DEF CmdUnmanage
  <2>5. ASSUME CmdResume PROVE Still(e)
    BY <1>2, <2>5 DEF CmdResume
  <2>6. ASSUME NEW C, CancelShutdown(C) PROVE Still(e)
    BY <1>f, <2>6 DEF CancelShutdown, cancelShutdown
  <2>7. ASSUME NEW s, RequestShutdown(s) PROVE Still(e)
    BY <1>d, <2>7 DEF RequestShutdown
  <2> QED
    BY <1>21, <1>c, <2>1, <2>2, <2>3, <2>4, <2>5, <2>6, <2>7 DEF Commands
<1>22. CASE Children
  <2>1. PICK d \in Displays : ServerReady(d) \/ ServerExit(d) \/ SessionConnect(d) \/ SessionExit(d)
    BY <1>22 DEF Children
  <2>2. UNCHANGED <<disp, startingServer>>
    BY <2>1 DEF ServerReady, ServerExit, SessionConnect, SessionExit
  <2>3. PossibleExits(d) \subseteq ExitCodes
    BY DEF PossibleExits, ExitCodes
  <2>4. session'[e] = "none" => session[e] = "none"
    BY <1>0, <2>1, <2>3
    DEF ServerReady, ServerExit, SessionConnect, SessionExit, TypeOK, ExitCodes
  <2> QED
    BY <1>c, <2>2, <2>4, SameStill
<1>23. CASE Terminated \/ UNCHANGED vars
  BY <1>23, <1>c, <1>d DEF Terminated, vars
<1> QED
  BY <1>1, <1>4, <1>5, <1>12, <1>17, <1>20, <1>21, <1>22, <1>23 DEF Next, Timeouts

\* startServerOnce() of a running display.
LEMMA OnceTurn ==
  ASSUME NEW d \in Displays, NEW r \in DisplayRecords, r.status = "running", ~r.userSess,
         StartServerOnce(d, r)
  PROVE  /\ startingServer' \in {None, d}
         /\ \E u : /\ disp' = [disp EXCEPT ![d] = u]
                   /\ ~u.userSess /\ u.serverStatus # "awaiting"
                   /\ u.serverStatus = "ignore" \/ u.status = "running"
<1> DEFINE s == [r EXCEPT !.startTries = r.startTries + 1, !.serverStatus = "starting"]
           sv == [server EXCEPT ![d] = "none"]
           p == [s EXCEPT !.serverStatus = "pausing"]
           i == [s EXCEPT !.serverStatus = "ignore"]
           x == Stopped(d, i, session[d] # "none" \/ sv[d] # "none", "remove")
<1>1. s \in DisplayRecords /\ s.status = "running" /\ s.serverStatus = "starting" /\ ~s.userSess
  <2>1. r.startTries + 1 \in Nat
    BY DEF DisplayRecords
  <2>2. \A n \in Nat :
          LET t == [r EXCEPT !.startTries = n, !.serverStatus = "starting"] IN
          /\ t \in DisplayRecords /\ t.status = "running"
          /\ t.serverStatus = "starting" /\ ~t.userSess
    BY DEF DisplayRecords, ServerStatuses
  <2> QED
    BY <2>1, <2>2
<1>2. /\ startingServer' \in {None, d}
      /\ \/ disp' = [disp EXCEPT ![d] = s]
         \/ disp' = [disp EXCEPT ![d] = p]
         \/ disp' = [disp EXCEPT ![d] = x]
  BY DEF StartServerOnce, StartServerFailed
<1> HIDE DEF s, sv
<1>3. /\ p.status = "running" /\ p.serverStatus = "pausing" /\ ~p.userSess
      /\ i \in DisplayRecords /\ i.serverStatus = "ignore" /\ ~i.userSess
  BY <1>1 DEF DisplayRecords, ServerStatuses
<1> HIDE DEF p, i
<1>4. x.serverStatus = "ignore" /\ ~x.userSess
  BY <1>3 DEF Stopped, Absent, DisplayRecords
<1> HIDE DEF x
<1> QED
  BY <1>1, <1>2, <1>3, <1>4

\* kickDisplay() leaves d where it is, or d runs: it awaits its turn, or has it.
LEMMA KickTurn ==
  ASSUME IInv, NEW d \in Displays, NEW waits, KickDisplay(d, waits)
  PROVE  /\ \/ startingServer' = startingServer
            \/ /\ startingServer = None /\ startingServer' \in {None, d}
               /\ session[d] = "none" /\ session' = session
         /\ startingServer' = d => d \in Local
         /\ \E x : session' = [session EXCEPT ![d] = x] /\ x \in {session[d], "waiting"}
         /\ \E u : /\ disp' = [disp EXCEPT ![d] = u]
                   /\ u.userSess => disp[d].userSess
                   /\ u.serverStatus # "ignore" => d \in Local
                   /\ \/ u.serverStatus = "ignore" \/ u.status = "running"
                      \/ /\ startingServer' = startingServer
                         /\ u.status = disp[d].status /\ u.serverStatus = disp[d].serverStatus
                   /\ u.serverStatus = "awaiting" => startingServer # None
<1>1. /\ disp \in [Displays -> DisplayRecords] /\ session \in [Displays -> SessionStates]
      /\ disp[d] \in DisplayRecords
      /\ DisplayOK(disp[d], session[d], server[d])
      /\ disp[d].userSess => session[d] # "none"
      /\ disp[d].serverStatus # "ignore" \/ startingServer = d => d \in Local
  BY IInvParts DEF TypeOK, DisplaysOK, Turns, StartersAreLocal, UsersHaveSession
<1>2. \E x : session' = [session EXCEPT ![d] = x] /\ x \in {session[d], "waiting"}
  <2>1. session' = [session EXCEPT ![d] = "waiting"] \/ session' = session
    BY DEF KickDisplay, StartDisplayP2
  <2>2. session = [session EXCEPT ![d] = session[d]]
    BY <1>1
  <2> QED
    BY <2>1, <2>2
<1> DEFINE U(u) == /\ disp' = [disp EXCEPT ![d] = u]
                   /\ u.userSess => disp[d].userSess
                   /\ u.serverStatus # "ignore" => d \in Local
                   /\ \/ u.serverStatus = "ignore" \/ u.status = "running"
                      \/ /\ startingServer' = startingServer
                         /\ u.status = disp[d].status /\ u.serverStatus = disp[d].serverStatus
                   /\ u.serverStatus = "awaiting" => startingServer # None
           T == /\ \/ startingServer' = startingServer
                   \/ /\ startingServer = None /\ startingServer' \in {None, d}
                      /\ session[d] = "none" /\ session' = session
                /\ startingServer' = d => d \in Local
           starts == disp[d].status = "notRunning" /\ ~waits
           r == [disp[d] EXCEPT !.status = "running"]
           n == [r EXCEPT !.status = "notRunning"]
           a == [r EXCEPT !.serverStatus = "awaiting"]
           a0 == [a EXCEPT !.startTries = 0]
           z == [disp[d] EXCEPT !.startTries = 0]
<1>3. startingServer' = startingServer => T
  BY <1>1
<1>4. ASSUME NEW s \in DisplayRecords, s.status = "running", ~s.userSess, d \in Local,
             startingServer = None, StartServerOnce(d, s), session[d] = "none", session' = session
      PROVE  T /\ \E u : U(u)
  <2>1. /\ startingServer' \in {None, d}
        /\ \E u : /\ disp' = [disp EXCEPT ![d] = u]
                  /\ ~u.userSess /\ u.serverStatus # "awaiting"
                  /\ u.serverStatus = "ignore" \/ u.status = "running"
    BY <1>4, OnceTurn
  <2>2. ASSUME NEW u, disp' = [disp EXCEPT ![d] = u], ~u.userSess, u.serverStatus # "awaiting",
               u.serverStatus = "ignore" \/ u.status = "running"
        PROVE  U(u)
    BY <1>4, <2>2
  <2>3. T
    BY <1>4, <2>1
  <2> HIDE DEF U, T
  <2> QED
    BY <2>1, <2>2, <2>3
<1>5. CASE starts /\ ~NeedsServer(d)
  <2>1. StartDisplayP2(d, r) /\ UNCHANGED startingServer
    BY <1>5 DEF KickDisplay, startDisplay
  <2>2. session[d] = "none" /\ disp[d].serverStatus = "ignore"
    BY <1>1, <1>5 DEF DisplayOK, NeedsServer
  <2>3. /\ r.serverStatus = "ignore" /\ ~r.userSess
        /\ n.serverStatus = "ignore" /\ ~n.userSess
    BY <1>1, <2>2 DEF DisplayRecords
  <2>4. disp' = [disp EXCEPT ![d] = r] \/ disp' = [disp EXCEPT ![d] = n]
    BY <2>1 DEF StartDisplayP2
  <2> HIDE DEF r, n
  <2>5. U(r) \/ U(n)
    BY <2>3, <2>4
  <2> QED
    BY <1>2, <1>3, <2>1, <2>5
<1>6. CASE starts /\ NeedsServer(d)
  <2>1. session[d] = "none" /\ d \in Local /\ ~disp[d].userSess /\ session' = session
    BY <1>1, <1>6 DEF DisplayOK, NeedsServer, KickDisplay
  <2>2. a \in DisplayRecords /\ a.status = "running" /\ a.serverStatus = "awaiting" /\ ~a.userSess
    BY <1>1, <1>6, <2>1 DEF DisplayRecords, Statuses, ServerStatuses
  <2>3. IF startingServer = None THEN StartServerOnce(d, a0)
        ELSE disp' = [disp EXCEPT ![d] = a] /\ UNCHANGED startingServer
    BY <1>6, <2>2 DEF KickDisplay, startDisplay
  <2> HIDE DEF a
  <2>4. a0 \in DisplayRecords /\ a0.status = "running" /\ ~a0.userSess
    BY <2>2 DEF DisplayRecords
  <2> HIDE DEF a0
  <2>5. CASE startingServer = None
    BY <1>2, <1>4, <2>1, <2>3, <2>4, <2>5
  <2>6. CASE startingServer # None
    <3>1. U(a)
      BY <2>1, <2>2, <2>3, <2>6
    <3> QED
      BY <1>2, <1>3, <2>3, <2>6, <3>1
  <2> QED
    BY <2>5, <2>6
<1>7. CASE ~starts
  <2>1. IF disp[d].serverStatus = "awaiting" /\ startingServer = None THEN StartServerOnce(d, z)
        ELSE disp' = [disp EXCEPT ![d] = disp[d]] /\ UNCHANGED startingServer
    BY <1>7 DEF KickDisplay
  <2>2. CASE disp[d].serverStatus = "awaiting" /\ startingServer = None
    <3>0. session[d] = "none" /\ session' = session
      BY <1>1, <1>7, <2>2 DEF DisplayOK, KickDisplay
    <3>1. z \in DisplayRecords /\ z.status = "running" /\ ~z.userSess /\ d \in Local
      BY <1>1, <2>2 DEF DisplayOK, DisplayRecords
    <3> HIDE DEF z
    <3> QED
      BY <1>2, <1>4, <2>1, <2>2, <3>0, <3>1
  <2>3. CASE ~(disp[d].serverStatus = "awaiting" /\ startingServer = None)
    <3>1. U(disp[d])
      BY <1>1, <2>1, <2>3
    <3> QED
      BY <1>2, <1>3, <2>1, <2>3, <3>1
  <2> QED
    BY <2>2, <2>3
<1> QED
  BY <1>5, <1>6, <1>7

\* So kickDisplay() takes the turns as they come.
LEMMA KickedTurns ==
  ASSUME IInv, NEW d \in Displays, NEW waits, KickDisplay(d, waits)
  PROVE  StartersAreLocal' /\ TurnsAreTaken' /\ UsersHaveSession'
<1>1. /\ disp \in [Displays -> DisplayRecords] /\ session \in [Displays -> SessionStates]
      /\ StartersAreLocal /\ TurnsAreTaken /\ UsersHaveSession
      /\ disp[d].serverStatus \in {"ignore", "awaiting"} \/ startingServer # d \/ disp[d].status = "running"
  BY IInvParts DEF TypeOK, Turns, StartersAreLocal
<1>2. /\ \/ startingServer' = startingServer
         \/ /\ startingServer = None /\ startingServer' \in {None, d}
            /\ session[d] = "none" /\ session' = session
      /\ startingServer' = d => d \in Local
      /\ \E x : session' = [session EXCEPT ![d] = x] /\ x \in {session[d], "waiting"}
  BY KickTurn
<1>3. PICK u : /\ disp' = [disp EXCEPT ![d] = u]
               /\ u.userSess => disp[d].userSess
               /\ u.serverStatus # "ignore" => d \in Local
               /\ \/ u.serverStatus = "ignore" \/ u.status = "running"
                  \/ /\ startingServer' = startingServer
                     /\ u.status = disp[d].status /\ u.serverStatus = disp[d].serverStatus
               /\ u.serverStatus = "awaiting" => startingServer # None
  BY KickTurn
<1>4. PICK x : session' = [session EXCEPT ![d] = x] /\ x \in {session[d], "waiting"}
  BY <1>2
<1>5. /\ disp'[d] = u /\ session'[d] = x
      /\ \A e \in Displays \ {d} : disp'[e] = disp[e] /\ session'[e] = session[e]
  BY <1>1, <1>3, <1>4
<1>6. /\ pc = "kick" /\ d \in todo /\ todo' = todo \ {d}
      /\ UNCHANGED <<pc, stopping, xconn>>
  BY DEF KickDisplay
<1>7. UsersHaveSession'
  BY <1>1, <1>3, <1>4, <1>5 DEF UsersHaveSession
<1>8. StartersAreLocal'
  <2> SUFFICES ASSUME NEW e \in Displays
               PROVE  /\ disp'[e].serverStatus # "ignore" \/ startingServer' = e => e \in Local
                      /\ startingServer' = e =>
                           /\ disp'[e].serverStatus \in {"ignore", "awaiting"} \/ disp'[e].status = "running"
                           /\ session'[e] = "connected" => e \in xconn'
    BY DEF StartersAreLocal
  <2>1. CASE e = d
    <3>1. disp'[e].serverStatus # "ignore" \/ startingServer' = e => e \in Local
      BY <1>2, <1>3, <1>5, <2>1
    <3>2. CASE startingServer = d
      BY <1>1, <1>2, <1>3, <1>4, <1>5, <1>6, <2>1, <3>1, <3>2 DEF StartersAreLocal
    <3>3. CASE startingServer # d /\ startingServer' = d
      BY <1>1, <1>2, <1>3, <1>5, <2>1, <3>3
    <3> QED
      BY <2>1, <3>1, <3>2, <3>3
  <2>2. CASE e # d
    <3>1. disp'[e] = disp[e] /\ session'[e] = session[e] /\ xconn' = xconn
      BY <1>5, <1>6, <2>2
    <3>2. startingServer' = e => startingServer = e
      BY <1>2, <2>2, ConfigAssumption
    <3> QED
      BY <1>1, <3>1, <3>2 DEF StartersAreLocal
  <2> QED
    BY <2>1, <2>2
<1>9. TurnsAreTaken'
  <2>1. ~stopping
    BY <1>1, <1>6 DEF TurnsAreTaken
  <2>2. startingServer' # None \/ Awaiting' \subseteq todo'
    <3> SUFFICES ASSUME startingServer' = None, NEW e \in Displays, disp'[e].serverStatus = "awaiting"
                 PROVE  e \in todo'
      BY DEF Awaiting
    <3>1. startingServer = None
      BY <1>2
    <3>2. e # d
      BY <1>3, <1>5, <3>1
    <3>3. e \in Awaiting
      BY <1>5, <3>2 DEF Awaiting
    <3> QED
      BY <1>1, <1>6, <3>1, <3>2, <3>3 DEF TurnsAreTaken
  <2> QED
    BY <1>6, <2>1, <2>2 DEF TurnsAreTaken
<1> QED
  BY <1>7, <1>8, <1>9

\* A session that connects, or has, has D_XConnOk in the pipe unless the display has
\* had its turn.
LEMMA ConnectStep ==
  ASSUME IInv, [Next]_vars, NEW e \in Displays,
         startingServer = e, startingServer' = e, session'[e] = "connected"
  PROVE  e \in xconn'
<1>1. /\ session \in [Displays -> SessionStates]
      /\ e \in Local /\ (session[e] = "connected" => e \in xconn)
  BY IInvParts DEF TypeOK, Turns, StartersAreLocal
<1> USE DEF masterVars, childVars
<1>2. ASSUME UNCHANGED xconn, session'[e] = "connected" => session[e] = "connected"
      PROVE  e \in xconn'
  BY <1>1, <1>2
<1>3. ASSUME UNCHANGED <<session, xconn>> PROVE e \in xconn'
  BY <1>2, <1>3
<1>4. ASSUME NEW d \in Displays, NEW r, StartDisplayP2(d, r), UNCHANGED xconn PROVE e \in xconn'
  <2>1. session'[e] = "connected" => session[e] = "connected"
    BY <1>1, <1>4 DEF StartDisplayP2
  <2> QED
    BY <1>2, <1>4, <2>1
<1>5. CASE MainLoop
  <2>1. ASSUME NEW d \in Displays, NEW waits \in BOOLEAN, KickDisplay(d, waits) PROVE e \in xconn'
    BY <1>3, <1>4, <2>1 DEF KickDisplay
  <2> QED
    BY <1>3, <1>5, <2>1
    DEF MainLoop, LoopTop, NoShutdownDue, ShutdownWaits, ShutdownExpires, NothingElse
<1>6. CASE Timeouts
  BY <1>3, <1>6 DEF Timeouts, ServerTimeout, UtmpTimeout
<1>7. CASE Signals
  <2>1. ASSUME NEW d \in Displays, HandleSigusr1(d) PROVE e \in xconn'
    <3>1. startingServer \in Displays
      OBVIOUS
    <3> QED
      BY <1>3, <1>4, <2>1, <3>1 DEF HandleSigusr1, startServerSuccess
  <2>2. ASSUME NEW d \in Displays, ReapServer(d) PROVE e \in xconn'
    BY <1>3, <2>2 DEF ReapServer, StopDisplayTo
  <2>3. ASSUME NEW d \in Displays, ReapSession(d) PROVE e \in xconn'
    <3>1. session' = [session EXCEPT ![d] = "none"] /\ xconn' = xconn \ {d}
      BY <2>3 DEF ReapSession, StopDisplayTo, RestartDisplay
    <3>2. e # d
      BY <1>1, <3>1
    <3> QED
      BY <1>1, <3>1, <3>2
  <2> QED
    BY <1>3, <1>7, <2>1, <2>2, <2>3 DEF Signals, HandleSigterm, HandleSighup, EndReap
<1>8. CASE Messages
  <2>1. ASSUME NEW d \in Displays, RecvXConnOk(d) PROVE e \in xconn'
    BY <2>1, ConfigAssumption DEF RecvXConnOk
  <2> QED
    BY <1>3, <1>8, <2>1 DEF Messages, RecvUser, RecvUnUser, RecvGarbage, RecvConsole
<1>9. CASE Commands
  BY <1>3, <1>9
  DEF Commands, CmdResume, CmdLogin, CmdSuicide, CmdReserve, CmdManage, CmdUnmanage,
      RequestShutdown, CancelShutdown, OnlyDisp
<1>10. CASE Packets
  BY <1>3, <1>10 DEF Packets, XdmcpManage
<1>11. CASE Children
  <2>1. PICK d \in Displays : ServerReady(d) \/ ServerExit(d) \/ SessionConnect(d) \/ SessionExit(d)
    BY <1>11 DEF Children
  <2>2. CASE ServerReady(d) \/ ServerExit(d)
    BY <1>3, <2>2 DEF ServerReady, ServerExit
  <2>3. CASE SessionConnect(d)
    <3>1. CASE d = e
      BY <1>1, <2>3, <3>1 DEF SessionConnect
    <3>2. CASE d # e
      BY <1>1, <2>3, <3>2 DEF SessionConnect
    <3> QED
      BY <3>1, <3>2
  <2>4. CASE SessionExit(d)
    <3>1. "connected" \notin PossibleExits(d)
      BY DEF PossibleExits
    <3>2. session'[e] = "connected" => session[e] = "connected"
      BY <1>1, <2>4, <3>1 DEF SessionExit
    <3> QED
      BY <1>2, <2>4, <3>2 DEF SessionExit
  <2> QED
    BY <2>1, <2>2, <2>3, <2>4
<1>12. CASE Terminated \/ UNCHANGED vars
  BY <1>3, <1>12 DEF Terminated, vars
<1> QED
  BY <1>5, <1>6, <1>7, <1>8, <1>9, <1>10, <1>11, <1>12 DEF Next

\* stoppen() leaves none that awaits its turn: such a display has no process and no user.
LEMMA StoppenTurns ==
  ASSUME IInv, NEW force, stoppen(force), \A e \in Displays : KeepsTurn(e)
  PROVE  Awaiting' = {}
<1> SUFFICES ASSUME NEW e \in Displays, disp'[e].serverStatus = "awaiting"
             PROVE  FALSE
  BY DEF Awaiting
<1>1. disp[e].serverStatus = "awaiting"
  BY DEF KeepsTurn
<1>2. disp[e].status = "running" /\ session[e] = "none" /\ server[e] = "none" /\ ~disp[e].userSess
  BY <1>1, IInvParts DEF DisplaysOK, DisplayOK, Turns, UsersHaveSession
<1>3. disp'[e] = Stopped(e, disp[e], session[e] # "none" \/ server[e] # "none", "remove")
  BY <1>2 DEF stoppen, StopAll, Managed
<1>4. disp'[e] = Absent
  BY <1>2, <1>3 DEF Stopped
<1> QED
  BY <1>4 DEF Absent

\* With two local displays, that one is connected and another one is being started
\* means that there is none left to await its turn.
LEMMA TwoTurns ==
  ASSUME TwoLocals, TypeOK', DisplaysOK', StartersAreLocal', startingServer' # None \/ Awaiting' = {},
         NEW d \in Local, session'[d] = "connected", d \notin xconn'
  PROVE  Awaiting' \subseteq {startingServer'}
<1> SUFFICES ASSUME NEW e \in Displays, disp'[e].serverStatus = "awaiting"
             PROVE  e = startingServer'
  BY DEF Awaiting
<1>1. startingServer' \in Displays
  BY DEF Awaiting, TypeOK
<1>2. startingServer' \in Local /\ startingServer' # d /\ e \in Local
  BY <1>1 DEF StartersAreLocal
<1>3. session'[e] = "none"
  BY DEF DisplaysOK, DisplayOK
<1> QED
  BY <1>2, <1>3 DEF TwoLocals

\* The displays in the hands of server.c, and their users, after any step.
LEMMA StartersStep == IInv /\ [Next]_vars => StartersAreLocal' /\ UsersHaveSession'
<1> SUFFICES ASSUME IInv, [Next]_vars PROVE StartersAreLocal' /\ UsersHaveSession'
  OBVIOUS
<1>1. ASSUME NEW d \in Displays, NEW waits \in BOOLEAN, KickDisplay(d, waits)
      PROVE  StartersAreLocal' /\ UsersHaveSession'
  BY <1>1, KickedTurns
<1>2. ASSUME \A d \in Displays, waits \in BOOLEAN : ~KickDisplay(d, waits)
      PROVE  StartersAreLocal' /\ UsersHaveSession'
  <2>1. \A e \in Displays : KeepsTurn(e)
    BY <1>2, TurnsKept
  <2>2. UsersHaveSession'
    BY <2>1 DEF KeepsTurn, UsersHaveSession
  <2>3. ASSUME NEW e \in Displays
        PROVE  /\ disp'[e].serverStatus # "ignore" \/ startingServer' = e => e \in Local
               /\ startingServer' = e =>
                    /\ disp'[e].serverStatus \in {"ignore", "awaiting"} \/ disp'[e].status = "running"
                    /\ session'[e] = "connected" => e \in xconn'
    <3>1. disp[e].serverStatus # "ignore" \/ startingServer = e => e \in Local
      BY IInvParts DEF Turns, StartersAreLocal
    <3>2. KeepsTurn(e)
      BY <2>1
    <3> QED
      BY <3>1, <3>2, ConnectStep DEF KeepsTurn
  <2> QED
    BY <2>2, <2>3 DEF StartersAreLocal
<1> QED
  BY <1>1, <1>2

\* One step per group of actions, by the place in mainLoop() they lead to.
LEMMA TurnsStep ==
  ASSUME ConsoleOfTwo
  PROVE  IInv /\ [Next]_vars => TurnsAreTaken'
<1> SUFFICES ASSUME IInv, [Next]_vars PROVE TurnsAreTaken'
  OBVIOUS
<1>0. TypeOK /\ TurnsAreTaken /\ StartersAreLocal /\ TypeOK' /\ DisplaysOK' /\ StartersAreLocal'
  BY IInvParts, TypeStep, ProcessStep, StartersStep DEF Turns
<1>1. ASSUME NEW d \in Displays, NEW waits \in BOOLEAN, KickDisplay(d, waits)
      PROVE  TurnsAreTaken'
  BY <1>1, KickedTurns
<1>2. ASSUME \A d \in Displays, waits \in BOOLEAN : ~KickDisplay(d, waits)
      PROVE  TurnsAreTaken'
  <2>0. \A e \in Displays : KeepsTurn(e)
    BY <1>2, TurnsKept
  <2>1. Awaiting' \subseteq Awaiting
    BY <2>0 DEF KeepsTurn, Awaiting
  <2> DEFINE Others == \A d \in Local : session'[d] = "connected" /\ d \notin xconn' =>
                         Awaiting' \subseteq {startingServer'}
  <2> USE DEF masterVars, childVars
  <2>2. ASSUME pc # "kick", pc' \notin {"kick", "select", "dispatch"}, UNCHANGED todo,
               stopping' => stopping
        PROVE  TurnsAreTaken'
    BY <1>0, <2>1, <2>2 DEF TurnsAreTaken
  <2>3. ASSUME pc = "kick", todo = {}, pc' = "select", UNCHANGED todo, stopping' => Awaiting' = {},
               startingServer' = startingServer \/ Awaiting' = {}
        PROVE  TurnsAreTaken'
    <3>1. startingServer' # None \/ Awaiting' = {}
      BY <1>0, <2>1, <2>3 DEF TurnsAreTaken
    <3>2. ASSUME ConsoleTTYs PROVE Others
      <4>1. TwoLocals
        BY <3>2 DEF ConsoleOfTwo
      <4> QED
        BY <1>0, <3>1, <4>1, TwoTurns
    <3> QED
      BY <2>3, <3>2 DEF TurnsAreTaken
  <2>4. ASSUME pc \in {"select", "dispatch"}, pc' = "dispatch", UNCHANGED <<todo, stopping, session, xconn>>,
               startingServer' = startingServer \/ Awaiting' = {}
        PROVE  TurnsAreTaken'
    <3>1. ConsoleTTYs => Others
      BY <1>0, <2>1, <2>4 DEF TurnsAreTaken
    <3> QED
      BY <1>0, <2>1, <2>4, <3>1 DEF TurnsAreTaken
  <2>5. ASSUME UNCHANGED <<pc, todo, stopping, startingServer, disp>>,
               \A d \in Local : session'[d] = "connected" /\ d \notin xconn' =>
                               session[d] = "connected" /\ d \notin xconn
        PROVE  TurnsAreTaken'
    <3>1. Awaiting' = Awaiting
      BY <2>5 DEF Awaiting
    <3> QED
      BY <1>0, <2>5, <3>1 DEF TurnsAreTaken
  <2>6. CASE LoopTop
    <3>1. CASE pc' = "exit"
      BY <2>2, <2>6, <3>1 DEF LoopTop
    <3>2. CASE pc' # "exit"
      <4>1. pc = "top" /\ pc' = "kick" /\ UNCHANGED stopping
        BY <2>6, <3>2 DEF LoopTop
      <4>2. CASE stopping
        <5>1. UNCHANGED todo /\ todo = {} /\ Awaiting' = {}
          BY <1>0, <2>1, <2>6, <3>2, <4>1, <4>2 DEF LoopTop, TurnsAreTaken
        <5> QED
          BY <4>1, <4>2, <5>1 DEF TurnsAreTaken
      <4>3. CASE ~stopping
        <5>1. todo' = {d \in Displays : disp'[d].status # "absent"}
          BY <2>6, <3>2, <4>1, <4>3 DEF LoopTop
        <5>2. Awaiting' \subseteq todo'
          BY <1>0, <5>1 DEF Awaiting, DisplaysOK, DisplayOK
        <5> QED
          BY <4>1, <4>3, <5>2 DEF TurnsAreTaken
      <4> QED
        BY <4>2, <4>3
    <3> QED
      BY <3>1, <3>2
  <2>7. CASE NoShutdownDue
    <3>1. stopping' => Awaiting' = {}
      BY <1>0, <2>1, <2>7 DEF NoShutdownDue, TurnsAreTaken
    <3> QED
      BY <2>3, <2>7, <3>1 DEF NoShutdownDue
  <2>8. CASE ShutdownWaits
    BY <2>0, <2>3, <2>8, StoppenTurns DEF ShutdownWaits
  <2>9. CASE ShutdownExpires
    <3>1. CASE stoppen(TRUE)
      <4>1. Awaiting' = {}
        BY <2>0, <3>1, StoppenTurns
      <4> QED
        BY <2>3, <2>9, <4>1 DEF ShutdownExpires
    <3>2. CASE ~stoppen(TRUE)
      BY <2>3, <2>9, <3>2 DEF ShutdownExpires, cancelShutdown
    <3> QED
      BY <3>1, <3>2
  <2>10. CASE MainLoop
    BY <1>2, <2>2, <2>6, <2>7, <2>8, <2>9, <2>10 DEF MainLoop, NothingElse
  <2>11. CASE ServerTimeout
    <3>1. CASE startingServer = None
      BY <2>2, <2>11, <3>1 DEF ServerTimeout
    <3>2. CASE startingServer # None
      <4>1. pc = "select" /\ pc' = "dispatch" /\ UNCHANGED <<todo, stopping, session, xconn>>
        BY <2>11, <3>2 DEF ServerTimeout
      <4>2. CASE UNCHANGED startingServer
        BY <2>4, <4>1, <4>2
      <4>3. CASE startingServer' # startingServer
        <5>1. disp[startingServer].serverStatus \in {"killed", "pausing"}
          BY <1>0, <2>11, <3>2, <4>3 DEF ServerTimeout, TypeOK
        <5>2. startingServer \notin Awaiting
          BY <5>1 DEF Awaiting
        <5>3. CASE ConsoleTTYs
          <6>1. ConsoleTTYs => Others
            <7> SUFFICES ASSUME NEW d \in Local, session[d] = "connected", d \notin xconn
                         PROVE  Awaiting' \subseteq {startingServer'}
              BY <4>1
            <7>1. Awaiting \subseteq {startingServer}
              BY <1>0, <4>1, <5>3 DEF TurnsAreTaken
            <7> QED
              BY <2>1, <5>2, <7>1
          <6> QED
            BY <1>0, <2>1, <4>1, <6>1 DEF TurnsAreTaken
        <5>4. CASE ~ConsoleTTYs
          BY <1>0, <2>1, <4>1, <5>4 DEF TurnsAreTaken
        <5> QED
          BY <5>3, <5>4
      <4> QED
        BY <4>2, <4>3
    <3> QED
      BY <3>1, <3>2
  <2>12. CASE UtmpTimeout
    BY <2>4, <2>12 DEF UtmpTimeout
  <2>13. CASE HandleSigterm
    <3>1. Awaiting' = {}
      BY <2>0, <2>13, StoppenTurns DEF HandleSigterm
    <3>2. pc \in {"select", "dispatch"} /\ pc' = "top" /\ UNCHANGED todo
      BY <2>13 DEF HandleSigterm, Dispatch
    <3> QED
      BY <1>0, <3>1, <3>2 DEF TurnsAreTaken
  <2>14. CASE Signals
    BY <2>2, <2>13, <2>14
    DEF Signals, HandleSighup, EndReap, HandleSigusr1, ReapSession, ReapServer, Dispatch, Reap
  <2>15. CASE Messages
    BY <2>2, <2>15
    DEF Messages, RecvXConnOk, RecvUser, RecvUnUser, RecvGarbage, RecvConsole, Dispatch
  <2>16. CASE Commands
    BY <2>2, <2>16
    DEF Commands, CmdResume, CmdLogin, CmdSuicide, CmdReserve, CmdManage, CmdUnmanage,
        RequestShutdown, CancelShutdown, cancelShutdown, OnlyDisp, Dispatch
  <2>17. CASE Packets
    BY <2>2, <2>17 DEF Packets, XdmcpManage, Dispatch
  <2>18. CASE Children
    <3>1. PICK d \in Displays : ServerReady(d) \/ ServerExit(d) \/ SessionConnect(d) \/ SessionExit(d)
      BY <2>18 DEF Children
    <3>2. CASE ServerReady(d) \/ ServerExit(d)
      BY <2>5, <3>2 DEF ServerReady, ServerExit
    <3>3. CASE SessionConnect(d)
      <4>1. \A e \in Local : session'[e] = "connected" /\ e \notin xconn' =>
                             session[e] = "connected" /\ e \notin xconn
        BY <1>0, <3>3, ConfigAssumption DEF SessionConnect, TypeOK
      <4> QED
        BY <2>5, <3>3, <4>1 DEF SessionConnect
    <3>4. CASE SessionExit(d)
      <4>1. "connected" \notin PossibleExits(d)
        BY DEF PossibleExits
      <4>2. \A e \in Local : session'[e] = "connected" => session[e] = "connected"
        BY <1>0, <3>4, <4>1, ConfigAssumption DEF SessionExit, TypeOK
      <4> QED
        BY <2>5, <3>4, <4>2 DEF SessionExit
    <3> QED
      BY <3>1, <3>2, <3>3, <3>4
  <2>19. CASE Terminated \/ UNCHANGED vars
    BY <2>5, <2>19 DEF Terminated, vars
  <2> QED
    BY <2>10, <2>11, <2>12, <2>14, <2>15, <2>16, <2>17, <2>18, <2>19 DEF Next, Timeouts
<1> QED
  BY <1>1, <1>2

\* The parts of IInv put together.
LEMMA IInvStep ==
  ASSUME ConsoleOfTwo
  PROVE  IInv /\ [Next]_vars => IInv'
<1> SUFFICES ASSUME IInv, [Next]_vars PROVE IInv'
  OBVIOUS
<1>1. Turns'
  BY StartersStep, TurnsStep DEF Turns
<1>2. TypeOK'
  BY IInvParts, TypeStep
<1> QED
  BY <1>1, <1>2, ProcessStep, IInvPartsNext

\* The inductive invariant holds without a console mode, and with two local displays.
THEOREM Invariance ==
  ASSUME ConsoleOfTwo
  PROVE  Spec => []IInv
BY IInvInit, IInvStep, PTL DEF Spec

\* The status of a display matches its processes.
THEOREM StatusCorrect ==
  ASSUME ConsoleOfTwo
  PROVE  Spec => []StatusMatchesProcesses
<1>1. IInv => StatusMatchesProcesses
  BY DEF IInv
<1> QED
  BY <1>1, Invariance, PTL

\* startingServer never points at a display that is gone or being stopped.
THEOREM StartCorrect ==
  ASSUME ConsoleOfTwo
  PROVE  Spec => []NoDanglingStart
<1>1. IInv => NoDanglingStart
  BY DEF IInv
<1> QED
  BY <1>1, Invariance, PTL

-----------------------------------------------------------------------------
(* No process is lost *)

\* One step per action that forks.
LEMMA ForkStep == IInv /\ [Next]_vars => ForksOverNothing
<1> SUFFICES ASSUME IInv, [Next]_vars PROVE ForksOverNothing
  OBVIOUS
<1>0. TypeOK /\ DisplaysOK /\ NoDanglingStart
  BY IInvParts
<1> USE DEF masterVars, childVars
<1>a. ASSUME UNCHANGED session, UNCHANGED server PROVE ForksOverNothing
  BY <1>a DEF ForksOverNothing
<1>b. ASSUME NEW d \in Displays, NEW r, StartDisplayP2(d, r), session[d] = "none"
      PROVE  ForksOverNothing
  BY <1>0, <1>b DEF StartDisplayP2, ForksOverNothing, TypeOK
<1>c. ASSUME NEW d \in Displays, NEW r, NEW sv,
             \/ StartServerOnce(d, r)
             \/ StartServerFailed(d, r, server)
             \/ StartServerFailed(d, r, [server EXCEPT ![d] = "none"]),
             UNCHANGED session,
             server[d] = "none" \/ disp[d].serverStatus = "pausing" \/ ~StartServerOnce(d, r)
      PROVE  ForksOverNothing
  BY <1>0, <1>c DEF StartServerOnce, StartServerFailed, ForksOverNothing, TypeOK
<1>1. ASSUME NEW d \in Displays, NEW waits \in BOOLEAN, KickDisplay(d, waits)
      PROVE  ForksOverNothing
  <2>1. CASE disp[d].status = "notRunning" /\ ~waits /\ ~NeedsServer(d)
    <3>1. session[d] = "none"
      BY <1>0, <2>1 DEF DisplaysOK, DisplayOK
    <3> QED
      BY <1>1, <1>b, <2>1, <3>1 DEF KickDisplay
  <2>2. CASE ~(disp[d].status = "notRunning" /\ ~waits /\ ~NeedsServer(d))
    <3>1. UNCHANGED session
      BY <1>1, <2>2 DEF KickDisplay
    <3>2. \/ UNCHANGED server
          \/ /\ \E r : StartServerOnce(d, r)
             /\ \/ disp[d].status = "notRunning" /\ ~waits
                \/ disp[d].serverStatus = "awaiting"
      BY <1>1, <2>2 DEF KickDisplay
    <3>3. (\/ disp[d].status = "notRunning" /\ ~waits
           \/ disp[d].serverStatus = "awaiting")
          => server[d] = "none"
      BY <1>0, <2>2 DEF DisplaysOK, DisplayOK, NeedsServer
    <3> QED
      BY <1>a, <1>c, <3>1, <3>2, <3>3
  <2> QED
    BY <2>1, <2>2
<1>2. CASE ServerTimeout
  <2>1. UNCHANGED session
    BY <1>2 DEF ServerTimeout
  <2>2. CASE startingServer = None
    BY <1>2, <1>a, <2>1, <2>2 DEF ServerTimeout
  <2>3. CASE startingServer # None
    <3> DEFINE d == startingServer
    <3>1. d \in Displays
      BY <1>0, <2>3 DEF TypeOK
    <3>2. \/ UNCHANGED server
          \/ StartServerFailed(d, disp[d], server)
          \/ StartServerOnce(d, disp[d]) /\ disp[d].serverStatus = "pausing"
      BY <1>2, <2>3 DEF ServerTimeout
    <3> QED
      BY <1>a, <1>c, <2>1, <3>1, <3>2 DEF StartServerFailed
  <2> QED
    BY <2>2, <2>3
<1>3. ASSUME NEW d \in Displays, HandleSigusr1(d) PROVE ForksOverNothing
  <2>1. CASE startingServer # None /\ disp[startingServer].serverStatus = "starting"
    <3>1. startingServer \in Displays /\ session[startingServer] = "none"
      BY <1>0, <2>1 DEF TypeOK, DisplaysOK, DisplayOK
    <3> QED
      BY <1>3, <1>b, <2>1, <3>1 DEF HandleSigusr1, startServerSuccess
  <2> QED
    BY <1>3, <1>a, <2>1 DEF HandleSigusr1
<1>4. ASSUME NEW d \in Displays, ReapSession(d) \/ ReapServer(d) PROVE ForksOverNothing
  <2>1. /\ \A e \in Displays : session'[e] \in {session[e], "none"}
        /\ \A e \in Displays : server'[e] \in {server[e], "none", "ready"}
    BY <1>0, <1>4
    DEF ReapSession, ReapServer, StopDisplayTo, RestartDisplay, StartServerFailed, TypeOK
  <2> QED
    BY <2>1 DEF ForksOverNothing
<1>5. ASSUME NEW d \in Displays,
             ServerReady(d) \/ ServerExit(d) \/ SessionConnect(d) \/ SessionExit(d)
      PROVE  ForksOverNothing
  <2>1. PossibleExits(d) \subseteq ExitCodes
    BY DEF PossibleExits, ExitCodes
  <2> QED
    BY <1>0, <1>5, <2>1
    DEF ServerReady, ServerExit, SessionConnect, SessionExit, ForksOverNothing, TypeOK,
        ExitCodes
<1>6. CASE MainLoop
  BY <1>1, <1>a, <1>6
  DEF MainLoop, LoopTop, NoShutdownDue, ShutdownWaits, ShutdownExpires, NothingElse
<1>7. CASE Timeouts
  BY <1>2, <1>a, <1>7 DEF Timeouts, UtmpTimeout
<1>8. CASE Signals
  BY <1>3, <1>4, <1>a, <1>8 DEF Signals, HandleSigterm, HandleSighup, EndReap
<1>9. CASE Messages
  BY <1>a, <1>9
  DEF Messages, RecvXConnOk, RecvUser, RecvGarbage, RecvConsole, RecvUnUser
<1>10. CASE Commands \/ Packets
  BY <1>a, <1>10
  DEF Commands, Packets, CmdResume, CmdLogin, CmdSuicide, CmdReserve, CmdManage, CmdUnmanage,
      XdmcpManage, RequestShutdown, CancelShutdown, OnlyDisp
<1>11. CASE Children
  BY <1>5, <1>11 DEF Children
<1>12. CASE Terminated \/ UNCHANGED vars
  BY <1>a, <1>12 DEF Terminated, vars
<1> QED
  BY <1>6, <1>7, <1>8, <1>9, <1>10, <1>11, <1>12 DEF Next

\* No fork loses a child.
THEOREM LossCorrect ==
  ASSUME ConsoleOfTwo
  PROVE  Spec => NoProcessLost
BY Invariance, ForkStep, PTL DEF Spec, NoProcessLost

-----------------------------------------------------------------------------
(* A removal is final *)

\* A record that is, or goes on being, on its way out of the list.
Leaves(r) == \/ r.status = "absent"
             \/ r.status = "zombie" /\ r.zstatus = "remove"

\* stopDisplay() sends a display on its way.
LEMMA StoppedLeaves ==
  ASSUME NEW d \in Displays, NEW r \in DisplayRecords, NEW se, NEW sv
  PROVE  Leaves(Stopped(d, r, se # "none" \/ sv # "none", "remove"))
<1>1. CASE se # "none" \/ sv # "none"
  BY <1>1 DEF Stopped, Leaves, DisplayRecords
<1>2. CASE ~(se # "none" \/ sv # "none")
  BY <1>2 DEF Stopped, Absent, Leaves
<1> QED
  BY <1>1, <1>2

\* One step per action that changes the list.
LEMMA RemovalStep ==
  IInv /\ [Next]_vars => RemovalGoesOn
<1> SUFFICES ASSUME IInv, [Next]_vars, NEW d \in Displays,
                    disp[d].status = "zombie", disp[d].zstatus = "remove",
                    ~CalledBack(d)'
             PROVE  Leaves(disp'[d])
  BY DEF RemovalGoesOn, Leaving, Leaves
<1>0. TypeOK /\ DisplaysOK /\ NoDanglingStart
  BY IInvParts
<1> USE DEF masterVars, childVars
<1>a. disp[d] \in DisplayRecords /\ (session[d] # "none" \/ server[d] # "none")
  BY <1>0 DEF TypeOK, DisplaysOK, DisplayOK
<1>b. ASSUME disp'[d] = disp[d] PROVE Leaves(disp'[d])
  BY <1>b DEF Leaves
<1>c. ASSUME NEW list, list[d] = disp[d], disp' = list \/ disp' = WakeDisplays(list)
      PROVE  disp'[d] = disp[d]
  BY <1>c DEF WakeDisplays
<1>d. \A S : Leaves(StopAll(S, "remove")[d])
  BY <1>a DEF StopAll, Stopped, Leaves, DisplayRecords
<1>e. ASSUME NEW S, disp' = StopAll(S, "remove") PROVE Leaves(disp'[d])
  BY <1>d, <1>e
<1>f. ASSUME NEW e \in Displays, e # d, \A x \in Displays \ {e} : disp'[x] = disp[x]
      PROVE  Leaves(disp'[d])
  BY <1>b, <1>f
<1>g. ASSUME NEW list \in [Displays -> DisplayRecords], NEW C, rescanConfigs(list, C),
             list[d].status = "zombie", list[d].zstatus = "remove"
      PROVE  Leaves(disp'[d])
  <2>1. list[d] \in DisplayRecords
    BY <1>g
  <2>2. ScanServers(list, C)[d] \in
          {list[d], [list[d] EXCEPT !.stillThere = TRUE, !.status = "zombie"]}
    BY <1>g DEF ScanServers
  <2>3. Leaves([list[d] EXCEPT !.stillThere = TRUE, !.status = "zombie"])
    BY <1>g, <2>1 DEF Leaves, DisplayRecords
  <2>4. disp'[d] \in {list[d], ScanServers(list, C)[d]}
    BY <1>g DEF rescanConfigs
  <2> QED
    BY <1>g, <2>2, <2>3, <2>4 DEF Leaves
<1>h. ASSUME NEW e \in Displays, e # d, NEW r, NEW fate, NEW se, NEW sv,
             StopDisplayTo(e, r, fate, se, sv)
      PROVE  disp'[d] = disp[d]
  <2> DEFINE s == Stopped(e, r, se[e] # "none" \/ sv[e] # "none", fate)
             list == [disp EXCEPT ![e] = s]
  <2>1. \/ disp' = list \/ disp' = WakeDisplays(list)
        \/ disp' = [list EXCEPT ![e].status = "notRunning"]
    BY <1>h DEF StopDisplayTo, CheckTTYMode, SwitchToTTY
  <2> HIDE DEF s
  <2>2. list[d] = disp[d]
    BY <1>0, <1>h DEF TypeOK
  <2>3. CASE disp' = [list EXCEPT ![e].status = "notRunning"]
    BY <1>0, <1>h, <2>3 DEF TypeOK
  <2> HIDE DEF list
  <2> QED
    BY <1>c, <2>1, <2>2, <2>3
<1>1. CASE LoopTop
  BY <1>1, <1>b, <1>e DEF LoopTop
<1>2. ASSUME NEW e \in Displays, NEW waits \in BOOLEAN, KickDisplay(e, waits)
      PROVE  Leaves(disp'[d])
  <2>1. CASE e # d
    <3>1. \A x \in Displays \ {e} : disp'[x] = disp[x]
      BY <1>0, <1>2
      DEF KickDisplay, StartDisplayP2, StartServerOnce, StartServerFailed, TypeOK
    <3> QED
      BY <1>f, <2>1, <3>1
  <2>2. CASE e = d
    <3>1. disp[d].serverStatus # "awaiting"
      BY <1>0 DEF DisplaysOK, DisplayOK
    <3> QED
      BY <1>0, <1>2, <1>b, <2>2, <3>1 DEF KickDisplay, TypeOK
  <2> QED
    BY <2>1, <2>2
<1>3. CASE ShutdownWaits
  BY <1>3, <1>e DEF ShutdownWaits, stoppen
<1>4. ASSUME NEW C, cancelShutdown(C) PROVE Leaves(disp'[d])
  BY <1>0, <1>4, <1>g DEF cancelShutdown, TypeOK
<1>5. CASE ShutdownExpires
  BY <1>4, <1>5, <1>e DEF ShutdownExpires, stoppen
<1>6. CASE ServerTimeout
  <2>1. startingServer # d
    BY <1>0, ConfigAssumption DEF NoDanglingStart
  <2>2. CASE startingServer = None
    BY <1>6, <1>b, <2>2 DEF ServerTimeout
  <2>3. CASE startingServer # None
    <3>1. startingServer \in Displays
      BY <1>0, <2>3 DEF TypeOK
    <3>2. \A x \in Displays \ {startingServer} : disp'[x] = disp[x]
      BY <1>0, <1>6, <2>3
      DEF ServerTimeout, StartServerOnce, StartServerFailed, TypeOK
    <3> QED
      BY <1>f, <2>1, <3>1, <3>2
  <2> QED
    BY <2>2, <2>3
<1>7. CASE UtmpTimeout
  BY <1>7, <1>b, <1>c DEF UtmpTimeout
<1>8. ASSUME NEW C, HandleSighup(C) PROVE Leaves(disp'[d])
  <2> DEFINE list == [e \in Displays |-> [disp[e] EXCEPT !.stillThere = FALSE]]
  <2>1. list \in [Displays -> DisplayRecords]
    BY <1>0 DEF TypeOK, DisplayRecords
  <2>2. list[d].status = "zombie" /\ list[d].zstatus = "remove"
    BY <1>a DEF DisplayRecords
  <2>3. rescanConfigs(list, C)
    BY <1>8 DEF HandleSighup
  <2> HIDE DEF list
  <2> QED
    BY <1>g, <2>1, <2>2, <2>3
<1>9. ASSUME NEW C, EndReap(C) PROVE Leaves(disp'[d])
  BY <1>0, <1>9, <1>b, <1>g DEF EndReap, TypeOK
<1>10. ASSUME NEW e \in Displays, HandleSigusr1(e) PROVE Leaves(disp'[d])
  <2>1. CASE startingServer # None /\ disp[startingServer].serverStatus = "starting"
    <3>1. startingServer \in Displays /\ startingServer # d
      BY <1>0, <2>1 DEF TypeOK, NoDanglingStart
    <3>2. \A x \in Displays \ {startingServer} : disp'[x] = disp[x]
      BY <1>0, <1>10, <2>1, <3>1
      DEF HandleSigusr1, startServerSuccess, StartDisplayP2, TypeOK
    <3> QED
      BY <1>f, <3>1, <3>2
  <2> QED
    BY <1>10, <1>b, <2>1 DEF HandleSigusr1
<1>11. ASSUME NEW r, r \in DisplayRecords, NEW se, NEW sv, StopDisplayTo(d, r, "remove", se, sv)
       PROVE  Leaves(disp'[d])
  <2>1. disp' = [disp EXCEPT ![d] = Stopped(d, r, se[d] # "none" \/ sv[d] # "none", "remove")]
    BY <1>11 DEF StopDisplayTo
  <2>2. Leaves(Stopped(d, r, se[d] # "none" \/ sv[d] # "none", "remove"))
    BY <1>11, StoppedLeaves
  <2> QED
    BY <1>0, <2>1, <2>2 DEF TypeOK
<1>12. ASSUME NEW e \in Displays, ReapSession(e) \/ ReapServer(e) PROVE Leaves(disp'[d])
  <2>1. CASE e # d
    <3>1. ASSUME ReapSession(e)
          PROVE  \/ \E r, fate, se : StopDisplayTo(e, r, fate, se, server)
                 \/ \E r, keep, se : RestartDisplay(e, r, keep, se)
      BY <3>1 DEF ReapSession
    <3>2. ASSUME ReapServer(e)
          PROVE  \/ \E r, fate, sv : StopDisplayTo(e, r, fate, session, sv)
                 \/ disp'[d] = disp[d]
      BY <1>0, <2>1, <3>2 DEF ReapServer, StartServerFailed, TypeOK
    <3>3. ASSUME NEW r, NEW keep, NEW se, RestartDisplay(e, r, keep, se)
          PROVE  disp'[d] = disp[d]
      BY <1>0, <2>1, <3>3 DEF RestartDisplay, TypeOK
    <3> QED
      BY <1>b, <1>h, <1>12, <2>1, <3>1, <3>2, <3>3
  <2>2. CASE e = d
    <3>1. ASSUME ReapSession(d)
          PROVE  \E se : StopDisplayTo(d, [disp[d] EXCEPT !.userSess = FALSE], "remove", se, server)
      <4>1. LET r == [disp[d] EXCEPT !.userSess = FALSE] IN
            r.status = "zombie" /\ r.zstatus = "remove"
        BY <1>a DEF DisplayRecords
      <4> QED
        BY <3>1, <4>1 DEF ReapSession
    <3>2. [disp[d] EXCEPT !.userSess = FALSE] \in DisplayRecords
      BY <1>a DEF DisplayRecords
    <3>3. ASSUME ReapServer(d)
          PROVE  \E sv : StopDisplayTo(d, disp[d], "remove", session, sv)
      BY <3>3 DEF ReapServer
    <3> QED
      BY <1>a, <1>11, <1>12, <2>2, <3>1, <3>2, <3>3
  <2> QED
    BY <2>1, <2>2
<1>13. ASSUME NEW e \in Displays,
              RecvUser(e) \/ \E s : RecvUnUser(e, s)
       PROVE  Leaves(disp'[d])
  BY <1>0, <1>13, <1>a DEF RecvUser, RecvUnUser, Leaves, TypeOK, DisplayRecords
<1>14. ASSUME NEW e \in Displays, NEW st, disp[e].status \in {"running", "reserve"},
              disp' = [disp EXCEPT ![e].status = st]
       PROVE  Leaves(disp'[d])
  BY <1>0, <1>14, <1>b DEF TypeOK
<1>15. ASSUME NEW e \in Displays, CmdManage(e) PROVE Leaves(disp'[d])
  BY <1>0, <1>15, <1>b DEF CmdManage, TypeOK
<1>16. ASSUME NEW e \in Displays, XdmcpManage(e) PROVE Leaves(disp'[d])
  <2>1. PICK S : \/ disp' = StopAll(S, "remove")
                 \/ disp' = [StopAll(S, "remove") EXCEPT ![e] = NewDisplay(e)]
                    /\ StopAll(S, "remove")[e].status = "absent"
    BY <1>16 DEF XdmcpManage
  <2>2. CASE disp' = StopAll(S, "remove")
    BY <1>e, <2>2
  <2>3. CASE e # d /\ disp' = [StopAll(S, "remove") EXCEPT ![e] = NewDisplay(e)]
    BY <1>d, <2>3 DEF StopAll
  <2>4. StopAll(S, "remove")[d].status # "absent"
    BY <1>a DEF StopAll, Stopped, DisplayRecords
  <2> QED
    BY <2>1, <2>2, <2>3, <2>4
<1>17. CASE MainLoop
  BY <1>1, <1>2, <1>3, <1>5, <1>b, <1>17 DEF MainLoop, NoShutdownDue, NothingElse
<1>18. CASE Timeouts
  BY <1>6, <1>7, <1>18 DEF Timeouts
<1>19. CASE Signals
  BY <1>8, <1>9, <1>10, <1>12, <1>e, <1>19 DEF Signals, HandleSigterm, stoppen
<1>20. CASE Messages
  <2>1. ASSUME NEW e \in Displays, RecvXConnOk(e) PROVE Leaves(disp'[d])
    BY <1>b, <2>1 DEF RecvXConnOk
  <2>2. ASSUME NEW e \in Displays, RecvGarbage(e) PROVE Leaves(disp'[d])
    BY <1>e, <2>2 DEF RecvGarbage
  <2>3. ASSUME NEW e \in Displays, RecvConsole(e) PROVE Leaves(disp'[d])
    <3>1. PICK S \in SUBSET Local : ConsoleTTYs /\ CheckTTYMode(StopAll(S, "textMode"))
      BY <2>3 DEF RecvConsole
    <3>2. CASE d \in S
      <4>1. LET r == StopAll(S, "textMode")[d] IN r.status = "zombie" /\ r.zstatus = "textMode"
        BY <1>a, <3>2 DEF StopAll, Stopped, DisplayRecords
      <4>2. disp' = StopAll(S, "textMode")
        BY <3>1, <4>1 DEF CheckTTYMode
      <4> QED
        BY <3>1, <3>2, <4>1, <4>2 DEF CalledBack
    <3>3. CASE d \notin S
      <4>1. StopAll(S, "textMode")[d] = disp[d]
        BY <3>3 DEF StopAll
      <4>2. disp' = StopAll(S, "textMode") \/ disp' = WakeDisplays(StopAll(S, "textMode"))
        BY <3>1 DEF CheckTTYMode, SwitchToTTY
      <4> QED
        BY <1>b, <1>c, <4>1, <4>2
    <3> QED
      BY <3>2, <3>3
  <2> QED
    BY <1>13, <1>20, <2>1, <2>2, <2>3 DEF Messages
<1>21. CASE Commands
  <2>1. ASSUME NEW e \in Displays, NEW now, CmdLogin(e, now) PROVE Leaves(disp'[d])
    BY <1>14, <2>1 DEF CmdLogin
  <2>2. ASSUME NEW e \in Displays, CmdSuicide(e) \/ CmdReserve(e) PROVE Leaves(disp'[d])
    BY <1>14, <2>2 DEF CmdSuicide, CmdReserve
  <2>3. ASSUME NEW e \in Displays, CmdUnmanage(e) PROVE Leaves(disp'[d])
    BY <1>e, <2>3 DEF CmdUnmanage
  <2>4. CASE CmdResume
    BY <1>b, <1>c, <2>4 DEF CmdResume
  <2>5. ASSUME NEW f, RequestShutdown(f) PROVE Leaves(disp'[d])
    BY <1>b, <2>5 DEF RequestShutdown
  <2>6. ASSUME NEW C, CancelShutdown(C) PROVE Leaves(disp'[d])
    BY <1>4, <2>6 DEF CancelShutdown
  <2> QED
    BY <1>15, <1>21, <2>1, <2>2, <2>3, <2>4, <2>5, <2>6 DEF Commands
<1>24. CASE Packets
  BY <1>16, <1>24 DEF Packets
<1>22. CASE Children
  BY <1>b, <1>22 DEF Children, ServerReady, ServerExit, SessionConnect, SessionExit
<1>23. CASE Terminated \/ UNCHANGED vars
  BY <1>b, <1>23 DEF Terminated, vars
<1> QED
  BY <1>17, <1>18, <1>19, <1>20, <1>21, <1>22, <1>23, <1>24 DEF Next

\* A display that is being removed is removed, in every configuration without a
\* console mode or with two local displays.
THEOREM RemovalCorrect ==
  ASSUME ConsoleOfTwo
  PROVE  Spec => RemovalIsFinal
BY Invariance, RemovalStep, PTL DEF Spec, RemovalIsFinal

=============================================================================
