----------------------- MODULE VirtualTerminalsProofs -----------------------
(***************************************************************************)
(* What VirtualTerminals does for every set of displays and every list of  *)
(* terminals: its steps are steps of the master, and, for a kdmrc without  *)
(* ConsoleTTYs, a display whose VT is pending is not started, a VT is      *)
(* promised to one that waits, an X server keeps its VT, and two local     *)
(* displays never have the same one.                                       *)
(***************************************************************************)
EXTENDS VirtualTerminals, DisplayManagerProofs

-----------------------------------------------------------------------------
(* The master does not see the VTs *)

\* Each step of the VTs is one of the master, or leaves it alone.
LEMMA VTStep == [VTNext]_allVars => [Next]_vars
<1> SUFFICES ASSUME [VTNext]_allVars PROVE [Next]_vars
  OBVIOUS
<1>1. CASE VTLoopTop
  BY <1>1 DEF VTLoopTop, Next, MainLoop
<1>2. ASSUME NEW d \in Displays, AllocateVT(d) PROVE [Next]_vars
  BY <1>2 DEF AllocateVT
<1>3. ASSUME NEW d \in Displays, VTKickDisplay(d) PROVE [Next]_vars
  <2>1. (vt[d] = -1) \in BOOLEAN
    OBVIOUS
  <2> QED
    BY <1>3, <2>1 DEF VTKickDisplay, Next, MainLoop
<1>4. ASSUME NEW d \in Displays, VTReapServer(d) PROVE [Next]_vars
  BY <1>4 DEF VTReapServer, Next, Signals
<1>5. CASE OtherSteps
  BY <1>5 DEF OtherSteps, Next, MainLoop, Signals
<1>6. CASE UNCHANGED allVars
  BY <1>6 DEF allVars
<1> QED
  BY <1>1, <1>2, <1>3, <1>4, <1>5, <1>6 DEF VTNext

\* The daemon with virtual terminals is the master of DisplayManager: all that has
\* been proved of it holds here.
THEOREM VTImplementsMaster == VTSpec => Spec
BY VTStep, PTL DEF VTSpec, VTInit, Spec

-----------------------------------------------------------------------------
(* A display that is not being started stays so unless it is kicked *)

\* Record r, with the session se, is not about to have a session.
Idle(r, se) ==
  /\ se = "none"
  /\ \/ r.status \in {"notRunning", "reserve", "absent"}
     \/ r.status = "zombie" /\ r.zstatus = "remove"

\* stopDisplay() leaves an idle display idle.
LEMMA IdleStopped ==
  ASSUME TypeOK, NEW d \in Displays, Idle(disp[d], session[d]), NEW S
  PROVE  Idle(StopAll(S, "remove")[d], session[d])
<1>1. disp[d] \in DisplayRecords
  BY DEF TypeOK
<1> QED
  BY <1>1 DEF StopAll, Stopped, Absent, Idle, DisplayRecords

\* A scan of kdmrc leaves an idle display idle.
LEMMA IdleScanned ==
  ASSUME NEW list \in [Displays -> DisplayRecords], NEW C, NEW d \in Displays, NEW se,
         Idle(list[d], se), rescanConfigs(list, C)
  PROVE  Idle(disp'[d], se)
<1>1. list[d] \in DisplayRecords
  OBVIOUS
<1>2. NewDisplay(d) \in DisplayRecords /\ NewDisplay(d).status \in {"reserve", "notRunning"}
  BY NewDisplayType DEF NewDisplay, Absent
<1>3. ASSUME NEW st \in {"notRunning", "reserve"}, list[d].status \in {"notRunning", "reserve"}
      PROVE  [list[d] EXCEPT !.stillThere = TRUE, !.status = st].status = st
  BY <1>1, <1>3 DEF DisplayRecords
<1>4. LET r == [list[d] EXCEPT !.stillThere = TRUE, !.status = list[d].status]
      IN  r.status = list[d].status /\ r.zstatus = list[d].zstatus
  BY <1>1 DEF DisplayRecords
<1>5. Idle(ScanServers(list, C)[d], se)
  <2>1. CASE d \notin C
    BY <2>1 DEF ScanServers
  <2>2. CASE d \in C /\ list[d].status = "absent"
    BY <1>2, <2>2 DEF ScanServers, Idle
  <2>3. CASE d \in C /\ list[d].status \in {"notRunning", "reserve"}
    BY <1>3, <2>3 DEF ScanServers, Idle
  <2>4. CASE d \in C /\ list[d].status = "zombie"
    BY <1>4, <2>4 DEF ScanServers, Idle
  <2> QED
    BY <2>1, <2>2, <2>3, <2>4 DEF Idle
<1> QED
  BY <1>5 DEF rescanConfigs

\* Nothing but kickDisplay() starts a display that is in the list and idle.
LEMMA IdleStep ==
  ASSUME ConsoleTTYs = FALSE, IInv, [Next]_vars, NEW d \in Displays,
         Idle(disp[d], session[d]), disp[d].status # "absent",
         KickDisplay(d, FALSE) => KickDisplay(d, TRUE)
  PROVE  Idle(disp'[d], session'[d])
<1>0. TypeOK /\ ~ttyWatch /\ DisplaysOK /\ NoDanglingStart
  BY IInvParts DEF WatchOK
<1> USE DEF masterVars, childVars
<1>a. disp[d] \in DisplayRecords /\ DisplayOK(disp[d], session[d], server[d])
  BY <1>0 DEF TypeOK, DisplaysOK
<1>b. ASSUME disp'[d] = disp[d], session'[d] = session[d] PROVE Idle(disp'[d], session'[d])
  BY <1>b
<1>c. disp[d].serverStatus # "awaiting"
  BY <1>a DEF DisplayOK, Idle
<1>d. startingServer = d => disp[d].serverStatus = "ignore"
  BY <1>a, <1>0, ConfigAssumption
  DEF DisplayOK, Idle, NoDanglingStart, DisplayRecords, ServerStatuses
<1>e. ASSUME NEW S, disp' = StopAll(S, "remove"), UNCHANGED session
      PROVE  Idle(disp'[d], session'[d])
  BY <1>0, <1>e, IdleStopped
<1>f. ASSUME NEW C, rescanConfigs(disp, C), UNCHANGED session PROVE Idle(disp'[d], session'[d])
  BY <1>0, <1>f, IdleScanned DEF TypeOK
<1>g. WakeDisplays(disp) = disp
  BY <1>0 DEF WakeDisplays, DisplaysOK, DisplayOK, TypeOK
<1>h. ASSUME NEW e \in Displays, NEW r, NEW fate, fate # "textMode", NEW se, NEW sv,
             StopDisplayTo(e, r, fate, se, sv)
      PROVE  session' = se /\ \A x \in Displays \ {e} : disp'[x] = disp[x]
  BY <1>0, <1>h DEF StopDisplayTo, TypeOK
<1>1. CASE LoopTop
  BY <1>1, <1>b, <1>e DEF LoopTop
<1>2. ASSUME NEW e \in Displays, NEW waits \in BOOLEAN, KickDisplay(e, waits)
      PROVE  Idle(disp'[d], session'[d])
  <2>1. CASE e # d
    <3>1. disp'[d] = disp[d] /\ session'[d] = session[d]
      BY <1>0, <1>2, <2>1
      DEF KickDisplay, StartDisplayP2, StartServerOnce, StartServerFailed, TypeOK
    <3> QED
      BY <1>b, <3>1
  <2>2. CASE e = d
    <3>1. KickDisplay(d, TRUE)
      BY <1>2, <2>2
    <3> QED
      BY <1>0, <1>b, <1>c, <2>2, <3>1 DEF KickDisplay, TypeOK
  <2> QED
    BY <2>1, <2>2
<1>3. CASE ShutdownWaits
  BY <1>3, <1>e DEF ShutdownWaits, stoppen
<1>4. CASE ShutdownExpires
  BY <1>4, <1>e, <1>f DEF ShutdownExpires, stoppen, cancelShutdown
<1>5. CASE ServerTimeout
  <2>1. CASE startingServer \in {None, d}
    BY <1>0, <1>5, <1>b, <1>d, <2>1 DEF ServerTimeout
  <2>2. CASE startingServer \notin {None, d}
    <3>1. startingServer \in Displays
      BY <1>0, <2>2 DEF TypeOK
    <3>2. disp'[d] = disp[d] /\ session'[d] = session[d]
      BY <1>0, <1>5, <2>2, <3>1 DEF ServerTimeout, StartServerOnce, StartServerFailed, TypeOK
    <3> QED
      BY <1>b, <3>2
  <2> QED
    BY <2>1, <2>2
<1>6. CASE UtmpTimeout
  BY <1>0, <1>6 DEF UtmpTimeout
<1>7. ASSUME NEW C, HandleSighup(C) PROVE Idle(disp'[d], session'[d])
  <2> DEFINE list == [e \in Displays |-> [disp[e] EXCEPT !.stillThere = FALSE]]
  <2>1. list \in [Displays -> DisplayRecords]
    BY <1>0 DEF TypeOK, DisplayRecords
  <2>2. Idle(list[d], session[d])
    BY <1>a DEF DisplayRecords, Idle
  <2>3. rescanConfigs(list, C) /\ UNCHANGED session
    BY <1>7 DEF HandleSighup
  <2> HIDE DEF list
  <2> QED
    BY <2>1, <2>2, <2>3, IdleScanned
<1>8. ASSUME NEW C, EndReap(C) PROVE Idle(disp'[d], session'[d])
  BY <1>8, <1>b, <1>f DEF EndReap
<1>9. ASSUME NEW e \in Displays, HandleSigusr1(e) PROVE Idle(disp'[d], session'[d])
  <2>1. CASE startingServer # None /\ disp[startingServer].serverStatus = "starting"
    <3>1. startingServer \in Displays /\ startingServer # d
      BY <1>0, <1>d, <2>1 DEF TypeOK
    <3>2. disp'[d] = disp[d] /\ session'[d] = session[d]
      BY <1>0, <1>9, <2>1, <3>1 DEF HandleSigusr1, startServerSuccess, StartDisplayP2, TypeOK
    <3> QED
      BY <1>b, <3>2
  <2> QED
    BY <1>9, <1>b, <2>1 DEF HandleSigusr1
<1>10. ASSUME NEW e \in Displays, ReapSession(e) PROVE Idle(disp'[d], session'[d])
  <2>1. e # d
    BY <1>10 DEF ReapSession, DeadSession, Idle, ExitCodes
  <2>2. disp[e].zstatus # "textMode"
    BY <1>0 DEF DisplaysOK, DisplayOK
  <2>3. [disp[e] EXCEPT !.userSess = FALSE].zstatus # "textMode"
    BY <1>0, <2>2 DEF TypeOK, DisplayRecords
  <2>4. \A code : EndState(e, code) # "textMode"
    BY DEF EndState
  <2> DEFINE se == [session EXCEPT ![e] = "none"]
  <2>5. \/ \E r, fate : fate # "textMode" /\ StopDisplayTo(e, r, fate, se, server)
        \/ \E r, keep : RestartDisplay(e, r, keep, se)
    BY <1>10, <2>3, <2>4 DEF ReapSession
  <2>6. se[d] = session[d]
    BY <1>0, <2>1 DEF TypeOK
  <2> HIDE DEF se
  <2>7. disp'[d] = disp[d] /\ session'[d] = session[d]
    BY <1>0, <1>h, <2>1, <2>5, <2>6 DEF RestartDisplay, TypeOK
  <2> QED
    BY <1>b, <2>7
<1>11. ASSUME NEW e \in Displays, ReapServer(e) PROVE Idle(disp'[d], session'[d])
  <2>1. disp[e].zstatus # "textMode"
    BY <1>0 DEF DisplaysOK, DisplayOK
  <2>2. CASE e # d
    <3>1. \/ \E r, fate, sv : fate # "textMode" /\ StopDisplayTo(e, r, fate, session, sv)
          \/ UNCHANGED session /\ \A x \in Displays \ {e} : disp'[x] = disp[x]
      BY <1>0, <1>11, <2>1 DEF ReapServer, StartServerFailed, TypeOK
    <3> QED
      BY <1>b, <1>h, <2>2, <3>1
  <2>3. CASE e = d /\ disp[d].status = "zombie"
    <3> DEFINE sv == [server EXCEPT ![d] = "none"]
    <3>1. StopDisplayTo(d, disp[d], "remove", session, sv)
      BY <1>11, <2>3 DEF ReapServer, Idle
    <3>2. disp' = [disp EXCEPT ![d] =
            Stopped(d, disp[d], session[d] # "none" \/ sv[d] # "none", "remove")]
      BY <3>1 DEF StopDisplayTo
    <3>3. UNCHANGED session
      BY <3>1 DEF StopDisplayTo
    <3> HIDE DEF sv
    <3>4. disp'[d] = Stopped(d, disp[d], session[d] # "none" \/ sv[d] # "none", "remove")
      BY <1>0, <3>2 DEF TypeOK
    <3> QED
      BY <1>a, <3>3, <3>4 DEF Stopped, Absent, Idle, DisplayRecords
  <2>4. CASE e = d /\ disp[d].status \in {"notRunning", "reserve"}
    BY <1>11, <1>b, <2>4 DEF ReapServer
  <2> QED
    BY <2>2, <2>3, <2>4 DEF Idle
<1>12. ASSUME NEW e \in Displays, RecvUser(e) \/ \E s : RecvUnUser(e, s)
       PROVE  Idle(disp'[d], session'[d])
  <2>1. e # d
    BY <1>12 DEF RecvUser, RecvUnUser, Idle
  <2> QED
    BY <1>0, <1>12, <1>b, <2>1 DEF RecvUser, RecvUnUser, TypeOK
<1>13. ASSUME NEW e \in Displays, NEW st,
              \/ disp[e].status = "running"
              \/ disp[e].status = "reserve" /\ st = "notRunning",
              disp' = [disp EXCEPT ![e].status = st], UNCHANGED session
       PROVE  Idle(disp'[d], session'[d])
  BY <1>0, <1>13, <1>a DEF TypeOK, Idle, DisplayRecords
<1>14. ASSUME NEW e \in Displays, CmdManage(e) PROVE Idle(disp'[d], session'[d])
  BY <1>0, <1>14, <1>b DEF CmdManage, OnlyDisp, TypeOK
<1>15. ASSUME NEW e \in Displays, XdmcpManage(e) PROVE Idle(disp'[d], session'[d])
  <2>1. PICK S : \/ disp' = StopAll(S, "remove")
                 \/ disp' = [StopAll(S, "remove") EXCEPT ![e] = NewDisplay(e)]
    BY <1>15 DEF XdmcpManage
  <2>2. UNCHANGED session
    BY <1>15 DEF XdmcpManage
  <2>3. CASE disp' = StopAll(S, "remove")
    BY <1>e, <2>2, <2>3
  <2>4. CASE e # d /\ disp' = [StopAll(S, "remove") EXCEPT ![e] = NewDisplay(e)]
    <3>1. disp'[d] = StopAll(S, "remove")[d]
      BY <2>4 DEF StopAll
    <3> QED
      BY <1>0, <2>2, <3>1, IdleStopped
  <2>5. CASE e = d /\ disp' = [StopAll(S, "remove") EXCEPT ![e] = NewDisplay(e)]
    <3>1. disp'[d] = NewDisplay(d)
      BY <2>5 DEF StopAll
    <3>2. NewDisplay(d).status \in {"reserve", "notRunning"}
      BY DEF NewDisplay, Absent
    <3> QED
      BY <2>2, <3>1, <3>2 DEF Idle
  <2> QED
    BY <2>1, <2>3, <2>4, <2>5
<1>16. CASE MainLoop
  BY <1>1, <1>2, <1>3, <1>4, <1>b, <1>16 DEF MainLoop, NoShutdownDue, NothingElse
<1>17. CASE Timeouts
  BY <1>5, <1>6, <1>17 DEF Timeouts
<1>18. CASE Signals
  BY <1>7, <1>8, <1>9, <1>10, <1>11, <1>e, <1>18 DEF Signals, HandleSigterm, stoppen
<1>19. CASE Messages
  <2>1. ASSUME NEW e \in Displays, RecvXConnOk(e) PROVE Idle(disp'[d], session'[d])
    BY <1>b, <2>1 DEF RecvXConnOk
  <2>2. ASSUME NEW e \in Displays, RecvGarbage(e) PROVE Idle(disp'[d], session'[d])
    BY <1>e, <2>2 DEF RecvGarbage
  <2>3. ASSUME NEW e \in Displays, RecvConsole(e) PROVE FALSE
    BY <2>3 DEF RecvConsole
  <2> QED
    BY <1>12, <1>19, <2>1, <2>2, <2>3 DEF Messages
<1>20. CASE Commands
  <2>1. ASSUME NEW e \in Displays, NEW now, CmdLogin(e, now) PROVE Idle(disp'[d], session'[d])
    BY <1>13, <2>1 DEF CmdLogin, OnlyDisp
  <2>2. ASSUME NEW e \in Displays, CmdSuicide(e) \/ CmdReserve(e)
        PROVE  Idle(disp'[d], session'[d])
    BY <1>13, <2>2 DEF CmdSuicide, CmdReserve, OnlyDisp
  <2>3. ASSUME NEW e \in Displays, CmdUnmanage(e) PROVE Idle(disp'[d], session'[d])
    BY <1>e, <2>3 DEF CmdUnmanage
  <2>4. CASE CmdResume
    BY <1>b, <1>g, <2>4 DEF CmdResume
  <2>5. ASSUME NEW f, RequestShutdown(f) PROVE Idle(disp'[d], session'[d])
    BY <1>b, <2>5 DEF RequestShutdown
  <2>6. ASSUME NEW C, CancelShutdown(C) PROVE Idle(disp'[d], session'[d])
    BY <1>f, <2>6 DEF CancelShutdown, cancelShutdown
  <2> QED
    BY <1>14, <1>20, <2>1, <2>2, <2>3, <2>4, <2>5, <2>6 DEF Commands
<1>21. CASE Packets
  BY <1>15, <1>21 DEF Packets
<1>22. CASE Children
  <2>1. UNCHANGED disp
    BY <1>22 DEF Children, ServerReady, ServerExit, SessionConnect, SessionExit
  <2>2. session'[d] = session[d]
    BY <1>0, <1>22
    DEF Children, ServerReady, ServerExit, SessionConnect, SessionExit, TypeOK, Idle
  <2> QED
    BY <1>b, <2>1, <2>2
<1>23. CASE Terminated \/ UNCHANGED vars
  BY <1>b, <1>23 DEF Terminated, vars
<1> QED
  BY <1>16, <1>17, <1>18, <1>19, <1>20, <1>21, <1>22, <1>23 DEF Next

-----------------------------------------------------------------------------
(* The invariant of the VTs *)

\* Freed is no display, nor none, and there is no negative VT.
LEMMA VTConstants ==
  /\ LastVT \in Nat /\ Gettys \subseteq 1..LastVT /\ None \notin Displays
  /\ Freed \notin Displays /\ Freed # None
BY VTAssumption, ConfigAssumption DEF VTAssumption, ConfigAssumption

\* VTs v and followers f are consistent when dang tells whether a waiting
\* display has been freed.
VTMaps(v, f, dang) ==
  /\ v \in [Displays -> -1..LastVT]
  /\ f \in [Displays -> Displays \cup {None, Freed}]
  /\ \A d \in Displays : f[d] # None => v[d] > 0 /\ f[d] # d
  /\ ~dang => \A d \in Displays :
                 /\ f[d] # Freed
                 /\ f[d] \in Displays =>
                      v[f[d]] = -1 /\ \A e \in Displays \ {d} : f[e] # f[d]

\* removeDisplay() keeps the VTs consistent and adds no waiting display.
LEMMA RemoveMaps ==
  ASSUME NEW v, NEW f, VTMaps(v, f, dangled), dangled \in BOOLEAN, RemoveDisplays(v, f)
  PROVE  /\ VTMaps(vt', follower', dangled')
         /\ dangled' \in BOOLEAN
         /\ \A d \in Displays : disp'[d].status = "absent" => vt'[d] = 0
         /\ \A d \in Displays : vt'[d] = -1 => v[d] = -1 /\ disp'[d].status # "absent"
<1> DEFINE Gone(d) == disp'[d].status = "absent"
<1>1. vt' = [d \in Displays |-> IF Gone(d) THEN 0 ELSE v[d]]
  BY DEF RemoveDisplays
<1>2. follower' = [d \in Displays |->
        IF Gone(d) THEN None ELSE IF f[d] \in Displays /\ Gone(f[d]) THEN Freed ELSE f[d]]
  BY DEF RemoveDisplays
<1>3. dangled' = (dangled \/ \E d \in Displays : follower'[d] = Freed)
  BY DEF RemoveDisplays
<1> HIDE DEF Gone
<1>4. vt' \in [Displays -> -1..LastVT]
  BY <1>1, VTConstants DEF VTMaps
<1>5. follower' \in [Displays -> Displays \cup {None, Freed}]
  BY <1>2 DEF VTMaps
<1>6. ASSUME NEW d \in Displays, follower'[d] # None PROVE vt'[d] > 0 /\ follower'[d] # d
  BY <1>1, <1>2, <1>6, VTConstants DEF VTMaps
<1>7. ASSUME ~dangled', NEW d \in Displays
      PROVE  /\ follower'[d] # Freed
             /\ follower'[d] \in Displays =>
                  /\ vt'[follower'[d]] = -1
                  /\ \A e \in Displays \ {d} : follower'[e] # follower'[d]
  <2>1. ~dangled /\ follower'[d] # Freed
    BY <1>3, <1>7
  <2>2. ASSUME follower'[d] \in Displays
        PROVE  vt'[follower'[d]] = -1 /\ \A e \in Displays \ {d} : follower'[e] # follower'[d]
    <3>1. follower'[d] = f[d] /\ ~Gone(f[d])
      BY <1>2, <2>1, <2>2, VTConstants
    <3>2. \A e \in Displays \ {d} : f[e] # f[d] /\ follower'[e] \in {None, Freed, f[e]}
      BY <1>2, <2>1, <2>2, <3>1 DEF VTMaps
    <3> QED
      BY <1>1, <2>1, <2>2, <3>1, <3>2, VTConstants DEF VTMaps
  <2> QED
    BY <2>1, <2>2
<1>8. \A d \in Displays : Gone(d) => vt'[d] = 0
  BY <1>1
<1>9. \A d \in Displays : vt'[d] = -1 => v[d] = -1 /\ ~Gone(d)
  BY <1>1
<1> QED
  BY <1>3, <1>4, <1>5, <1>6, <1>7, <1>8, <1>9 DEF VTMaps, Gone

\* VTInv in terms of the above.
LEMMA VTInvParts ==
  ASSUME IInv
  PROVE  VTInv <=> /\ VTMaps(vt, follower, dangled)
                   /\ dangled \in BOOLEAN
                   /\ allocating \in SUBSET Displays
                   /\ activeVTs = None \/ activeVTs \in SUBSET VTs
                   /\ AllocatingNeedsVT
                   /\ \A d \in Displays : disp[d].status = "absent" => vt[d] = 0
                   /\ \A d \in Displays : vt[d] = -1 => Idle(disp[d], session[d])
<1>1. WaitersHaveNoSession /\ LeadersHaveVT <=>
        /\ LeadersHaveVT
        /\ \A d \in Displays : vt[d] = -1 => Idle(disp[d], session[d])
  <2>1. ASSUME LeadersHaveVT, NEW d \in Displays, vt[d] = -1 PROVE disp[d].status # "absent"
    BY <2>1 DEF LeadersHaveVT
  <2> QED
    BY <2>1 DEF WaitersHaveNoSession, Idle, Leaving
<1> QED
  BY <1>1 DEF VTInv, VTTypeOK, LeadersHaveVT, FollowersWait, VTMaps

\* The same after a step.
LEMMA VTInvPartsNext ==
  ASSUME VTMaps(vt', follower', dangled'), dangled' \in BOOLEAN,
         allocating' \in SUBSET Displays, activeVTs' = None \/ activeVTs' \in SUBSET VTs,
         AllocatingNeedsVT',
         \A d \in Displays : disp'[d].status = "absent" => vt'[d] = 0,
         \A d \in Displays : vt'[d] = -1 => Idle(disp'[d], session'[d])
  PROVE  VTInv'
<1>1. \A d \in Displays : vt'[d] = -1 => disp'[d].status # "absent"
  BY DEF VTMaps
<1>2. WaitersHaveNoSession'
  BY <1>1 DEF WaitersHaveNoSession, Idle, Leaving
<1> QED
  BY <1>2 DEF VTInv, VTTypeOK, LeadersHaveVT, FollowersWait, VTMaps

\* Initially no display has a VT.
LEMMA VTInvInit == VTInit => VTInv
<1> SUFFICES ASSUME VTInit PROVE VTInv
  OBVIOUS
<1>1. \A d \in Displays : vt[d] = 0 /\ follower[d] = None
  BY DEF VTInit
<1>2. VTTypeOK
  <2>1. 0 \in -1..LastVT
    BY VTConstants
  <2> QED
    BY <2>1 DEF VTInit, VTTypeOK
<1>3. AllocatingNeedsVT
  BY DEF VTInit, AllocatingNeedsVT
<1>4. WaitersHaveNoSession /\ LeadersHaveVT /\ FollowersWait
  BY <1>1, VTConstants DEF WaitersHaveNoSession, LeadersHaveVT, FollowersWait
<1> QED
  BY <1>2, <1>3, <1>4 DEF VTInv

\* What getBusyVTs() finds are VTs.
LEMMA BusyType == \A busy \in BusyVTs : vt \in [Displays -> -1..LastVT] => busy \subseteq VTs
BY VTConstants DEF BusyVTs, VTs

\* allocateVT() keeps the invariant: the VT is new for d, or promised by a leader.
LEMMA AllocateInv ==
  ASSUME IInv, VTInv, NEW d \in Displays, AllocateVT(d)
  PROVE  VTInv'
<1>0. /\ VTMaps(vt, follower, dangled) /\ dangled \in BOOLEAN
      /\ allocating \in SUBSET Displays
      /\ activeVTs = None \/ activeVTs \in SUBSET VTs
      /\ AllocatingNeedsVT
      /\ \A e \in Displays : disp[e].status = "absent" => vt[e] = 0
      /\ \A e \in Displays : vt[e] = -1 => Idle(disp[e], session[e])
  BY VTInvParts
<1>1. /\ UNCHANGED <<vars, dangled>> /\ UNCHANGED <<pc, todo, disp, session>>
      /\ d \in allocating /\ allocating' = allocating \ {d}
  BY DEF AllocateVT, vars, masterVars, childVars
<1>2. NeedsVT(d)
  BY <1>0, <1>1 DEF AllocatingNeedsVT
<1>3. vt[d] = 0 /\ disp[d].status = "notRunning" /\ follower[d] = None
  BY <1>0, <1>2 DEF NeedsVT, VTMaps
<1>4. session[d] = "none"
  BY <1>3, IInvParts DEF DisplaysOK, DisplayOK
<1>5. \/ UNCHANGED <<vt, follower>>
      \/ \E v \in VTs : vt' = [vt EXCEPT ![d] = v] /\ UNCHANGED follower
      \/ \E v, leader : /\ leader \in Leaders(v) /\ vt' = [vt EXCEPT ![d] = -1]
                       /\ follower' = [follower EXCEPT ![leader] = d]
  <2>1. CASE ReqVT[d] \in VTs
    BY <2>1 DEF AllocateVT
  <2>2. CASE ReqVT[d] \notin VTs
    BY <2>2 DEF AllocateVT, Takes
  <2> QED
    BY <2>1, <2>2
<1>6. activeVTs' = None \/ activeVTs' \in SUBSET VTs
  BY <1>0, BusyType DEF AllocateVT, VTMaps
<1>7. vt' = [vt EXCEPT ![d] = vt'[d]] /\ vt'[d] \in -1..LastVT
  BY <1>0, <1>3, <1>5, VTConstants DEF VTMaps, VTs
<1>8. AllocatingNeedsVT'
  <2> SUFFICES ASSUME NEW e \in allocating' PROVE pc' = "kick" /\ e \in todo' /\ NeedsVT(e)'
    BY DEF AllocatingNeedsVT
  <2>1. e \in allocating /\ e # d /\ e \in Displays
    BY <1>0, <1>1
  <2>2. vt'[e] = vt[e]
    BY <1>0, <1>7, <2>1 DEF VTMaps
  <2> QED
    BY <1>0, <1>1, <2>1, <2>2 DEF AllocatingNeedsVT, NeedsVT
<1>9. VTMaps(vt', follower', dangled')
  <2>1. CASE UNCHANGED <<vt, follower>>
    BY <1>0, <1>1, <2>1
  <2>2. ASSUME NEW v \in VTs, vt' = [vt EXCEPT ![d] = v], UNCHANGED follower
        PROVE  VTMaps(vt', follower', dangled')
    BY <1>0, <1>1, <1>3, <2>2, VTConstants DEF VTMaps, VTs
  <2>3. ASSUME NEW v, NEW leader, leader \in Leaders(v), vt' = [vt EXCEPT ![d] = -1],
               follower' = [follower EXCEPT ![leader] = d]
        PROVE  VTMaps(vt', follower', dangled')
    <3>1. leader \in Displays /\ vt[leader] > 0 /\ leader # d /\ follower[leader] = None
      BY <1>3, <2>3 DEF Leaders, Managed, GivesUpVT
    <3>2. follower' \in [Displays -> Displays \cup {None, Freed}] /\ vt' \in [Displays -> -1..LastVT]
      BY <1>0, <1>7, <2>3 DEF VTMaps
    <3>3. \A e \in Displays : follower'[e] # None => vt'[e] > 0 /\ follower'[e] # e
      BY <1>0, <1>3, <2>3, <3>1 DEF VTMaps
    <3>4. ASSUME ~dangled', NEW e \in Displays
          PROVE  /\ follower'[e] # Freed
                 /\ follower'[e] \in Displays =>
                      /\ vt'[follower'[e]] = -1
                      /\ \A x \in Displays \ {e} : follower'[x] # follower'[e]
      BY <1>0, <1>1, <1>3, <2>3, <3>1, <3>4, VTConstants DEF VTMaps
    <3> QED
      BY <3>2, <3>3, <3>4 DEF VTMaps
  <2> QED
    BY <1>5, <2>1, <2>2, <2>3
<1>10. \A e \in Displays : disp'[e].status = "absent" => vt'[e] = 0
  BY <1>0, <1>1, <1>3, <1>7 DEF VTMaps
<1>11. \A e \in Displays : vt'[e] = -1 => Idle(disp'[e], session'[e])
  BY <1>0, <1>1, <1>3, <1>4, <1>7 DEF VTMaps, Idle
<1> QED
  BY <1>0, <1>1, <1>6, <1>8, <1>9, <1>10, <1>11, VTInvPartsNext

\* The steps without a VT in them keep the master's list of displays to kick.
LEMMA OthersKeepTodo ==
  ASSUME OtherSteps
  PROVE  UNCHANGED todo /\ (pc = "kick" /\ todo # {} => UNCHANGED <<pc, disp>>)
<1> USE DEF masterVars, childVars
<1>1. CASE NoShutdownDue \/ ShutdownWaits \/ ShutdownExpires \/ NothingElse
  BY <1>1 DEF NoShutdownDue, ShutdownWaits, ShutdownExpires, NothingElse
<1>2. CASE Timeouts
  BY <1>2 DEF Timeouts, ServerTimeout, UtmpTimeout
<1>3. CASE Messages
  BY <1>3 DEF Messages, RecvXConnOk, RecvUser, RecvGarbage, RecvConsole, RecvUnUser, Dispatch
<1>4. CASE Commands \/ Packets
  BY <1>4
  DEF Commands, Packets, CmdResume, CmdLogin, CmdSuicide, CmdReserve, CmdManage, CmdUnmanage,
      XdmcpManage, RequestShutdown, CancelShutdown, OnlyDisp, Dispatch
<1>5. CASE Children \/ Terminated
  BY <1>5
  DEF Children, ServerReady, ServerExit, SessionConnect, SessionExit, Terminated, vars
<1>6. CASE HandleSigterm \/ \E C \in Kdmrc : HandleSighup(C) \/ EndReap(C)
  BY <1>6 DEF HandleSigterm, HandleSighup, EndReap, Dispatch
<1>7. CASE \E d \in Displays : HandleSigusr1(d) \/ ReapSession(d)
  BY <1>7 DEF HandleSigusr1, ReapSession, Dispatch, Reap
<1> QED
  BY <1>1, <1>2, <1>3, <1>4, <1>5, <1>6, <1>7 DEF OtherSteps

\* What is left to show once removeDisplay() has been applied to the VTs v and the
\* followers f, with no new waiting display among them.
LEMMA RemoveInv ==
  ASSUME ConsoleTTYs = FALSE, IInv, VTInv, [Next]_vars, NEW v, NEW f,
         VTMaps(v, f, dangled), RemoveDisplays(v, f),
         \A d \in Displays : v[d] = -1 => vt[d] = -1,
         \A d \in Displays : vt[d] = -1 /\ KickDisplay(d, FALSE) => KickDisplay(d, TRUE),
         allocating' \in SUBSET Displays, UNCHANGED activeVTs, AllocatingNeedsVT'
  PROVE  VTInv'
<1>0. /\ dangled \in BOOLEAN
      /\ activeVTs = None \/ activeVTs \in SUBSET VTs
      /\ \A d \in Displays : disp[d].status = "absent" => vt[d] = 0
      /\ \A d \in Displays : vt[d] = -1 => Idle(disp[d], session[d])
  BY VTInvParts
<1>1. /\ VTMaps(vt', follower', dangled')
      /\ dangled' \in BOOLEAN
      /\ \A d \in Displays : disp'[d].status = "absent" => vt'[d] = 0
      /\ \A d \in Displays : vt'[d] = -1 => v[d] = -1
  BY <1>0, RemoveMaps
<1>2. ASSUME NEW d \in Displays, vt'[d] = -1 PROVE Idle(disp'[d], session'[d])
  <2>1. vt[d] = -1
    BY <1>1, <1>2
  <2>2. Idle(disp[d], session[d]) /\ disp[d].status # "absent"
    BY <1>0, <2>1
  <2> QED
    BY <2>1, <2>2, IdleStep
<1> QED
  BY <1>0, <1>1, <1>2, VTInvPartsNext

\* One step per action.
LEMMA VTInvStep ==
  ASSUME ConsoleTTYs = FALSE, IInv, VTInv, [VTNext]_allVars
  PROVE  VTInv'
<1>0. /\ VTMaps(vt, follower, dangled)
      /\ allocating \in SUBSET Displays
      /\ AllocatingNeedsVT
  BY VTInvParts
<1>m. [Next]_vars
  BY VTStep
<1> USE DEF masterVars, childVars
<1>a. ASSUME UNCHANGED <<pc, todo, disp>>, KeepVTs PROVE AllocatingNeedsVT'
  <2> SUFFICES ASSUME NEW d \in allocating'
               PROVE  pc' = "kick" /\ d \in todo' /\ NeedsVT(d)'
    BY DEF AllocatingNeedsVT
  <2>1. d \in allocating /\ d \in Displays /\ NeedsVT(d)
    BY <1>0, <1>a DEF KeepVTs, AllocatingNeedsVT
  <2>2. vt'[d] = vt[d]
    BY <1>0, <1>a, <2>1 DEF KeepVTs, RemoveDisplays, NeedsVT
  <2> QED
    BY <1>0, <1>a, <2>1, <2>2 DEF AllocatingNeedsVT, NeedsVT
<1>b. ASSUME allocating = {}, allocating' = allocating PROVE AllocatingNeedsVT'
  BY <1>b DEF AllocatingNeedsVT
<1>1. CASE VTLoopTop
  <2>1. LoopTop /\ RemoveDisplays(vt, follower) /\ UNCHANGED activeVTs
    BY <1>1 DEF VTLoopTop
  <2>2. allocating' = {d \in Displays : pc' = "kick" /\ ~stopping /\ NeedsVT(d)'}
    BY <1>1 DEF VTLoopTop
  <2>3. AllocatingNeedsVT'
    <3> SUFFICES ASSUME NEW d \in allocating' PROVE pc' = "kick" /\ d \in todo' /\ NeedsVT(d)'
      BY DEF AllocatingNeedsVT
    <3>1. d \in Displays /\ pc' = "kick" /\ ~stopping /\ NeedsVT(d)'
      BY <2>2
    <3>2. todo' = {e \in Displays : disp'[e].status # "absent"}
      BY <2>1, <3>1 DEF LoopTop
    <3>3. disp'[d].status = "notRunning"
      BY <3>1 DEF NeedsVT
    <3> QED
      BY <3>1, <3>2, <3>3
  <2>4. \A d \in Displays : ~KickDisplay(d, FALSE)
    BY <2>1 DEF LoopTop, KickDisplay
  <2> QED
    BY <1>0, <1>m, <2>1, <2>2, <2>3, <2>4, RemoveInv
<1>2. ASSUME NEW d \in Displays, AllocateVT(d) PROVE VTInv'
  BY <1>2, AllocateInv
<1>3. ASSUME NEW d \in Displays, VTKickDisplay(d) PROVE VTInv'
  <2>1. /\ KickDisplay(d, vt[d] = -1) /\ allocating = {} /\ allocating' = allocating
        /\ UNCHANGED activeVTs /\ RemoveDisplays(vt, follower)
    BY <1>3 DEF VTKickDisplay, KeepVTs
  <2>2. ASSUME NEW e \in Displays, vt[e] = -1, KickDisplay(e, FALSE) PROVE KickDisplay(e, TRUE)
    <3>1. d \in todo /\ todo' = todo \ {d} /\ e \in todo /\ todo' = todo \ {e}
      BY <2>1, <2>2 DEF KickDisplay
    <3>2. e = d
      BY <3>1
    <3>3. (vt[d] = -1) = TRUE
      BY <2>2, <3>2
    <3> QED
      BY <2>1, <3>2, <3>3
  <2> QED
    BY <1>0, <1>b, <1>m, <2>1, <2>2, RemoveInv
<1>4. ASSUME NEW d \in Displays, VTReapServer(d) PROVE VTInv'
  <2>1. ReapServer(d) /\ UNCHANGED <<allocating, activeVTs>> /\ UNCHANGED todo
    BY <1>4 DEF VTReapServer, ReapServer
  <2>2. allocating = {}
    BY <1>0, <2>1 DEF AllocatingNeedsVT, ReapServer, Reap
  <2>3. \A e \in Displays : ~KickDisplay(e, FALSE)
    BY <2>1 DEF ReapServer, Reap, KickDisplay
  <2>4. CASE ~(GivesUpVT(d) /\ vt[d] # 0)
    <3>1. RemoveDisplays(vt, follower)
      BY <1>4, <2>4 DEF VTReapServer
    <3> QED
      BY <1>0, <1>b, <1>m, <2>1, <2>2, <2>3, <3>1, RemoveInv
  <2>5. CASE GivesUpVT(d) /\ vt[d] = -1
    <3>1. disp[d].status = "zombie" /\ disp[d].zstatus = "remove" /\ session[d] = "none"
      BY <1>0, <2>5, VTInvParts DEF Idle, GivesUpVT
    <3>2. disp'[d].status = "absent"
      <4>1. disp \in [Displays -> DisplayRecords] /\ server \in [Displays -> ServerStates]
        BY DEF IInv, TypeOK
      <4>2. StopDisplayTo(d, disp[d], "remove", session, [server EXCEPT ![d] = "none"])
        BY <2>1, <3>1 DEF ReapServer
      <4>3. disp' = [disp EXCEPT ![d] = Absent]
        BY <3>1, <4>1, <4>2 DEF StopDisplayTo, Stopped
      <4> QED
        BY <4>1, <4>3 DEF Absent
    <3>3. follower[d] = None
      BY <1>0, <2>5 DEF VTMaps
    <3>4. RemoveDisplays([vt EXCEPT ![d] = 0], follower)
      <4>1. PICK h \in HandOver(d) : RemoveDisplays(h.vt, h.follower)
        BY <1>4, <2>5 DEF VTReapServer
      <4>2. h.vt = [vt EXCEPT ![d] = 0] /\ h.follower = follower
        BY <3>3, VTConstants DEF HandOver
      <4> QED
        BY <4>1, <4>2
    <3>5. RemoveDisplays(vt, follower)
      BY <1>0, <3>2, <3>4 DEF RemoveDisplays, VTMaps
    <3> QED
      BY <1>0, <1>b, <1>m, <2>1, <2>2, <2>3, <3>5, RemoveInv
  <2>6. CASE GivesUpVT(d) /\ vt[d] > 0
    <3>1. PICK h \in HandOver(d) : RemoveDisplays(h.vt, h.follower)
      BY <1>4, <2>6 DEF VTReapServer
    <3>2. \/ /\ follower[d] \notin Displays
             /\ h.vt = [vt EXCEPT ![d] = 0]
             /\ h.follower = [follower EXCEPT ![d] = None]
          \/ \E e \in Displays \ {d} :
               /\ h.vt = [vt EXCEPT ![d] = 0, ![e] = vt[d]]
               /\ h.follower = [follower EXCEPT ![d] = None]
               /\ follower[d] # None /\ (follower[d] \in Displays => e = follower[d])
      <4>1. CASE follower[d] = None
        <5>1. h.vt = [vt EXCEPT ![d] = 0] /\ h.follower = follower
          BY <4>1, VTConstants DEF HandOver
        <5>2. follower = [follower EXCEPT ![d] = None]
          BY <1>0, <4>1 DEF VTMaps
        <5> QED
          BY <4>1, <5>1, <5>2, VTConstants
      <4>2. CASE follower[d] \in Displays
        <5>1. follower[d] # d /\ follower[d] # None
          BY <1>0, <4>2, VTConstants DEF VTMaps
        <5>2. /\ h.vt = [vt EXCEPT ![d] = 0, ![follower[d]] = vt[d]]
              /\ h.follower = [follower EXCEPT ![d] = None]
          BY <4>2, <5>1 DEF HandOver
        <5> QED
          BY <4>2, <5>1, <5>2
      <4>3. CASE follower[d] = Freed
        <5>1. follower[d] \notin Displays /\ follower[d] # None
          BY <4>3, VTConstants
        <5>2. \/ h = [vt |-> [vt EXCEPT ![d] = 0], follower |-> [follower EXCEPT ![d] = None]]
              \/ \E e \in Reused(d) :
                   h = [vt |-> [vt EXCEPT ![d] = 0, ![e] = vt[d]],
                        follower |-> [follower EXCEPT ![d] = None]]
          BY <5>1 DEF HandOver
        <5>3. Reused(d) \subseteq Displays \ {d}
          BY DEF Reused, Managed
        <5>4. CASE h = [vt |-> [vt EXCEPT ![d] = 0], follower |-> [follower EXCEPT ![d] = None]]
          BY <5>1, <5>4
        <5>5. ASSUME NEW e \in Reused(d),
                     h = [vt |-> [vt EXCEPT ![d] = 0, ![e] = vt[d]],
                          follower |-> [follower EXCEPT ![d] = None]]
              PROVE  /\ e \in Displays \ {d}
                     /\ h.vt = [vt EXCEPT ![d] = 0, ![e] = vt[d]]
                     /\ h.follower = [follower EXCEPT ![d] = None]
          BY <5>3, <5>5
        <5> QED
          BY <5>1, <5>2, <5>4, <5>5
      <4> QED
        BY <1>0, <4>1, <4>2, <4>3 DEF VTMaps
    <3>3. ASSUME ~dangled, NEW e \in Displays PROVE follower[e] # d
      BY <1>0, <2>6, <3>3 DEF VTMaps
    <3>4. vt[d] \in 1..LastVT /\ 0 \in -1..LastVT
      BY <1>0, <2>6, VTConstants DEF VTMaps
    <3>5. VTMaps(h.vt, h.follower, dangled) /\ \A e \in Displays : h.vt[e] = -1 => vt[e] = -1
      <4>1. CASE /\ follower[d] \notin Displays
                 /\ h.vt = [vt EXCEPT ![d] = 0]
                 /\ h.follower = [follower EXCEPT ![d] = None]
        <5>1. /\ h.vt \in [Displays -> -1..LastVT]
              /\ h.follower \in [Displays -> Displays \cup {None, Freed}]
              /\ \A e \in Displays : h.vt[e] = -1 => vt[e] = -1
          BY <1>0, <3>4, <4>1 DEF VTMaps
        <5>2. \A e \in Displays : h.follower[e] # None => h.vt[e] > 0 /\ h.follower[e] # e
          BY <1>0, <4>1 DEF VTMaps
        <5>3. ASSUME ~dangled, NEW e \in Displays
              PROVE  /\ h.follower[e] # Freed
                     /\ h.follower[e] \in Displays =>
                          /\ h.vt[h.follower[e]] = -1
                          /\ \A x \in Displays \ {e} : h.follower[x] # h.follower[e]
          BY <1>0, <3>3, <4>1, <5>3, VTConstants DEF VTMaps
        <5> QED
          BY <5>1, <5>2, <5>3 DEF VTMaps
      <4>2. ASSUME NEW e \in Displays \ {d},
                   h.vt = [vt EXCEPT ![d] = 0, ![e] = vt[d]],
                   h.follower = [follower EXCEPT ![d] = None],
                   follower[d] # None, follower[d] \in Displays => e = follower[d]
            PROVE  VTMaps(h.vt, h.follower, dangled)
                   /\ \A x \in Displays : h.vt[x] = -1 => vt[x] = -1
        <5>1. \A x \in Displays :
                h.vt[x] = IF x = e THEN vt[d] ELSE IF x = d THEN 0 ELSE vt[x]
          BY <1>0, <4>2 DEF VTMaps
        <5>2. \A x \in Displays : h.follower[x] = IF x = d THEN None ELSE follower[x]
          BY <1>0, <4>2 DEF VTMaps
        <5>3. /\ h.vt \in [Displays -> -1..LastVT]
              /\ h.follower \in [Displays -> Displays \cup {None, Freed}]
          BY <1>0, <3>4, <4>2 DEF VTMaps
        <5>4. \A x \in Displays : h.vt[x] = -1 => vt[x] = -1
          BY <3>4, <5>1
        <5>5. \A x \in Displays : h.follower[x] # None => h.vt[x] > 0 /\ h.follower[x] # x
          BY <1>0, <3>4, <5>1, <5>2 DEF VTMaps
        <5>6. ASSUME ~dangled, NEW x \in Displays, h.follower[x] \in Displays
              PROVE  /\ h.vt[h.follower[x]] = -1
                     /\ \A y \in Displays \ {x} : h.follower[y] # h.follower[x]
          <6>1. x # d /\ h.follower[x] = follower[x]
            BY <5>2, <5>6, VTConstants
          <6>2. vt[follower[x]] = -1 /\ follower[x] # d
            BY <1>0, <3>3, <5>6, <6>1 DEF VTMaps
          <6>3. follower[x] # e
            BY <1>0, <4>2, <5>6, <6>1, VTConstants DEF VTMaps
          <6>4. \A y \in Displays \ {x} : h.follower[y] # h.follower[x]
            BY <1>0, <5>2, <5>6, <6>1, VTConstants DEF VTMaps
          <6> QED
            BY <5>1, <5>6, <6>1, <6>2, <6>3, <6>4
        <5>7. ASSUME ~dangled, NEW x \in Displays PROVE h.follower[x] # Freed
          BY <1>0, <5>2, <5>7, VTConstants DEF VTMaps
        <5> QED
          BY <5>3, <5>4, <5>5, <5>6, <5>7 DEF VTMaps
      <4> QED
        BY <3>2, <4>1, <4>2
    <3> QED
      BY <1>0, <1>b, <1>m, <2>1, <2>2, <2>3, <3>1, <3>5, RemoveInv
  <2> QED
    BY <1>0, <2>4, <2>5, <2>6 DEF VTMaps
<1>5. CASE OtherSteps /\ KeepVTs
  <2>1. UNCHANGED todo /\ (pc = "kick" /\ todo # {} => UNCHANGED <<pc, disp>>)
    BY <1>5, OthersKeepTodo
  <2>2. \A d \in Displays : ~KickDisplay(d, FALSE)
    BY <2>1 DEF KickDisplay
  <2>3. AllocatingNeedsVT'
    <3>1. CASE allocating = {}
      BY <1>5, <1>b, <3>1 DEF KeepVTs
    <3>2. CASE allocating # {}
      BY <1>0, <1>5, <1>a, <2>1, <3>2 DEF AllocatingNeedsVT
    <3> QED
      BY <3>1, <3>2
  <2> QED
    BY <1>0, <1>5, <1>m, <2>2, <2>3, RemoveInv DEF KeepVTs
<1>6. CASE UNCHANGED allVars
  BY <1>6
  DEF allVars, vtVars, vars, VTInv, VTTypeOK, AllocatingNeedsVT, NeedsVT, WaitersHaveNoSession,
      Leaving, LeadersHaveVT, FollowersWait
<1> QED
  BY <1>1, <1>2, <1>3, <1>4, <1>5, <1>6 DEF VTNext

\* What serverVT and follower mean holds in every configuration without a console
\* mode: a waiting display is not started, and is the one a VT is promised to.
THEOREM VTInvariance ==
  ASSUME ConsoleTTYs = FALSE
  PROVE  VTSpec => []VTInv
<1>0. ConsoleOfTwo
  BY DEF ConsoleOfTwo
<1>1. VTSpec => []IInv
  BY <1>0, Invariance, VTImplementsMaster, PTL
<1>2. IInv /\ VTInv /\ [VTNext]_allVars => VTInv'
  BY VTInvStep
<1> QED
  BY <1>1, <1>2, VTInvInit, PTL DEF VTSpec

-----------------------------------------------------------------------------
(* An X server keeps its VT *)

\* Only a reaped X server's VT, and one of a display that is gone, is taken away.
LEMMA LostVTStep ==
  ASSUME ConsoleTTYs = FALSE, IInv, IInv', VTInv, [VTNext]_allVars
  PROVE  LostVTsAreUnused
<1> SUFFICES ASSUME ~dangled, NEW d \in Displays, vt[d] > 0, vt'[d] # vt[d]
             PROVE  server'[d] = "none"
  BY DEF LostVTsAreUnused
<1>0. VTMaps(vt, follower, dangled) /\ AllocatingNeedsVT
  BY VTInvParts
<1>1. disp'[d].status = "absent" => server'[d] = "none"
  BY DEF IInv, StatusMatchesProcesses
<1>2. CASE RemoveDisplays(vt, follower)
  BY <1>0, <1>1, <1>2 DEF RemoveDisplays, VTMaps
<1>3. ASSUME NEW e \in Displays, AllocateVT(e) PROVE server'[d] = "none"
  <2>1. vt[e] = 0
    BY <1>0, <1>3 DEF AllocateVT, AllocatingNeedsVT, NeedsVT
  <2>2. vt'[d] = vt[d]
    <3>1. CASE ReqVT[e] \in VTs
      BY <1>0, <1>3, <2>1, <3>1 DEF AllocateVT, VTMaps
    <3>2. CASE ReqVT[e] \notin VTs
      BY <1>0, <1>3, <2>1, <3>2 DEF AllocateVT, VTMaps
    <3> QED
      BY <3>1, <3>2
  <2> QED
    BY <2>2
<1>4. ASSUME NEW e \in Displays, VTReapServer(e), ~RemoveDisplays(vt, follower)
      PROVE  server'[d] = "none"
  <2>1. GivesUpVT(e) /\ ReapServer(e)
    BY <1>4 DEF VTReapServer
  <2>2. PICK h \in HandOver(e) : RemoveDisplays(h.vt, h.follower)
    BY <1>4 DEF VTReapServer
  <2>3. server'[e] = "none"
    <3>1. disp \in [Displays -> DisplayRecords] /\ server \in [Displays -> ServerStates]
      BY DEF IInv, TypeOK
    <3>2. disp[e].zstatus \in {"remove", "textMode", "reserve"}
      BY <2>1, <3>1 DEF GivesUpVT, DisplayRecords, Fates
    <3>3. StopDisplayTo(e, disp[e], disp[e].zstatus, session, [server EXCEPT ![e] = "none"])
      BY <2>1 DEF ReapServer, GivesUpVT
    <3>4. server' = [server EXCEPT ![e] = "none"]
      BY <3>2, <3>3 DEF StopDisplayTo
    <3> QED
      BY <3>1, <3>4
  <2>4. CASE disp'[d].status = "absent" \/ d = e
    BY <1>1, <2>3, <2>4
  <2>5. CASE disp'[d].status # "absent" /\ d # e
    <3>1. h.vt[d] # vt[d]
      BY <2>2, <2>5 DEF RemoveDisplays
    <3>2. follower[e] # Freed
      BY <1>0 DEF VTMaps
    <3>3. CASE follower[e] = None
      BY <1>0, <2>5, <3>1, <3>3, VTConstants DEF HandOver, VTMaps
    <3>4. CASE follower[e] \in Displays
      <4>1. h.vt = [vt EXCEPT ![e] = 0, ![follower[e]] = vt[e]]
        BY <3>4, VTConstants DEF HandOver
      <4>2. d = follower[e]
        BY <1>0, <2>5, <3>1, <4>1 DEF VTMaps
      <4>3. vt[d] = -1
        BY <1>0, <3>4, <4>2 DEF VTMaps
      <4> QED
        BY <4>3
    <3> QED
      BY <1>0, <3>2, <3>3, <3>4 DEF VTMaps
  <2> QED
    BY <2>4, <2>5
<1>5. CASE UNCHANGED allVars
  BY <1>5 DEF allVars, vtVars
<1> QED
  BY <1>2, <1>3, <1>4, <1>5 DEF VTNext, VTLoopTop, VTKickDisplay, KeepVTs

\* An X server keeps its VT, in every configuration without a console mode, as long
\* as no display has been freed that waited for one.
THEOREM VTKept ==
  ASSUME ConsoleTTYs = FALSE
  PROVE  VTSpec => ServerKeepsVT
<1>0. ConsoleOfTwo
  BY DEF ConsoleOfTwo
<1>1. VTSpec => []IInv
  BY <1>0, Invariance, VTImplementsMaster, PTL
<1>2. IInv /\ IInv' /\ VTInv /\ [VTNext]_allVars => LostVTsAreUnused
  BY LostVTStep
<1> QED
  BY <1>1, <1>2, VTInvariance, PTL DEF VTSpec, ServerKeepsVT

-----------------------------------------------------------------------------
(* A VT is not given twice *)

\* What OneDisplayPerVT needs beside, of the VTs v when dang tells whether a waiting
\* display has been freed: only local displays have a VT.
Owners(v, dang) ==
  ~dang => /\ \A d \in Displays : v[d] # 0 => d \in Local
           /\ \A d, e \in Displays :
                d # e /\ v[d] > 0 /\ v[d] = v[e] => \E x \in Displays : ReqVT[x] = v[d]

\* removeDisplay() gives no VT to anyone.
LEMMA RemoveOwners ==
  ASSUME NEW v, NEW f, Owners(v, dangled), RemoveDisplays(v, f)
  PROVE  Owners(vt', dangled')
<1>1. \A d \in Displays : vt'[d] \in {0, v[d]}
  BY DEF RemoveDisplays
<1>2. ~dangled' => ~dangled
  BY DEF RemoveDisplays
<1> QED
  BY <1>1, <1>2 DEF Owners

\* allocateVT() gives a VT that kdmrc asks for, one that no display has or promises,
\* or none yet.
LEMMA AllocateOwners ==
  ASSUME TwoLocals, VTMaps(vt, follower, dangled), AllocatingNeedsVT,
         \A e \in Displays : disp[e].status = "absent" => vt[e] = 0,
         Owners(vt, dangled), NEW d \in Displays, AllocateVT(d)
  PROVE  Owners(vt', dangled')
<1> SUFFICES ASSUME ~dangled PROVE Owners(vt', FALSE)
  BY DEF AllocateVT, Owners
<1>1. d \in allocating
  BY DEF AllocateVT
<1>2. d \in Local /\ vt[d] = 0
  BY <1>1 DEF AllocatingNeedsVT, NeedsVT
<1>3. \/ UNCHANGED vt
      \/ vt' = [vt EXCEPT ![d] = -1]
      \/ vt' = [vt EXCEPT ![d] = ReqVT[d]]
      \/ \E c, busy : Takes(c, busy) /\ vt' = [vt EXCEPT ![d] = c.vt]
  <2>1. CASE ReqVT[d] \in VTs
    BY <2>1 DEF AllocateVT
  <2>2. CASE ReqVT[d] \notin VTs
    BY <2>2 DEF AllocateVT
  <2> QED
    BY <2>1, <2>2
<1>4. \A e \in Displays \ {d} : vt'[e] = vt[e]
  BY <1>3 DEF VTMaps
<1>5. \A e \in Displays : vt'[e] # 0 => e \in Local
  BY <1>2, <1>4 DEF Owners
<1>6. ASSUME NEW e \in Displays \ {d}, vt'[d] > 0, vt'[d] = vt[e]
      PROVE  \E x \in Displays : ReqVT[x] = vt'[d]
  <2>1. CASE vt' = [vt EXCEPT ![d] = ReqVT[d]]
    BY <2>1 DEF VTMaps
  <2>2. ASSUME NEW c, NEW busy, Takes(c, busy), vt' = [vt EXCEPT ![d] = c.vt] PROVE FALSE
    <3>1. vt'[d] = c.vt /\ c.vt = vt[e] /\ vt[e] > 0
      BY <1>6, <2>2 DEF VTMaps
    <3>2. e \in Managed
      BY <3>1 DEF Managed
    <3>3. GivesUpVT(e) /\ follower[e] # None
      BY <2>2, <3>1, <3>2 DEF Takes, Held, Leaders
    <3>4. follower[e] \in Displays /\ follower[e] # e /\ vt[follower[e]] = -1
      BY <3>3 DEF VTMaps
    <3>5. e \in Local /\ follower[e] \in Local /\ follower[e] # d
      BY <1>2, <3>1, <3>4 DEF Owners
    <3> QED
      BY <1>2, <1>6, <3>4, <3>5 DEF TwoLocals
  <2>3. vt'[d] # vt[d] /\ vt'[d] # -1
    BY <1>2, <1>6
  <2> QED
    BY <1>3, <1>6, <2>1, <2>2, <2>3 DEF VTMaps
<1>7. ASSUME NEW e1 \in Displays, NEW e2 \in Displays, e1 # e2, vt'[e1] > 0, vt'[e1] = vt'[e2]
      PROVE  \E x \in Displays : ReqVT[x] = vt'[e1]
  BY <1>4, <1>6, <1>7 DEF Owners
<1> QED
  BY <1>5, <1>7 DEF Owners

\* A zombie's VT goes to its follower, which has had none, and is then not its own.
LEMMA HandOverOwners ==
  ASSUME VTMaps(vt, follower, dangled), Owners(vt, dangled), NEW d \in Displays, vt[d] # 0,
         NEW h \in HandOver(d)
  PROVE  Owners(h.vt, dangled)
<1> SUFFICES ASSUME ~dangled PROVE Owners(h.vt, FALSE)
  BY DEF Owners
<1>1. CASE follower[d] = None
  <2>1. h.vt = [vt EXCEPT ![d] = 0]
    BY <1>1, VTConstants DEF HandOver
  <2> QED
    BY <2>1 DEF Owners, VTMaps
<1>2. CASE follower[d] \in Displays
  <2>1. h.vt = [vt EXCEPT ![d] = 0, ![follower[d]] = vt[d]]
    BY <1>2, VTConstants DEF HandOver
  <2>2. follower[d] # d /\ vt[follower[d]] = -1 /\ follower[d] \in Local
    BY <1>2, VTConstants DEF VTMaps, Owners
  <2>3. \A x \in Displays :
          h.vt[x] = IF x = follower[d] THEN vt[d] ELSE IF x = d THEN 0 ELSE vt[x]
    BY <1>2, <2>1, <2>2 DEF VTMaps
  <2>4. \A x \in Displays : h.vt[x] # 0 => x \in Local
    BY <2>2, <2>3 DEF Owners
  <2>5. ASSUME NEW x \in Displays, NEW y \in Displays, x # y, h.vt[x] > 0, h.vt[x] = h.vt[y]
        PROVE  \E z \in Displays : ReqVT[z] = h.vt[x]
    <3>1. CASE x = follower[d]
      BY <2>3, <2>5, <3>1 DEF Owners
    <3>2. CASE y = follower[d]
      BY <2>3, <2>5, <3>2 DEF Owners
    <3>3. CASE x # follower[d] /\ y # follower[d]
      BY <2>3, <2>5, <3>3 DEF Owners
    <3> QED
      BY <3>1, <3>2, <3>3
  <2> QED
    BY <2>4, <2>5 DEF Owners
<1> QED
  BY <1>1, <1>2 DEF VTMaps

\* One step per action.
LEMMA OwnersStep ==
  ASSUME TwoLocals, IInv, VTInv, Owners(vt, dangled), [VTNext]_allVars
  PROVE  Owners(vt', dangled')
<1>0. /\ VTMaps(vt, follower, dangled) /\ AllocatingNeedsVT
      /\ \A e \in Displays : disp[e].status = "absent" => vt[e] = 0
  BY VTInvParts
<1>1. CASE RemoveDisplays(vt, follower)
  BY <1>1, RemoveOwners
<1>2. ASSUME NEW d \in Displays, AllocateVT(d) PROVE Owners(vt', dangled')
  BY <1>0, <1>2, AllocateOwners
<1>3. ASSUME NEW d \in Displays, VTReapServer(d) PROVE Owners(vt', dangled')
  <2>1. CASE GivesUpVT(d) /\ vt[d] # 0
    <3>1. PICK h \in HandOver(d) : RemoveDisplays(h.vt, h.follower)
      BY <1>3, <2>1 DEF VTReapServer
    <3>2. Owners(h.vt, dangled)
      BY <1>0, <2>1, HandOverOwners
    <3> QED
      BY <3>1, <3>2, RemoveOwners
  <2> QED
    BY <1>1, <1>3, <2>1 DEF VTReapServer
<1>4. CASE UNCHANGED allVars
  BY <1>4 DEF allVars, vtVars
<1> QED
  BY <1>1, <1>2, <1>3, <1>4 DEF VTNext, VTLoopTop, VTKickDisplay, KeepVTs

\* With one or two local displays, no VT is given to two of them unless kdmrc asks for
\* it, across promise, hand-over and reuse, as long as no waiting display has been freed.
THEOREM VTsAreNotShared ==
  ASSUME ConsoleTTYs = FALSE, TwoLocals
  PROVE  VTSpec => []OneDisplayPerVT
<1>0. ConsoleOfTwo
  BY DEF ConsoleOfTwo
<1>1. VTSpec => []IInv
  BY <1>0, Invariance, VTImplementsMaster, PTL
<1>2. VTInit => Owners(vt, dangled)
  <2>1. VTInit => \A d \in Displays : vt[d] = 0
    BY DEF VTInit
  <2> QED
    BY <2>1 DEF Owners
<1>3. IInv /\ VTInv /\ Owners(vt, dangled) /\ [VTNext]_allVars => Owners(vt, dangled)'
  BY OwnersStep
<1>4. Owners(vt, dangled) => OneDisplayPerVT
  BY DEF Owners, OneDisplayPerVT
<1> QED
  BY <1>1, <1>2, <1>3, <1>4, VTInvariance, PTL DEF VTSpec

==================================================
