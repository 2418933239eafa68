---------------------------- MODULE ConfigProofs ----------------------------
(***************************************************************************)
(* What Config does for every set of displays and files, and whatever the  *)
(* files say: the invariant ConfigInv, part by part.                       *)
(***************************************************************************)
EXTENDS Config, TLAPS

\* What a reader answers with is some text of kdmrc.
LEMMA ConfIsText ==
  ASSUME TypeOK PROVE Conf \in Texts /\ Conf \in Settings /\ Conf # None
BY ConfigAssumption DEF TypeOK, TextOrNone, Conf

\* The sockets a scan ends with.
LEMMA AccessDoneSockets ==
  ASSUME TypeOK, AccessDone, accData'.hosts \in {None} \cup SUBSET Interfaces
  PROVE  listensocks' \in SUBSET Interfaces /\ pc' = "loop"
BY DEF AccessDone, UpdateListenSockets, TypeOK

-----------------------------------------------------------------------------
(* Types *)

\* A scan keeps the types.
LEMMA ScanTypes == ASSUME TypeOK, FileIsNamed, Scan PROVE TypeOK'
<1> USE ConfigAssumption DEF TypeOK, Times, TextOrNone, filVars, cfgVars, dpyVars
<1>1. CASE GetDeps
  BY <1>1, ConfIsText DEF GetDeps, ReadConfig, Settings
<1>2. CASE DepTime
  BY <1>2 DEF DepTime
<1>3. CASE GetDepsFails
  <2>1. cfgFiles' \in [name : AccessFiles \cup {None}, deptime : Times]
    BY <1>3 DEF GetDepsFails
  <2>2. accData' = accData /\ NoDeps
    BY <1>3 DEF GetDepsFails
  <2>3. listensocks' \in SUBSET Interfaces /\ pc' \in {"loop", "exit"}
    BY <2>2, AccessDoneSockets DEF NoDeps
  <2> QED
    BY <1>3, <2>1, <2>2, <2>3 DEF GetDepsFails, NoDeps, Dies
<1>4. CASE CheckGlobals
  BY <1>4 DEF CheckGlobals
<1>5. CASE LoadDMResources
  BY <1>5, ConfIsText DEF LoadDMResources, ReadConfig, Settings, Statuses
<1>6. CASE LoadDMResourcesFails
  BY <1>6 DEF LoadDMResourcesFails, Dies
<1>7. CASE CheckDep
  BY <1>7 DEF CheckDep
<1>8. CASE CheckAccess
  <2>1. CASE Forced \/ AccessChanged
    <3>1. cfgFiles.name \in AccessFiles /\ access[cfgFiles.name].time \in 0..MaxTime
      BY <1>8 DEF CheckAccess, FileIsNamed
    <3>2. accData' = [accData EXCEPT !.name = cfgFiles.name,
                                     !.time = access[cfgFiles.name].time,
                                     !.read = FALSE]
          /\ pc' = "readAccess" /\ UNCHANGED listensocks
      BY <1>8, <2>1 DEF CheckAccess
    <3>3. accData' \in [name : AccessFiles \cup {None}, time : Times,
                       hosts : {None} \cup SUBSET Interfaces, read : BOOLEAN]
      BY <3>1, <3>2
    <3> QED
      BY <1>8, <3>2, <3>3 DEF CheckAccess
  <2>2. CASE ~(Forced \/ AccessChanged)
    <3>1. AccessDone /\ accData' = accData
      BY <1>8, <2>2 DEF CheckAccess
    <3> QED
      BY <1>8, <3>1, AccessDoneSockets DEF CheckAccess
  <2> QED
    BY <2>1, <2>2
<1>9. CASE ReadAccess
  <2>1. access[accData.name].hosts \in SUBSET Interfaces
    BY <1>9 DEF ReadAccess, FileIsNamed
  <2>2. accData' \in [name : AccessFiles \cup {None}, time : Times,
                     hosts : {None} \cup SUBSET Interfaces, read : BOOLEAN]
    BY <1>9, <2>1 DEF ReadAccess, AccessRead
  <2>3. listensocks' \in SUBSET Interfaces /\ pc' = "loop"
    BY <1>9, <2>2, AccessDoneSockets DEF ReadAccess
  <2> QED
    BY <1>9, <2>2, <2>3 DEF ReadAccess, ReadAccessFile
<1>10. CASE ReadAccessFails
  <2>1. accData' \in [name : AccessFiles \cup {None}, time : Times,
                     hosts : {None} \cup SUBSET Interfaces, read : BOOLEAN]
    BY <1>10 DEF ReadAccessFails, Left
  <2>2. listensocks' \in SUBSET Interfaces /\ pc' = "loop"
    BY <1>10, <2>1, AccessDoneSockets DEF ReadAccessFails
  <2> QED
    BY <1>10, <2>1, <2>2 DEF ReadAccessFails, Dies
<1> QED
  BY <1>1, <1>2, <1>3, <1>4, <1>5, <1>6, <1>7, <1>8, <1>9, <1>10 DEF Scan

\* Stopping, calling back and reaping lead to statuses there are.
LEMMA StatusesAre ==
  ASSUME TypeOK, NEW d \in Displays
  PROVE  Stopped(d) \subseteq Statuses /\ Called(d) \subseteq Statuses
BY DEF TypeOK, Stopped, Called, Statuses

\* With the displays that are removed go their settings.
LEMMA RemovedTypes ==
  ASSUME TypeOK, Removed
  PROVE  dcfg' \in [Displays -> [time : Times, text : TextOrNone]] /\ recalled' \subseteq Displays
BY DEF TypeOK, Removed, Unconfigured, Times, TextOrNone

\* So does the way round the loop.
LEMMA LoopTypes == ASSUME TypeOK, Loop PROVE TypeOK'
<1> USE ConfigAssumption DEF TypeOK, Times, TextOrNone, filVars, cfgVars, dpyVars
<1>1. CASE LoopTop
  BY <1>1 DEF LoopTop, Listed
<1>2. CASE LoadDisplayResources
  BY <1>2, ConfIsText DEF LoadDisplayResources, ReadConfig
<1>3. CASE LoadDisplayResourcesFails
  <2>1. reading \in Displays /\ Unreadable(reading) /\ Dies
    BY <1>3 DEF LoadDisplayResourcesFails
  <2>2. PICK s \in Stopped(reading), t \in Left(dcfg[reading].text) :
          /\ status' = [status EXCEPT ![reading] = s]
          /\ dcfg' = [dcfg EXCEPT ![reading] = IF s = "absent" THEN Unconfigured
                                               ELSE [dcfg[reading] EXCEPT !.text = t]]
          /\ recalled' = IF s = "absent" THEN recalled \ {reading} ELSE recalled
    BY <2>1 DEF Unreadable
  <2>3. s \in Statuses /\ t \in TextOrNone
    BY <2>1, <2>2, StatusesAre DEF Left
  <2>4. status' \in [Displays -> Statuses] /\ recalled' \subseteq Displays
    BY <2>2, <2>3
  <2>5. dcfg' \in [Displays -> [time : Times, text : TextOrNone]]
    BY <2>1, <2>2, <2>3 DEF Unconfigured
  <2> QED
    BY <1>3, <2>1, <2>4, <2>5 DEF LoadDisplayResourcesFails, Dies
<1>4. CASE StartDisplays
  BY <1>4 DEF StartDisplays, CloseGetter, Statuses
<1>5. ASSUME NEW d \in Displays, DropDisplay(d) PROVE TypeOK'
  <2>1. status' \in [Displays -> Statuses]
    BY <1>5, StatusesAre DEF DropDisplay, StopDisplay
  <2>2. dcfg' \in [Displays -> [time : Times, text : TextOrNone]] /\ recalled' \subseteq Displays
    BY <1>5, RemovedTypes DEF DropDisplay, StopDisplay
  <2> QED
    BY <1>5, <2>1, <2>2 DEF DropDisplay
<1>6. ASSUME NEW d \in Displays, CheckDisplay(d) PROVE TypeOK'
  BY <1>6 DEF CheckDisplay
<1> QED
  BY <1>1, <1>2, <1>3, <1>4, <1>5, <1>6 DEF Loop

\* What the events that begin or end a shutdown, or reap, do beside.
LEMMA SigchldFrame ==
  ASSUME HandleSigchld
  PROVE  /\ pc = "asleep"
         /\ \/ scan' = "auto" /\ pc' = "globals"
            \/ scan' = scan /\ pc' = "loop"
         /\ chld' \in BOOLEAN
         /\ UNCHANGED <<filVars, getter, cfgVars, todo, reading, requestPort, listensocks,
                        stillThere, stopping>>
BY Zenon DEF HandleSigchld, Begin

\* What reaping, or stopping all displays, does to them.
LEMMA SigchldDisplays ==
  ASSUME HandleSigchld
  PROVE  /\ status' \in [Displays -> Statuses] /\ Removed
         /\ \A d \in Displays :
              status'[d] # status[d] => /\ status[d] \in {"running", "leaving", "called"}
                                        /\ status'[d] \in Reaped(d)
<1>1. PICK S \in SUBSET {d \in Displays : status[d] \in {"running", "leaving", "called"}} :
        status' \in {s \in [Displays -> Statuses] :
                       \A d \in Displays : s[d] \in IF d \in S THEN Reaped(d) ELSE {status[d]}}
  BY DEF HandleSigchld
<1> QED
  BY <1>1 DEF HandleSigchld

LEMMA StoppenFrame ==
  ASSUME Stoppen
  PROVE  /\ pc = "asleep"
         /\ stopping' \in BOOLEAN /\ requestPort' \in BOOLEAN
         /\ listensocks' = {} /\ pc' = "loop"
         /\ UNCHANGED <<filVars, getter, cfgVars, todo, reading, stillThere, chld, scan>>
BY Zenon DEF Stoppen

LEMMA StoppenDisplays ==
  ASSUME Stoppen
  PROVE  /\ status' \in [Displays -> Statuses] /\ Removed
         /\ \A d \in Displays : status'[d] # status[d] => status'[d] \in Stopped(d)
<1>1. PICK users \in SUBSET {d \in Displays : status[d] = "running"} :
        status' \in {s \in [Displays -> Statuses] :
                       \A d \in Displays : s[d] \in IF d \in users THEN {"running"}
                                                   ELSE Stopped(d)}
  BY DEF Stoppen
<1> QED
  BY <1>1 DEF Stoppen

\* The console mode.
ConsoleSteps == StopToTTY \/ WakeDisplays

LEMMA ConsoleFrame ==
  ASSUME ConsoleSteps
  PROVE  /\ pc = "asleep" /\ pc' = "loop"
         /\ UNCHANGED <<filVars, getter, cfgVars, dcfg, todo, reading, requestPort, listensocks,
                        stillThere, stopping, chld, scan>>
BY Zenon DEF ConsoleSteps, StopToTTY, WakeDisplays

LEMMA CancelFrame ==
  ASSUME CancelShutdown
  PROVE  /\ stopping' \in BOOLEAN /\ scan' = "forced" /\ pc' = "globals"
         /\ UNCHANGED <<filVars, getter, cfgVars, dpyVars, requestPort, listensocks,
                        stillThere, chld>>
BY Zenon DEF CancelShutdown, Begin

\* And what wakes the master, or happens to the files.
LEMMA EventTypes == ASSUME TypeOK, Events PROVE TypeOK'
<1> USE ConfigAssumption DEF TypeOK, Times, TextOrNone, filVars, cfgVars, dpyVars, Begin
<1>1. CASE HandleSighup
  BY <1>1 DEF HandleSighup
<1>2. CASE HandleSigchld
  <2>1. /\ status' \in [Displays -> Statuses]
        /\ dcfg' \in [Displays -> [time : Times, text : TextOrNone]]
        /\ recalled' \subseteq Displays
    BY <1>2, SigchldDisplays, RemovedTypes
  <2>2. /\ chld' \in BOOLEAN
        /\ UNCHANGED <<filVars, getter, cfgVars, todo, reading, requestPort, listensocks,
                       stillThere, stopping>>
    BY <1>2, SigchldFrame
  <2>3. \/ scan' = "auto" /\ pc' = "globals"
        \/ scan' = scan /\ pc' = "loop"
    BY <1>2, SigchldFrame
  <2> QED
    BY <2>1, <2>2, <2>3
<1>3. CASE HandleQuery
  BY <1>3 DEF HandleQuery
<1>4. CASE Stoppen
  <2>1. /\ status' \in [Displays -> Statuses]
        /\ dcfg' \in [Displays -> [time : Times, text : TextOrNone]]
        /\ recalled' \subseteq Displays
    BY <1>4, StoppenDisplays, RemovedTypes
  <2>2. /\ stopping' \in BOOLEAN /\ requestPort' \in BOOLEAN
        /\ listensocks' = {} /\ pc' = "loop"
        /\ UNCHANGED <<filVars, getter, cfgVars, todo, reading, stillThere, chld, scan>>
    BY <1>4, StoppenFrame
  <2> QED
    BY <2>1, <2>2
<1>5. CASE CancelShutdown
  <2>1. /\ stopping' \in BOOLEAN /\ scan' = "forced" /\ pc' = "globals"
        /\ UNCHANGED <<filVars, getter, cfgVars, dpyVars, requestPort, listensocks,
                       stillThere, chld>>
    BY <1>5, CancelFrame
  <2> QED
    BY <2>1
<1>6. CASE ConsoleSteps
  <2>1. status' \in [Displays -> Statuses]
    BY <1>6 DEF ConsoleSteps, StopToTTY, WakeDisplays, Statuses
  <2>2. recalled' \subseteq Displays
    BY <1>6 DEF ConsoleSteps, StopToTTY, WakeDisplays
  <2> QED
    BY <1>6, <2>1, <2>2, ConsoleFrame
<1> QED
  BY <1>1, <1>2, <1>3, <1>4, <1>5, <1>6 DEF Events, ConsoleSteps

LEMMA EditTypes ==
  ASSUME TypeOK, EditKdmrc \/ \E f \in AccessFiles : EditAccess(f) PROVE TypeOK'
<1> USE ConfigAssumption DEF TypeOK, Times, TextOrNone, filVars, cfgVars, dpyVars
<1>1. CASE EditKdmrc
  BY <1>1 DEF EditKdmrc, Editable
<1>2. ASSUME NEW f \in AccessFiles, EditAccess(f) PROVE TypeOK'
  BY <1>2 DEF EditAccess, Editable
<1> QED
  BY <1>1, <1>2

-----------------------------------------------------------------------------
(* The access file *)

\* The loop and what wakes it leave the files and what was read of them alone.
LEMMA LoopFrame ==
  ASSUME Loop \/ Events
  PROVE  /\ UNCHANGED <<kdmrc, access, clock, cfgFiles, cfg, accData>>
         /\ pc # "readAccess"
         /\ pc' \in {"loop", "displays", "asleep", "exit", "globals", "accessDep"}
<1> USE DEF filVars, cfgVars, dpyVars, Begin
<1>1. CASE Loop
  BY <1>1 DEF Loop, LoopTop, LoadDisplayResources, LoadDisplayResourcesFails,
              StartDisplays, DropDisplay, CheckDisplay
<1>2. CASE HandleSighup \/ HandleQuery
  BY <1>2 DEF HandleSighup, HandleQuery
<1>3. CASE HandleSigchld
  BY <1>3, SigchldFrame DEF HandleSigchld
<1>4. CASE Stoppen
  BY <1>4, StoppenFrame DEF Stoppen
<1>5. CASE CancelShutdown
  BY <1>5, CancelFrame DEF CancelShutdown
<1>6. CASE ConsoleSteps
  BY <1>6, ConsoleFrame
<1> QED
  BY <1>1, <1>2, <1>3, <1>4, <1>5, <1>6 DEF Events, ConsoleSteps

\* So does the way to the end of a scan.
LEMMA ScanFrame ==
  ASSUME CheckGlobals \/ LoadDMResources \/ LoadDMResourcesFails
  PROVE  /\ UNCHANGED <<kdmrc, access, clock, cfgFiles, accData>>
         /\ pc # "readAccess"
         /\ pc' \in {"loop", "exit", "readGlobals", "accessDep"}
BY DEF CheckGlobals, LoadDMResources, LoadDMResourcesFails, filVars, cfgVars, dpyVars

\* The steps that have to do with the access file.
DepSteps == GetDeps \/ DepTime \/ GetDepsFails \/ CheckDep
AccessSteps == DepSteps \/ CheckAccess \/ ReadAccess \/ ReadAccessFails

\* Whatever step there is, it is one of these.
LEMMA AccessCases ==
  ASSUME [Next]_vars
  PROVE  \/ AccessSteps
         \/ EditKdmrc \/ \E f \in AccessFiles : EditAccess(f)
         \/ /\ UNCHANGED <<kdmrc, access, clock, cfgFiles, accData>>
            /\ pc # "readAccess"
            /\ pc' \in {"loop", "displays", "asleep", "exit", "globals", "readGlobals",
                        "accessDep"}
         \/ UNCHANGED vars
<1>1. CASE Scan
  BY <1>1, ScanFrame DEF Scan, AccessSteps, DepSteps
<1>2. CASE Loop \/ Events
  BY <1>2, LoopFrame
<1> QED
  BY <1>1, <1>2 DEF Next, Exited

\* The file is named whenever it is looked at.
LEMMA NamedStep == ASSUME TypeOK, FileIsNamed, [Next]_vars PROVE FileIsNamed'
<1> USE DEF FileIsNamed
<1>1. CASE GetDeps
  <2>1. Conf.accessFile # None
    BY ConfIsText, ConfigAssumption DEF Settings
  <2> QED
    BY <1>1, <2>1 DEF GetDeps, TypeOK
<1>2. CASE DepTime
  BY <1>2 DEF DepTime, TypeOK
<1>8. CASE GetDepsFails
  BY <1>8 DEF GetDepsFails, NoDeps, AccessDone, TypeOK
<1>3. CASE CheckDep
  <2>1. kdmrc.time # None
    BY ConfigAssumption DEF TypeOK
  <2> QED
    BY <1>3, <2>1 DEF CheckDep, cfgVars
<1>4. CASE CheckAccess
  BY <1>4 DEF CheckAccess, TypeOK, AccessDone
<1>5. CASE ReadAccess \/ ReadAccessFails
  BY <1>5 DEF ReadAccess, ReadAccessFails, AccessDone, TypeOK
<1>6. CASE EditKdmrc \/ \E f \in AccessFiles : EditAccess(f)
  BY <1>6 DEF EditKdmrc, EditAccess, cfgVars
<1>7. CASE UNCHANGED vars
  BY <1>7 DEF vars, cfgVars
<1> QED
  BY <1>1, <1>2, <1>3, <1>4, <1>5, <1>6, <1>7, <1>8, AccessCases DEF AccessSteps, DepSteps

\* No time is later than the clock.
LEMMA TimesStep ==
  ASSUME TypeOK, FileIsNamed, TimesArePast, [Next]_vars PROVE TimesArePast'
<1> USE DEF TimesArePast
<1>1. CASE DepSteps
  BY <1>1 DEF DepSteps, GetDeps, DepTime, GetDepsFails, CheckDep, filVars, cfgVars
<1>2. CASE CheckAccess
  <2>1. UNCHANGED <<access, clock>>
    BY <1>2 DEF CheckAccess, filVars
  <2>2. CASE UNCHANGED accData
    BY <2>1, <2>2
  <2>3. CASE accData' = [accData EXCEPT !.name = cfgFiles.name,
                                        !.time = access[cfgFiles.name].time,
                                        !.read = FALSE]
    <3>1. cfgFiles.name \in AccessFiles
      BY <1>2 DEF CheckAccess, FileIsNamed, TypeOK
    <3>2. access[cfgFiles.name].time \in 0..clock
      BY <3>1 DEF TypeOK
    <3>3. accData'.time = access[cfgFiles.name].time
      BY <2>3 DEF TypeOK
    <3> QED
      BY <2>1, <3>2, <3>3
  <2> QED
    BY <1>2, <2>2, <2>3 DEF CheckAccess
<1>3. CASE ReadAccess \/ ReadAccessFails
  <2>1. accData'.name = accData.name /\ accData'.time = accData.time
    BY <1>3 DEF ReadAccess, ReadAccessFails, TypeOK
  <2> QED
    BY <1>3, <2>1 DEF ReadAccess, ReadAccessFails, filVars
<1>4. CASE EditKdmrc
  BY <1>4 DEF EditKdmrc, cfgVars, TypeOK
<1>5. ASSUME NEW f \in AccessFiles, EditAccess(f) PROVE TimesArePast'
  <2>1. clock' = clock + 1 /\ accData' = accData
    BY <1>5 DEF EditAccess, cfgVars
  <2>2. \A g \in AccessFiles : access'[g].time \in {access[g].time, clock + 1}
    BY <1>5 DEF EditAccess, TypeOK
  <2> QED
    BY <2>1, <2>2 DEF TypeOK
<1>6. CASE UNCHANGED vars
  BY <1>6 DEF vars, filVars, cfgVars
<1> QED
  BY <1>1, <1>2, <1>3, <1>4, <1>5, <1>6, AccessCases DEF AccessSteps, DepSteps

\* What has the time of the file is the file.
LEMMA HonestStep ==
  ASSUME TypeOK, FileIsNamed, TimesArePast, AccessTimeIsHonest, [Next]_vars
  PROVE  AccessTimeIsHonest'
<1> USE DEF AccessTimeIsHonest
<1>1. CASE DepSteps
  BY <1>1 DEF DepSteps, GetDeps, DepTime, GetDepsFails, CheckDep, filVars, cfgVars
<1>2. CASE CheckAccess
  <2>1. CASE pc' = "readAccess"
    <3>1. ~accData'.read
      BY <1>2, <2>1, NamedStep DEF FileIsNamed, Next, Scan
    <3> QED
      BY <3>1
  <2>2. CASE UNCHANGED accData
    BY <1>2, <2>2 DEF CheckAccess, filVars
  <2> QED
    BY <1>2, <2>1, <2>2 DEF CheckAccess
<1>3. CASE ReadAccess
  <2>1. accData'.name = accData.name /\ accData'.hosts = access[accData.name].hosts
    BY <1>3 DEF ReadAccess, AccessRead, TypeOK
  <2> QED
    BY <1>3, <2>1 DEF ReadAccess, filVars
<1>4. CASE ReadAccessFails
  <2>1. accData'.read = FALSE
    BY <1>4 DEF ReadAccessFails, FileIsNamed, TypeOK
  <2> QED
    BY <2>1
<1>5. CASE EditKdmrc
  BY <1>5 DEF EditKdmrc, cfgVars
<1>6. ASSUME NEW f \in AccessFiles, EditAccess(f) PROVE AccessTimeIsHonest'
  <2>1. UNCHANGED <<accData, pc>>
    BY <1>6 DEF EditAccess, cfgVars
  <2>2. CASE accData.name = f
    <3>1. access'[f].time = clock + 1
      BY <1>6 DEF EditAccess, TypeOK
    <3>2. f # None
      BY ConfigAssumption
    <3> QED
      BY <2>1, <2>2, <3>1, <3>2 DEF TimesArePast, TypeOK
  <2>3. CASE accData.name # f
    <3>1. accData.name # None => access'[accData.name] = access[accData.name]
      BY <1>6, <2>3 DEF EditAccess, TypeOK
    <3> QED
      BY <2>1, <3>1 DEF FileIsNamed
  <2> QED
    BY <2>2, <2>3
<1>7. CASE UNCHANGED vars
  BY <1>7 DEF vars, filVars, cfgVars
<1> QED
  BY <1>1, <1>2, <1>3, <1>4, <1>5, <1>6, <1>7, AccessCases DEF AccessSteps, DepSteps

-----------------------------------------------------------------------------
(* The list of displays *)

\* Nothing but a scan that reads the settings lists a display or changes the list, and
\* nothing else ends the time in which the marks of a SIGHUP stand.
Lists == stillThere' = stillThere /\ cfg'.text = cfg.text /\ (Marking => Marking')
         /\ \A d \in Displays : status[d] = "absent" => status'[d] = "absent"

LEMMA ListedFrame ==
  ASSUME TypeOK, [Next]_vars
  PROVE  Lists \/ LoadDMResources \/ LoadDMResourcesFails \/ HandleSighup
<1> USE DEF Lists, Marking, Forced, filVars, cfgVars, dpyVars, Begin
<1>1. CASE GetDeps \/ DepTime \/ CheckDep
  BY <1>1 DEF GetDeps, DepTime, CheckDep
<1>2. CASE CheckGlobals
  BY <1>2 DEF CheckGlobals, TypeOK
<1>3. CASE CheckAccess \/ ReadAccess \/ ReadAccessFails \/ GetDepsFails
  <2>1. UNCHANGED <<stillThere, cfg, status>>
    BY <1>3 DEF CheckAccess, ReadAccess, ReadAccessFails, GetDepsFails
  <2>2. pc \notin {"globals", "readGlobals"}
    BY <1>3 DEF CheckAccess, ReadAccess, ReadAccessFails, GetDepsFails
  <2> QED
    BY <2>1, <2>2
<1>4. CASE LoopTop \/ LoadDisplayResources
  BY <1>4 DEF LoopTop, LoadDisplayResources
<1>5. CASE LoadDisplayResourcesFails
  <2>1. UNCHANGED <<stillThere, cfg>> /\ pc = "displays" /\ reading \in Displays
    BY <1>5 DEF LoadDisplayResourcesFails
  <2>2. PICK s \in Stopped(reading) : status' = [status EXCEPT ![reading] = s]
    BY <1>5 DEF LoadDisplayResourcesFails, Unreadable
  <2>3. \A d \in Displays : status[d] = "absent" => status'[d] = "absent"
    BY <2>1, <2>2 DEF Stopped, TypeOK
  <2> QED
    BY <2>1, <2>3
<1>6. CASE StartDisplays
  BY <1>6 DEF StartDisplays
<1>7. ASSUME NEW d \in Displays, DropDisplay(d) PROVE Lists
  BY <1>7 DEF DropDisplay, StopDisplay, Stopped, TypeOK
<1>8. ASSUME NEW d \in Displays, CheckDisplay(d) PROVE Lists
  BY <1>8 DEF CheckDisplay
<1>9. CASE HandleSigchld
  <2>1. pc = "asleep" /\ \A d \in Displays : status[d] = "absent" => status'[d] = "absent"
    BY <1>9, SigchldFrame, SigchldDisplays
  <2> QED
    BY <1>9, <2>1, SigchldFrame
<1>10. CASE HandleQuery
  BY <1>10 DEF HandleQuery
<1>11. CASE Stoppen
  <2>1. pc = "asleep" /\ \A d \in Displays : status[d] = "absent" => status'[d] = "absent"
    BY <1>11, StoppenFrame, StoppenDisplays DEF Stopped
  <2> QED
    BY <1>11, <2>1, StoppenFrame
<1>12. CASE CancelShutdown
  BY <1>12, CancelFrame
<1>13. CASE EditKdmrc \/ \E f \in AccessFiles : EditAccess(f)
  BY <1>13 DEF EditKdmrc, EditAccess
<1>14. CASE UNCHANGED vars
  BY <1>14 DEF vars
<1>18. CASE ConsoleSteps
  <2>1. \A d \in Displays : status[d] = "absent" => status'[d] = "absent"
    BY <1>18 DEF ConsoleSteps, StopToTTY, WakeDisplays, Called
  <2> QED
    BY <1>18, <2>1, ConsoleFrame
<1>15. CASE Loop
  BY <1>15, <1>4, <1>5, <1>6, <1>7, <1>8 DEF Loop
<1>16. CASE Events
  BY <1>16, <1>9, <1>10, <1>11, <1>12, <1>18 DEF Events, ConsoleSteps
<1>17. CASE Scan
  BY <1>17, <1>1, <1>2, <1>3 DEF Scan
<1> QED
  BY <1>13, <1>14, <1>15, <1>16, <1>17 DEF Next, Exited

\* What is listed has its mark again before startDisplays() looks at it.
LEMMA ListedStep ==
  ASSUME TypeOK, ListedStays, [Next]_vars PROVE ListedStays'
<1> USE DEF ListedStays
<1>1. CASE Lists
  <2>1. cfg.text # None => cfg.text.servers \subseteq Displays
    BY ConfigAssumption DEF TypeOK, TextOrNone, Settings
  <2> QED
    BY <1>1, <2>1 DEF Lists
<1>2. CASE LoadDMResources
  <2>1. cfg'.text = Conf /\ Conf.servers \subseteq Displays
    BY <1>2, ConfIsText DEF LoadDMResources, TypeOK, Settings
  <2>2. \A d \in Conf.servers : stillThere'[d]
    BY <1>2, <2>1 DEF LoadDMResources
  <2> QED
    BY <2>1, <2>2
<1>3. CASE LoadDMResourcesFails
  <2>1. cfg'.text = None
    BY <1>3 DEF LoadDMResourcesFails, TypeOK
  <2> QED
    BY <2>1
<1>4. CASE HandleSighup
  <2>1. Marking'
    BY <1>4 DEF HandleSighup, Begin, Marking, Forced
  <2> QED
    BY <2>1
<1> QED
  BY <1>1, <1>2, <1>3, <1>4, ListedFrame

-----------------------------------------------------------------------------
(* The settings of the displays *)

\* What goes on outside startDisplays() leaves the displays and their settings alone.
Elsewhere == /\ pc # "displays" /\ pc' # "displays"
             /\ UNCHANGED <<dcfg, status, recalled, reading>>

LEMMA ScanElsewhere ==
  ASSUME Scan, ~LoadDMResources PROVE Elsewhere
<1> USE DEF Elsewhere, cfgVars, dpyVars
<1>1. CASE GetDeps \/ DepTime \/ CheckDep
  BY <1>1 DEF GetDeps, DepTime, CheckDep
<1>2. CASE CheckGlobals \/ LoadDMResourcesFails
  BY <1>2 DEF CheckGlobals, LoadDMResourcesFails
<1>3. CASE CheckAccess
  BY <1>3 DEF CheckAccess, AccessDone
<1>4. CASE ReadAccess \/ ReadAccessFails \/ GetDepsFails
  BY <1>4 DEF ReadAccess, ReadAccessFails, GetDepsFails, NoDeps, AccessDone
<1> QED
  BY <1>1, <1>2, <1>3, <1>4 DEF Scan

LEMMA EventsElsewhere ==
  ASSUME HandleSighup \/ HandleQuery \/ CancelShutdown PROVE Elsewhere
<1> USE DEF Elsewhere, dpyVars, Begin
<1>1. CASE HandleSighup \/ HandleQuery
  BY <1>1 DEF HandleSighup, HandleQuery
<1>2. CASE CancelShutdown
  BY <1>2, CancelFrame DEF CancelShutdown
<1> QED
  BY <1>1, <1>2

Given == SettingsAreGiven /\ RunningIsConfigured

\* What stops or removes displays gives none a status that asks for settings.
LEMMA RemovedGives ==
  ASSUME TypeOK, Given, Removed, pc # "displays", pc' # "displays", reading' = reading,
         \A d \in Displays :
           \/ status'[d] = status[d]
           \/ status'[d] \in {"absent", "leaving"}
           \/ status[d] \in {"running", "called"} /\ status'[d] # "running"
  PROVE  Given'
<1> USE ConfigAssumption DEF Given, SettingsAreGiven, RunningIsConfigured, TypeOK
<1>1. /\ \A d \in Displays : status'[d] = "absent" => dcfg'[d] = Unconfigured
      /\ \A d \in Displays : status'[d] # "absent" =>
           dcfg'[d] = dcfg[d] /\ (d \in recalled => d \in recalled')
  BY DEF Removed
<1>2. reading = None
  OBVIOUS
<1>3. ASSUME NEW d \in Displays
      PROVE  /\ status'[d] = "absent" => dcfg'[d] = Unconfigured
             /\ status'[d] = "running" => dcfg'[d].time # None
             /\ status'[d] # "leaving" /\ dcfg'[d].time # None /\ d \notin recalled'
                => dcfg'[d].text # None
  BY <1>1, <1>2 DEF Unconfigured
<1>4. \A d \in Displays \ recalled' : status'[d] = "running" => dcfg'[d].text # None
  BY <1>3
<1> QED
  BY <1>2, <1>3, <1>4

\* So do the steps that change them, but for startDisplays() itself.
LEMMA GivenOutside ==
  ASSUME TypeOK, Given, Scan \/ Events \/ LoopTop PROVE Given'
<1> USE ConfigAssumption DEF Given, SettingsAreGiven, RunningIsConfigured, TypeOK
<1>1. CASE Elsewhere
  BY <1>1 DEF Elsewhere
<1>2. CASE LoadDMResources
  <2>1. pc = "readGlobals" /\ pc' = "accessDep" /\ UNCHANGED <<dcfg, recalled, reading>>
    BY <1>2 DEF LoadDMResources
  <2>2. \A d \in Displays : \/ status'[d] = status[d]
                            \/ status[d] = "absent" /\ status'[d] = "notRunning"
    BY <1>2 DEF LoadDMResources
  <2> QED
    BY <2>1, <2>2 DEF Unconfigured
<1>3. CASE HandleSigchld
  <2>1. pc = "asleep" /\ pc' # "displays" /\ UNCHANGED reading
    BY <1>3, SigchldFrame
  <2>2. Removed
    BY <1>3, SigchldDisplays
  <2>3. ASSUME NEW d \in Displays
        PROVE  \/ status'[d] = status[d]
               \/ status'[d] \in {"absent", "leaving"}
               \/ status[d] \in {"running", "called"} /\ status'[d] # "running"
    BY <1>3, SigchldDisplays DEF Reaped
  <2> QED
    BY <2>1, <2>2, <2>3, RemovedGives
<1>4. CASE Stoppen
  <2>1. pc = "asleep" /\ pc' = "loop" /\ UNCHANGED reading
    BY <1>4, StoppenFrame
  <2>2. Removed
    BY <1>4, StoppenDisplays
  <2>3. ASSUME NEW d \in Displays
        PROVE  status'[d] = status[d] \/ status'[d] \in {"absent", "leaving"}
    BY <1>4, StoppenDisplays DEF Stopped
  <2> QED
    BY <2>1, <2>2, <2>3, RemovedGives
<1>7. CASE ConsoleSteps
  <2>1. pc = "asleep" /\ pc' = "loop" /\ UNCHANGED <<dcfg, reading>>
    BY <1>7, ConsoleFrame
  <2>2. CASE StopToTTY
    <3>1. recalled' = recalled \cup {d \in Displays : status[d] = "leaving"}
      BY <2>2 DEF StopToTTY
    <3>2. \A d \in Displays : status'[d] = status[d] \/ status'[d] \in {"called", "textMode"}
      BY <2>2 DEF StopToTTY, Called
    <3>3. \A d \in Displays : status'[d] = "absent" <=> status[d] = "absent"
      BY <2>2 DEF StopToTTY, Called
    <3> QED
      BY <2>1, <3>1, <3>2, <3>3
  <2>3. CASE WakeDisplays
    <3>1. recalled' = recalled
      BY <2>3 DEF WakeDisplays
    <3>2. \A d \in Displays :
            status'[d] # status[d] => status[d] = "textMode" /\ status'[d] = "notRunning"
      BY <2>3 DEF WakeDisplays
    <3> QED
      BY <2>1, <3>1, <3>2
  <2> QED
    BY <1>7, <2>2, <2>3 DEF ConsoleSteps
<1>5. CASE LoopTop
  <2>1. UNCHANGED <<dcfg, status, recalled, reading>> /\ reading = None
    BY <1>5 DEF LoopTop
  <2>2. pc' = "displays" => todo' = Listed
    BY <1>5 DEF LoopTop
  <2> QED
    BY <2>1, <2>2 DEF Listed
<1>6. CASE Events
  BY <1>6, <1>1, <1>3, <1>4, <1>7, EventsElsewhere DEF Events, ConsoleSteps
<1> QED
  BY <1>1, <1>2, <1>5, <1>6, ScanElsewhere

\* And startDisplays() starts a display only with settings it has read.
LEMMA GivenInside ==
  ASSUME TypeOK, Given, Loop, ~LoopTop PROVE Given'
<1> USE ConfigAssumption DEF Given, SettingsAreGiven, RunningIsConfigured, TypeOK
<1>1. CASE LoadDisplayResources
  <2>1. pc' = "displays" /\ reading \in Displays /\ reading' = None
        /\ todo' = todo \ {reading} /\ status' = status
        /\ dcfg' = [dcfg EXCEPT ![reading].text = Conf]
        /\ recalled' = recalled \ {reading}
    BY <1>1 DEF LoadDisplayResources
  <2> QED
    BY <2>1, ConfIsText
<1>2. CASE LoadDisplayResourcesFails
  <2>1. pc' = "displays" /\ reading \in Displays /\ reading' = None
        /\ todo' = todo \ {reading}
    BY <1>2 DEF LoadDisplayResourcesFails
  <2>2. PICK s \in Stopped(reading), t \in Left(dcfg[reading].text) :
          /\ status' = [status EXCEPT ![reading] = s]
          /\ dcfg' = [dcfg EXCEPT ![reading] = IF s = "absent" THEN Unconfigured
                                               ELSE [dcfg[reading] EXCEPT !.text = t]]
          /\ recalled' = IF s = "absent" THEN recalled \ {reading} ELSE recalled
    BY <1>2 DEF LoadDisplayResourcesFails, Unreadable
  <2>3. s \in {"absent", "leaving"}
    BY <2>1, <2>2 DEF Stopped
  <2> QED
    BY <2>1, <2>2, <2>3 DEF Unconfigured
<1>3. CASE StartDisplays
  <2>1. pc' = "asleep" /\ reading = None /\ reading' = None /\ todo = {} /\ pc = "displays"
        /\ dcfg' = dcfg /\ recalled' = recalled
    BY <1>3 DEF StartDisplays
  <2>2. \A d \in Displays :
          status'[d] = IF status[d] = "notRunning" THEN "running" ELSE status[d]
    BY <1>3 DEF StartDisplays
  <2> QED
    BY <2>1, <2>2
<1>4. ASSUME NEW d \in Displays, DropDisplay(d) PROVE Given'
  <2>1. pc' = "displays" /\ reading = None /\ reading' = None /\ todo' = todo \ {d}
        /\ pc = "displays"
    BY <1>4 DEF DropDisplay
  <2>2. PICK s \in Stopped(d) : status' = [status EXCEPT ![d] = s]
    BY <1>4 DEF DropDisplay, StopDisplay
  <2>3. s \in {"absent", "leaving"} /\ Removed
    BY <1>4, <2>2 DEF DropDisplay, StopDisplay, Stopped
  <2>4. /\ \A e \in Displays : status'[e] = "absent" => dcfg'[e] = Unconfigured
        /\ \A e \in Displays : status'[e] # "absent" =>
             dcfg'[e] = dcfg[e] /\ (e \in recalled => e \in recalled')
    BY <2>3 DEF Removed
  <2>5. \A e \in Displays : status'[e] = IF e = d THEN s ELSE status[e]
    BY <2>2
  <2> QED
    BY <2>1, <2>3, <2>4, <2>5 DEF Unconfigured
<1>5. ASSUME NEW d \in Displays, CheckDisplay(d) PROVE Given'
  <2>1. pc = "displays" /\ pc' = "displays" /\ reading = None /\ status' = status
        /\ kdmrc.time # None /\ recalled' = recalled
    BY <1>5 DEF CheckDisplay
  <2>2. CASE DisplayChanged(d)
    <3>1. reading' = d /\ todo' = todo /\ dcfg' = [dcfg EXCEPT ![d].time = kdmrc.time]
      BY <1>5, <2>2 DEF CheckDisplay
    <3> QED
      BY <2>1, <2>2, <3>1 DEF DisplayChanged
  <2>3. CASE ~DisplayChanged(d)
    <3>1. reading' = None /\ todo' = todo \ {d} /\ dcfg' = dcfg
      BY <1>5, <2>1, <2>3 DEF CheckDisplay
    <3> QED
      BY <2>1, <2>3, <3>1 DEF DisplayChanged
  <2> QED
    BY <2>2, <2>3
<1> QED
  BY <1>1, <1>2, <1>3, <1>4, <1>5 DEF Loop

LEMMA GivenStep == ASSUME TypeOK, Given, [Next]_vars PROVE Given'
<1>1. CASE EditKdmrc \/ (\E f \in AccessFiles : EditAccess(f)) \/ UNCHANGED vars
  BY <1>1 DEF EditKdmrc, EditAccess, vars, dpyVars, Given, SettingsAreGiven,
              RunningIsConfigured
<1> QED
  BY <1>1, GivenOutside, GivenInside DEF Next, Exited

-----------------------------------------------------------------------------
(* The invariant *)

LEMMA InitInv == Init => ConfigInv
<1> SUFFICES ASSUME Init PROVE ConfigInv
  OBVIOUS
<1> USE ConfigAssumption DEF Init
<1>1. TypeOK
  <2>1. autoRescan \in BOOLEAN /\ requestPort \in BOOLEAN /\ stopping \in BOOLEAN
        /\ chld \in BOOLEAN
    BY Zenon
  <2>2. kdmrc \in [time : 0..MaxTime, text : Texts] /\ clock \in 0..MaxTime
    OBVIOUS
  <2>3. access \in [AccessFiles -> [time : 0..MaxTime, hosts : Accesses]]
    OBVIOUS
  <2>4. stillThere \in [Displays -> BOOLEAN]
    BY Zenon
  <2> QED
    BY <2>1, <2>2, <2>3, <2>4 DEF TypeOK, Times, TextOrNone, Statuses
<1>2. AccessTimeIsHonest /\ TimesArePast /\ FileIsNamed
  BY DEF AccessTimeIsHonest, TimesArePast, FileIsNamed
<1>3. ListedStays
  BY DEF ListedStays
<1>4. RunningIsConfigured /\ SettingsAreGiven
  BY DEF RunningIsConfigured, SettingsAreGiven, Unconfigured
<1> QED
  BY <1>1, <1>2, <1>3, <1>4 DEF ConfigInv

LEMMA InvStep == ConfigInv /\ [Next]_vars => ConfigInv'
<1> SUFFICES ASSUME ConfigInv, [Next]_vars PROVE ConfigInv'
  OBVIOUS
<1>0. TypeOK /\ AccessTimeIsHonest /\ ListedStays /\ TimesArePast /\ FileIsNamed /\ Given
  BY DEF ConfigInv, Given
<1>1. TypeOK'
  <2>1. CASE UNCHANGED vars
    BY <1>0, <2>1 DEF vars, filVars, cfgVars, dpyVars, TypeOK, Times, TextOrNone
  <2> QED
    BY <1>0, <2>1, ScanTypes, LoopTypes, EventTypes, EditTypes DEF Next, Exited
<1>2. FileIsNamed' /\ TimesArePast' /\ AccessTimeIsHonest'
  BY <1>0, NamedStep, TimesStep, HonestStep
<1>3. ListedStays' /\ Given'
  BY <1>0, ListedStep, GivenStep
<1> QED
  BY <1>1, <1>2, <1>3 DEF ConfigInv, Given

\* Whatever kdmrc and the access files say, whenever they change, and wherever the
\* reader dies, the invariant holds: what the marks of a SIGHUP, the stored times and
\* the settings of the displays have to do with one another.
THEOREM ConfigCorrect == Spec => []ConfigInv
<1>1. Init => ConfigInv
  BY InitInv
<1>2. ConfigInv /\ [Next]_vars => ConfigInv'
  BY InvStep
<1> QED
  BY <1>1, <1>2, PTL DEF Spec

\* A change of the access file between the look at its time and the reading of it is
\* not taken for read.
THEOREM AccessHonest == Spec => []AccessTimeIsHonest
<1>1. ConfigInv => AccessTimeIsHonest
  BY DEF ConfigInv
<1> QED
  BY <1>1, ConfigCorrect, PTL

\* No display that the settings in force list is dropped because of a SIGHUP, although
\* that marks all of them and the scan may fail.
THEOREM ListedKept == Spec => []ListedStays
<1>1. ConfigInv => ListedStays
  BY DEF ConfigInv
<1> QED
  BY <1>1, ConfigCorrect, PTL

\* No display runs without settings, wherever the reader dies, but those that the console
\* mode has called back as they were leaving.
THEOREM Configured == Spec => []RunningIsConfigured
<1>1. ConfigInv => RunningIsConfigured
  BY DEF ConfigInv
<1> QED
  BY <1>1, ConfigCorrect, PTL

=============================================================================
