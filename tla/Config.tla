------------------------------- MODULE Config -------------------------------
(***************************************************************************)
(* How the master daemon gets its settings: the config reader it starts    *)
(* and keeps for a while (resource.c, kdm_config.c), the modification      *)
(* times by which it tells whether kdmrc or the access file has to be read *)
(* again, and what it does with what it reads: the list of displays, the   *)
(* settings of each display, the XDMCP access list and the sockets it      *)
(* listens on (dm.c, access.c, socket.c).                                  *)
(*                                                                         *)
(* Both files may change between any two steps of the daemon.  A file that *)
(* changes gets a modification time it never had: that two changes can     *)
(* share a second, and that a file can be missing, is left out.  How a     *)
(* display gets on is in DisplayManager; here it runs, is leaving, or is   *)
(* in the console mode (all of kdmrc's displays are local).                *)
(***************************************************************************)
EXTENDS Naturals, FiniteSets

CONSTANTS
  Displays,      \* the displays kdmrc may list
  Interfaces,    \* what a LISTEN line of an access file may name
  AccessFiles,   \* the names AccessFile may have
  Texts,         \* what kdmrc may say
  Accesses,      \* what an access file may say: the interfaces it tells to listen on
  None,
  EditsAnytime,  \* whether files also change while the daemon is not asleep
  ReaderFails,   \* whether the config reader may die
  ConsoleTTYs,   \* whether there is a console mode
  MaxTime        \* bound: the latest modification time

Settings == [servers : SUBSET Displays, accessFile : AccessFiles,
             autoRescan : BOOLEAN, enable : BOOLEAN]

ASSUME ConfigAssumption ==
  /\ Texts \subseteq Settings /\ Accesses \subseteq SUBSET Interfaces
  /\ {EditsAnytime, ReaderFails, ConsoleTTYs} \subseteq BOOLEAN /\ MaxTime \in Nat
  /\ None \notin Texts /\ None \notin AccessFiles /\ None \notin Displays
  /\ None \notin 0..MaxTime
  /\ \A hosts \in SUBSET Interfaces : hosts # None

VARIABLES
  \* the files, each with its modification time
  kdmrc, access, clock,
  \* the process "config reader" and what readConfig() has read in it
  getter,
  \* what the master has: cfgFiles, the global settings, those of each display, and
  \* the access list, with the times in their CfgDep; None for what a reading that failed
  \* may have freed; and, which is history, whether the last reading of the list came through
  cfgFiles, cfg, accData, dcfg,
  \* autoRescan, and whether requestPort is not 0
  autoRescan, requestPort,
  listensocks, status, stillThere, stopping,
  \* history: displays the console mode has called back as they left, and what has
  \* been read for them since
  recalled,
  \* a SIGCHLD that is not handled yet, and where the master is
  chld, pc, scan, todo, reading

filVars == <<kdmrc, access, clock>>
cfgVars == <<cfgFiles, cfg, accData, autoRescan>>
dpyVars == <<dcfg, status, recalled, todo, reading>>
vars == <<filVars, getter, cfgVars, dpyVars, requestPort, listensocks, stillThere,
          stopping, chld, pc, scan>>

Init ==
  /\ kdmrc \in [time : {0}, text : Texts]
  /\ access \in [AccessFiles -> [time : {0}, hosts : Accesses]]
  /\ clock = 0
  /\ getter = [state |-> "closed", conf |-> None]
  /\ cfgFiles = [name |-> None, deptime |-> None]
  /\ cfg = [time |-> None, text |-> None]
  /\ accData = [name |-> None, time |-> None, hosts |-> {}, read |-> FALSE]
  /\ dcfg = [d \in Displays |-> [time |-> None, text |-> None]]
  /\ autoRescan = FALSE /\ requestPort = FALSE
  /\ listensocks = {} /\ stopping = FALSE /\ chld = FALSE /\ recalled = {}
  /\ status = [d \in Displays |-> "absent"]
  /\ stillThere = [d \in Displays |-> FALSE]
  /\ pc = "getDeps" /\ scan = "start" /\ todo = {} /\ reading = None

-----------------------------------------------------------------------------
(* The files *)

Editable == clock < MaxTime /\ (EditsAnytime \/ pc = "asleep")

EditKdmrc ==
  /\ Editable
  /\ \E t \in Texts : kdmrc' = [time |-> clock + 1, text |-> t]
  /\ clock' = clock + 1
  /\ UNCHANGED <<access, getter, cfgVars, dpyVars, requestPort, listensocks, stillThere,
                 stopping, chld, pc, scan>>

EditAccess(f) ==
  /\ Editable
  /\ \E a \in Accesses : access' = [access EXCEPT ![f] = [time |-> clock + 1, hosts |-> a]]
  /\ clock' = clock + 1
  /\ UNCHANGED <<kdmrc, getter, cfgVars, dpyVars, requestPort, listensocks, stillThere,
                 stopping, chld, pc, scan>>

-----------------------------------------------------------------------------
(* The config reader *)

\* openGetter() starts a reader unless there is one; one that has died stays in
\* getter.pid, and nothing can be asked of it, until closeGetter().
Answers == getter.state # "dead"
Dies == /\ ReaderFails \/ ~Answers
        /\ getter' = [state |-> "dead", conf |-> None]

\* What a reading that fails leaves of what was read before: nothing once an answer has
\* begun, everything if the request could not be written.  (Nobody relies on what is left
\* of the global settings: they are None in either case.)
Left(old) == IF Answers THEN {None, old} ELSE {old}

\* readConfig() reads kdmrc once in the life of a reader.
Conf == IF getter.conf = None THEN kdmrc.text ELSE getter.conf
ReadConfig == Answers /\ getter' = [state |-> "open", conf |-> Conf]

\* To read an access file it does not need kdmrc.
ReadAccessFile == Answers /\ getter' = [getter EXCEPT !.state = "open"]

\* Mutation: the reader is kept for the next time.
CloseGetterNever == UNCHANGED <<getter, chld>>

\* closeGetter() waits for the reader, whose death is signalled as well.
CloseGetter ==
  /\ getter' = [state |-> "closed", conf |-> None]
  /\ chld' = (chld \/ getter.state # "closed")

-----------------------------------------------------------------------------
(* Scanning the files: rescanConfigs(), and scanAccessDatabase() alone for a query *)

Forced == scan = "forced"

Begin(s, at) == scan' = s /\ pc' = at

\* The end of a scan that has come to the access list.  A list that was freed and
\* not replaced has dangling pointers.
UpdateListenSockets(hosts, port) ==
  listensocks' \in IF ~port THEN {{}}
                   ELSE IF hosts = None THEN SUBSET Interfaces
                   ELSE {hosts}
AccessDone ==
  /\ pc' = "loop"
  /\ IF scan = "query" THEN UNCHANGED listensocks
     ELSE UpdateListenSockets(accData'.hosts, requestPort)

\* getDeps(): the reader says which access file kdmrc names ...
GetDeps ==
  /\ pc = "getDeps"
  /\ ReadConfig
  /\ cfgFiles' = [cfgFiles EXCEPT !.name = Conf.accessFile]
  /\ pc' = "depTime"
  /\ UNCHANGED <<filVars, cfg, accData, autoRescan, dpyVars, requestPort, listensocks,
                 stillThere, stopping, chld, scan>>

\* ... and the master looks when that has been written.
DepTime ==
  /\ pc = "depTime"
  /\ cfgFiles' = [cfgFiles EXCEPT !.deptime = kdmrc.time]
  /\ pc' = IF scan = "start" /\ cfg.time = None THEN "globals" ELSE "accessTime"
  /\ UNCHANGED <<filVars, getter, cfg, accData, autoRescan, dpyVars, requestPort,
                 listensocks, stillThere, stopping, chld, scan>>

\* Without it the daemon does not start, and scanAccessDatabase() gives up: even if
\* the reader dies only after the files have been stored.
NoDeps ==
  /\ Dies
  /\ IF scan = "start" /\ cfg.time = None THEN pc' = "exit" /\ UNCHANGED listensocks
     ELSE AccessDone
GetDepsFails ==
  /\ pc \in {"getDeps", "depTime"}
  /\ cfgFiles' = IF pc = "getDeps" THEN cfgFiles ELSE [cfgFiles EXCEPT !.deptime = kdmrc.time]
  /\ UNCHANGED <<filVars, cfg, accData, autoRescan, dpyVars, requestPort, stillThere,
                 stopping, chld, scan>>
  /\ NoDeps

\* needsReScan(GC_gGlobal): a kdmrc that has not changed ends the scan, even if the
\* access file has.
CheckGlobals ==
  /\ pc = "globals"
  /\ IF Forced \/ cfg.time # kdmrc.time
     THEN cfg' = [cfg EXCEPT !.time = kdmrc.time] /\ pc' = "readGlobals"
     ELSE pc' = "loop" /\ UNCHANGED cfg
  /\ UNCHANGED <<filVars, getter, cfgFiles, accData, autoRescan, dpyVars, requestPort,
                 listensocks, stillThere, stopping, chld, scan>>

\* loadDMResources() and scanServers().
LoadDMResources ==
  /\ pc = "readGlobals"
  /\ ReadConfig
  /\ cfg' = [cfg EXCEPT !.text = Conf]
  /\ autoRescan' = Conf.autoRescan /\ requestPort' = Conf.enable
  /\ stillThere' = [d \in Displays |-> stillThere[d] \/ d \in Conf.servers]
  /\ status' = [d \in Displays |-> IF status[d] = "absent" /\ d \in Conf.servers
                                   THEN "notRunning" ELSE status[d]]
  /\ pc' = "accessDep"
  /\ UNCHANGED <<filVars, cfgFiles, accData, dcfg, recalled, todo, reading, listensocks,
                 stopping, chld, scan>>

LoadDMResourcesFails ==
  /\ pc = "readGlobals"
  /\ Dies
  /\ cfg' = [cfg EXCEPT !.text = None]
  /\ pc' = IF scan = "start" THEN "exit" ELSE "loop"
  /\ UNCHANGED <<filVars, cfgFiles, accData, autoRescan, dpyVars, requestPort, listensocks,
                 stillThere, stopping, chld, scan>>

\* needsReScan(GC_gXaccess): has kdmrc, that names the file, changed?
CheckDep ==
  /\ pc = "accessDep"
  /\ pc' = IF kdmrc.time # cfgFiles.deptime THEN "getDeps" ELSE "accessTime"
  /\ UNCHANGED <<filVars, getter, cfgVars, dpyVars, requestPort, listensocks, stillThere,
                 stopping, chld, scan>>

\* Mutation: only another name counts as a change.
AccessRenamed == accData.name # cfgFiles.name

AccessChanged ==
  accData.name # cfgFiles.name \/ accData.time # access[cfgFiles.name].time

CheckAccess ==
  /\ pc = "accessTime"
  /\ IF Forced \/ AccessChanged
     THEN /\ accData' = [accData EXCEPT !.name = cfgFiles.name,
                                        !.time = access[cfgFiles.name].time,
                                        !.read = FALSE]
          /\ pc' = "readAccess" /\ UNCHANGED listensocks
     ELSE UNCHANGED accData /\ AccessDone
  /\ UNCHANGED <<filVars, getter, cfgFiles, cfg, autoRescan, dpyVars, requestPort,
                 stillThere, stopping, chld, scan>>

\* Mutation: the reader reads the access file once, as readConfig() does with kdmrc.
AccessReadOnce ==
  IF getter.conf # None /\ accData.hosts # None THEN accData.hosts
  ELSE access[accData.name].hosts

\* scanAccessDatabase() frees the old list first.
AccessRead == access[accData.name].hosts

ReadAccess ==
  /\ pc = "readAccess"
  /\ ReadAccessFile
  /\ accData' = [accData EXCEPT !.hosts = AccessRead, !.read = TRUE]
  /\ AccessDone
  /\ UNCHANGED <<filVars, cfgFiles, cfg, autoRescan, dpyVars, requestPort, stillThere,
                 stopping, chld, scan>>

ReadAccessFails ==
  /\ pc = "readAccess"
  /\ Dies
  /\ \E h \in Left(accData.hosts) : accData' = [accData EXCEPT !.hosts = h]
  /\ AccessDone
  /\ UNCHANGED <<filVars, cfgFiles, cfg, autoRescan, dpyVars, requestPort, stillThere,
                 stopping, chld, scan>>

Scan ==
  \/ GetDeps \/ DepTime \/ GetDepsFails \/ CheckGlobals \/ LoadDMResources
  \/ LoadDMResourcesFails \/ CheckDep \/ CheckAccess \/ ReadAccess \/ ReadAccessFails

-----------------------------------------------------------------------------
(* The displays *)

Unconfigured == [time |-> None, text |-> None]
Statuses == {"absent", "notRunning", "running", "leaving", "called", "textMode"}

\* A display that has been started may have kept its X server.
Started(d) == dcfg[d].text # None \/ d \in recalled

\* What stopDisplay() makes of a display: what has no process is freed, the rest is left
\* to be reaped, whatever its fate was.
Stopped(d) == CASE status[d] \in {"absent", "textMode"} -> {"absent"}
                [] status[d] = "notRunning" ->
                     {"absent"} \cup IF Started(d) THEN {"leaving"} ELSE {}
                [] OTHER -> {"leaving"}

\* What rStopDisplay(DS_TEXTMODE | DS_SCHEDULE) makes of it: a display that is leaving is
\* called back.
Called(d) == CASE status[d] \in {"absent", "textMode"} -> {status[d]}
               [] status[d] = "notRunning" ->
                    {"textMode"} \cup IF Started(d) THEN {"called"} ELSE {}
               [] OTHER -> {"called"}

\* What may become of it when its last process is reaped.
Reaped(d) == CASE status[d] = "running" -> {"notRunning", "leaving", "absent"}
               [] status[d] = "leaving" -> {"absent"}
               [] status[d] = "called"  -> {"textMode"}

\* removeDisplay(): with a display go its settings.
Removed ==
  /\ dcfg' = [d \in Displays |-> IF status'[d] = "absent" THEN Unconfigured ELSE dcfg[d]]
  /\ recalled' = {d \in recalled : status'[d] # "absent"}

\* Mutation: the settings of a display that is removed are found again.
StopDisplayKeeping(d) ==
  /\ \E s \in Stopped(d) : status' = [status EXCEPT ![d] = s]
  /\ UNCHANGED <<dcfg, recalled>>

StopDisplay(d) == /\ \E s \in Stopped(d) : status' = [status EXCEPT ![d] = s]
                  /\ Removed

Listed == {d \in Displays : status[d] # "absent"}
AnyDisplaysLeft ==
  IF stopping THEN \E d \in Listed : status[d] \notin {"notRunning", "textMode"}
  ELSE Listed # {}

\* The top of mainLoop(): a daemon that is stopping starts no displays, and so does not
\* close the reader either.
LoopTop ==
  /\ pc = "loop"
  /\ IF listensocks = {} /\ ~AnyDisplaysLeft THEN pc' = "exit" /\ UNCHANGED todo
     ELSE IF stopping THEN pc' = "asleep" /\ UNCHANGED todo
     ELSE pc' = "displays" /\ todo' = Listed
  /\ UNCHANGED <<filVars, getter, cfgVars, dcfg, status, recalled, reading, requestPort,
                 listensocks, stillThere, stopping, chld, scan>>

\* checkDisplayStatus(): a display that is not listed any more ...
DropDisplay(d) ==
  /\ pc = "displays" /\ reading = None /\ d \in todo
  /\ ~stillThere[d]
  /\ StopDisplay(d)
  /\ todo' = todo \ {d}
  /\ UNCHANGED <<filVars, getter, cfgVars, reading, requestPort, listensocks, stillThere,
                 stopping, chld, pc, scan>>

\* ... or has a session, or settings of the present kdmrc ...
DisplayChanged(d) == status[d] = "notRunning" /\ dcfg[d].time # kdmrc.time
CheckDisplay(d) ==
  /\ pc = "displays" /\ reading = None /\ d \in todo
  /\ stillThere[d]
  /\ IF DisplayChanged(d)
     THEN /\ dcfg' = [dcfg EXCEPT ![d].time = kdmrc.time]
          /\ reading' = d /\ UNCHANGED todo
     ELSE todo' = todo \ {d} /\ UNCHANGED <<dcfg, reading>>
  /\ UNCHANGED <<filVars, getter, cfgVars, status, recalled, requestPort, listensocks,
                 stillThere, stopping, chld, pc, scan>>

\* ... or must be given settings, loadDisplayResources().
LoadDisplayResources ==
  /\ pc = "displays" /\ reading \in Displays
  /\ ReadConfig
  /\ dcfg' = [dcfg EXCEPT ![reading].text = Conf] /\ recalled' = recalled \ {reading}
  /\ todo' = todo \ {reading} /\ reading' = None
  /\ UNCHANGED <<filVars, cfgVars, status, requestPort, listensocks, stillThere, stopping,
                 chld, pc, scan>>

\* Mutation: a display is started although its settings could not be read.
UnreadableIgnored(d) ==
  /\ \E t \in Left(dcfg[d].text) : dcfg' = [dcfg EXCEPT ![d].text = t]
  /\ UNCHANGED <<status, recalled>>

\* "Unable to read configuration for display %s; stopping it." (dm.c:1314)
Unreadable(d) ==
  \E s \in Stopped(d), t \in Left(dcfg[d].text) :
    /\ status' = [status EXCEPT ![d] = s]
    /\ dcfg' = [dcfg EXCEPT ![d] = IF s = "absent" THEN Unconfigured
                                   ELSE [dcfg[d] EXCEPT !.text = t]]
    /\ recalled' = IF s = "absent" THEN recalled \ {d} ELSE recalled
LoadDisplayResourcesFails ==
  /\ pc = "displays" /\ reading \in Displays
  /\ Dies
  /\ Unreadable(reading)
  /\ todo' = todo \ {reading} /\ reading' = None
  /\ UNCHANGED <<filVars, cfgVars, requestPort, listensocks, stillThere, stopping, chld,
                 pc, scan>>

\* The rest of startDisplays(): closeGetter() and kickDisplay().
StartDisplays ==
  /\ pc = "displays" /\ reading = None /\ todo = {}
  /\ CloseGetter
  /\ status' = [d \in Displays |-> IF status[d] = "notRunning" THEN "running" ELSE status[d]]
  /\ pc' = "asleep"
  /\ UNCHANGED <<filVars, cfgVars, dcfg, recalled, todo, reading, requestPort, listensocks,
                 stillThere, stopping, scan>>

Loop ==
  \/ LoopTop \/ LoadDisplayResources \/ LoadDisplayResourcesFails \/ StartDisplays
  \/ \E d \in Displays : DropDisplay(d) \/ CheckDisplay(d)

-----------------------------------------------------------------------------
(* What wakes the master *)

\* Mutation: SIGHUP scans only what has changed.
HandleSighupUnforced ==
  /\ pc = "asleep"
  /\ stillThere' = [d \in Displays |-> FALSE]
  /\ Begin("auto", "globals")
  /\ UNCHANGED <<filVars, getter, cfgVars, dpyVars, requestPort, listensocks, stopping, chld>>

\* SIGHUP marks all displays, so that those are dropped that are not found again.
HandleSighup ==
  /\ pc = "asleep"
  /\ stillThere' = [d \in Displays |-> FALSE]
  /\ Begin("forced", "globals")
  /\ UNCHANGED <<filVars, getter, cfgVars, dpyVars, requestPort, listensocks, stopping, chld>>

\* reapChildren() and AutoRescan.
HandleSigchld ==
  /\ pc = "asleep"
  /\ \E S \in SUBSET {d \in Displays : status[d] \in {"running", "leaving", "called"}} :
       /\ S # {} \/ chld
       /\ status' \in {s \in [Displays -> Statuses] :
                        \A d \in Displays : s[d] \in IF d \in S THEN Reaped(d) ELSE {status[d]}}
  /\ Removed
  /\ chld' = FALSE
  /\ IF ~stopping /\ autoRescan THEN Begin("auto", "globals")
     ELSE pc' = "loop" /\ UNCHANGED scan
  /\ UNCHANGED <<filVars, getter, cfgVars, todo, reading, requestPort, listensocks,
                 stillThere, stopping>>

\* G_Console, from the greeter of one of these displays or another: stopToTTY().  Those
\* that are leaving, even for good, are to come back.
StopToTTY ==
  /\ pc = "asleep"
  /\ ConsoleTTYs
  /\ status' \in {s \in [Displays -> Statuses] : \A d \in Displays : s[d] \in Called(d)}
  /\ recalled' = recalled \cup {d \in Displays : status[d] = "leaving"}
  /\ pc' = "loop"
  /\ UNCHANGED <<filVars, getter, cfgVars, dcfg, todo, reading, requestPort, listensocks,
                 stillThere, stopping, chld, scan>>

\* wakeDisplays(), upon "resume" or when nobody is logged in on the console any more.
WakeDisplays ==
  /\ pc = "asleep"
  /\ \E d \in Displays : status[d] = "textMode"
  /\ status' = [d \in Displays |-> IF status[d] = "textMode" THEN "notRunning" ELSE status[d]]
  /\ pc' = "loop"
  /\ UNCHANGED <<filVars, getter, cfgVars, dcfg, recalled, todo, reading, requestPort,
                 listensocks, stillThere, stopping, chld, scan>>

\* isWilling(), for the first query in 15 seconds.
HandleQuery ==
  /\ pc = "asleep"
  /\ listensocks # {} /\ autoRescan
  /\ Begin("query", "accessDep")
  /\ UNCHANGED <<filVars, getter, cfgVars, dpyVars, requestPort, listensocks, stillThere,
                 stopping, chld>>

\* A shutdown, scheduled or forced, stops the displays; some may have users who are
\* given the time to log out.
Stoppen ==
  /\ pc = "asleep"
  /\ stopping' = TRUE
  /\ requestPort' = FALSE /\ listensocks' = {}
  /\ \E users \in SUBSET {d \in Displays : status[d] = "running"} :
       status' \in {s \in [Displays -> Statuses] :
                      \A d \in Displays : s[d] \in IF d \in users THEN {"running"}
                                                  ELSE Stopped(d)}
  /\ Removed
  /\ pc' = "loop"
  /\ UNCHANGED <<filVars, getter, cfgVars, todo, reading, stillThere, chld, scan>>

\* cancelShutdown() takes it back, or one that was still to come.
CancelShutdown ==
  /\ pc = "asleep"
  /\ stopping' = FALSE
  /\ Begin("forced", "globals")
  /\ UNCHANGED <<filVars, getter, cfgVars, dpyVars, requestPort, listensocks, stillThere, chld>>

Events == \/ HandleSighup \/ HandleSigchld \/ StopToTTY \/ WakeDisplays \/ HandleQuery
          \/ Stoppen \/ CancelShutdown

Exited == pc = "exit" /\ UNCHANGED vars

Next ==
  \/ EditKdmrc \/ \E f \in AccessFiles : EditAccess(f)
  \/ Scan \/ Loop \/ Events \/ Exited

Spec == Init /\ [][Next]_vars

\* The master does not stop on its way round the loop.
FairSpec == Spec /\ WF_vars(Scan \/ Loop)

-----------------------------------------------------------------------------
(* Properties *)

Times == {None} \cup 0..MaxTime
TextOrNone == {None} \cup Texts

TypeOK ==
  /\ kdmrc \in [time : 0..MaxTime, text : Texts]
  /\ access \in [AccessFiles -> [time : 0..MaxTime, hosts : Accesses]]
  /\ clock \in 0..MaxTime
  /\ getter \in [state : {"closed", "open", "dead"}, conf : TextOrNone]
  /\ cfgFiles \in [name : AccessFiles \cup {None}, deptime : Times]
  /\ cfg \in [time : Times, text : TextOrNone]
  /\ accData \in [name : AccessFiles \cup {None}, time : Times,
                  hosts : {None} \cup SUBSET Interfaces, read : BOOLEAN]
  /\ dcfg \in [Displays -> [time : Times, text : TextOrNone]]
  /\ autoRescan \in BOOLEAN /\ requestPort \in BOOLEAN
  /\ listensocks \in SUBSET Interfaces
  /\ status \in [Displays -> Statuses] /\ recalled \subseteq Displays
  /\ stillThere \in [Displays -> BOOLEAN]
  /\ stopping \in BOOLEAN /\ chld \in BOOLEAN
  /\ pc \in {"getDeps", "depTime", "globals", "readGlobals", "accessDep", "accessTime",
             "readAccess", "loop", "displays", "asleep", "exit"}
  /\ scan \in {"start", "forced", "auto", "query"}
  /\ todo \in SUBSET Displays /\ reading \in Displays \cup {None}

\* An access list that carries the time of its file is the list of that file, unless the
\* reading of it failed: a change that comes between the look at the time and the
\* reading, of either file, is not taken for read.  (needsReScan() looks at the time
\* before startConfig() has the file read.)
AccessTimeIsHonest ==
  accData.read /\ accData.time = access[accData.name].time
  => accData.hosts = access[accData.name].hosts

\* The scan upon a SIGHUP, or a cancelled shutdown, has not come to scanServers() yet.
Marking == pc \in {"globals", "readGlobals"} /\ Forced

\* A display that the settings in force list is not dropped: the marks of a SIGHUP are
\* gone when startDisplays() looks at them, whatever becomes of that scan after the
\* global settings.  (If these cannot be read all displays of kdmrc are dropped.)
ListedStays ==
  ~Marking /\ cfg.text # None =>
    \A d \in cfg.text.servers : status[d] # "absent" => stillThere[d]

\* No display has a session without settings, although the reader may die in any
\* reading and the time that was stored before it says that they are up to date: unless
\* the console mode has called it back as it was leaving for that reason.
RunningIsConfigured ==
  \A d \in Displays \ recalled : status[d] = "running" => dcfg[d].text # None

\* What they need beside.  No file is older than the time the master has stored of it.
TimesArePast ==
  /\ \A f \in AccessFiles : access[f].time <= clock
  /\ accData.name # None => accData.time \in 0..clock

\* While an access file is being looked at its name is known.
FileIsNamed ==
  /\ pc \in {"depTime", "accessTime"} => cfgFiles.name # None
  /\ pc = "readAccess" \/ accData.read => accData.name # None
  /\ pc = "readAccess" => ~accData.read
  /\ cfgFiles.deptime # None => cfgFiles.name # None

\* startDisplays() gives settings to what has none, and stops what it cannot give any.
\* Only what has been stopped, or called back after that, has a time without settings.
SettingsAreGiven ==
  /\ reading # None => pc = "displays" /\ status[reading] = "notRunning"
                       /\ dcfg[reading].time # None
  /\ \A d \in Displays :
       /\ status[d] = "absent" => dcfg[d] = Unconfigured
       /\ pc = "displays" /\ status[d] = "notRunning" /\ d \notin todo => dcfg[d].time # None
       /\ status[d] = "running" => dcfg[d].time # None
       /\ status[d] # "leaving" /\ dcfg[d].time # None /\ d # reading /\ d \notin recalled
          => dcfg[d].text # None

\* The inductive invariant.
ConfigInv == TypeOK /\ AccessTimeIsHonest /\ ListedStays /\ RunningIsConfigured
             /\ TimesArePast /\ FileIsNamed /\ SettingsAreGiven

\* A daemon that is not stopping closes the reader it has opened, as it would not read
\* a kdmrc that changes.
ReaderIsClosed ==
  <>[]~stopping => []<>(getter.state = "closed" \/ pc = "exit")

\* As long as there are queries, the access list follows the file it has been read from:
\* no change of it is missed for good, unless the reader died when it was to read it.
AccessFollows ==
  <>[](~stopping /\ Answers) /\ []<><<HandleQuery>>_vars
  => <>[](accData.read => accData.hosts = access[accData.name].hosts)

\* "Unable to read configuration for display %s; stopping it." (dm.c:1314): what cannot
\* be given settings is not started.
UnreadableIsStopped ==
  \A d \in Displays : status[d] = "running" => dcfg[d].text # None

\* "Rescanning all config files" (dm.c:1267): after the global settings have been read
\* upon a SIGHUP, the daemon has those that are in kdmrc.
HangupRereads ==
  [][pc = "readGlobals" /\ Forced /\ Answers => cfg'.text = kdmrc.text]_vars

=============================================================================
