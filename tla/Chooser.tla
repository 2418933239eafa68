------------------------------ MODULE Chooser -------------------------------
(***************************************************************************)
(* The host chooser: the session sub-daemon ("core"; doChoose() in         *)
(* choose.c) asks the network which hosts would let the user log in, and   *)
(* the greeter's ChooserDlg (kchooser.cpp) shows them.  While it does the  *)
(* pipes are in "async mode": core sends what it hears at any time, and    *)
(* the user's commands cross it.                                           *)
(*                                                                         *)
(* A host is known by an id, which is the address of core's record of it.  *)
(* Messages are words in the pipes, as those of Dialogue.                  *)
(***************************************************************************)
EXTENDS Dialogue, FiniteSets, SequencesExt

CONSTANTS
  Hosts,       \* hosts in the network
  Statuses,    \* what a host may say of itself
  Ids,         \* addresses malloc() may return for the record of a host
  Clicks       \* bound: words of the chooser's user that core has not read

ASSUME ChooserAssumption ==
  /\ "none" \notin Hosts
  /\ IsFiniteSet(Ids)

\* pingTry is compared with this.
PING_TRIES == 3

\* What the greeter is told of a host.
ShownOf(h) == [id |-> h.id, host |-> h.host, status |-> h.status]

-----------------------------------------------------------------------------
(* core *)

\* reping: all hosts have to respond again, and core asks them.
Repinged(c) == [c EXCEPT !.pc = "choosing", !.pingTry = 1, !.responded = {},
                         !.hosts = {[h EXCEPT !.alive = FALSE] : h \in c.hosts}]

\* The chooser is ready: async mode.
ChooserReady ==
  /\ At("prepare") /\ up # <<>> /\ Head(up) = "ready"
  /\ up' = Tail(up) /\ down' = Append(down, "async")
  /\ core' = Repinged(core)
  /\ UNCHANGED greeterVars

\* Mutation: the hosts are kept for the next time.
KeepHostnames(c) == [c EXCEPT !.pingTry = 0, !.responded = {}]

emptyHostnames(c) == [c EXCEPT !.hosts = {}, !.pingTry = 0, !.responded = {}]

\* Mutation: any host will do.
ChooseAnyHost(id) == core.hosts

\* The host chooseHost() finds for an id, if it is still there.
ChooseHost(id) == {h \in core.hosts : h.id = id}

\* A command of the chooser.
ChooserCommand ==
  /\ At("choosing") /\ up # <<>>
  /\ HasRoom \/ gpc = "gone"
  /\ \/ /\ Head(up) = "interact" /\ up' = Tail(up) /\ UNCHANGED <<core, down>>
     \/ /\ Head(up) = "refresh" /\ up' = Tail(up)
        /\ core' = Repinged(core) /\ UNCHANGED down
     \/ /\ Head(up) = "register" /\ up' = Tail(up)
        /\ core' = Repinged(core)
        /\ \E bad \in {<<>>, <<"badHost">>} : down' = down \o bad
     \/ /\ Head(up) = "direct" /\ up' = Tail(up)
        /\ \/ down' = Append(down, "badHost") /\ UNCHANGED core
           \/ down' = Append(down, "exit") /\ core' = [core EXCEPT !.pc = "ended"]
     \/ /\ Head(up) = "ready" /\ up' = SubSeq(up, 3, Len(up))
        /\ LET found == ChooseHost(up[2]) IN
           /\ found = {} => core' = [core EXCEPT !.pc = "ended"]
           /\ found # {} => \E h \in found :
                core' = [core EXCEPT !.pc = "ended", !.chosen = h.host]
        /\ UNCHANGED down
     \/ /\ Head(up) = "greet" /\ up' = Tail(up) /\ Greet(emptyHostnames(core))
  /\ UNCHANGED greeterVars

\* The chooser has gone, and core has read what it sent: the session ends, or another
\* greeter is opened, but not for a display that is to get a chooser.  It also ends when
\* core has something to tell the chooser that has gone, whatever that has sent.
ChooserLost ==
  /\ At("choosing") /\ gpc = "gone"
  /\ gpc' = "none"
  /\ \E pc \in {"ended"} \cup IF up = <<>> /\ conf.login # "indirect" THEN {"open"} ELSE {} :
       core' = [emptyHostnames(core) EXCEPT !.pc = pc]
  /\ UNCHANGED <<conf, up, down, login, over, armed, needLoad, menu>>

\* Time for another ping, or to drop those that have not responded to any.
Ping ==
  /\ At("choosing") /\ HasRoom /\ gpc # "gone"
  /\ IF core.pingTry < PING_TRIES
     THEN core' = [core EXCEPT !.pingTry = @ + 1] /\ UNCHANGED down
     ELSE LET dead == {h \in core.hosts : ~h.alive} IN
          /\ dead # {}
          /\ core' = [core EXCEPT !.hosts = @ \ dead]
          /\ \E order \in SetToSeqs(dead) :
               down' = down \o [k \in 1..(2 * Len(order)) |->
                                 IF k % 2 = 1 THEN "removeHost" ELSE order[k \div 2].id]
  /\ UNCHANGED up /\ UNCHANGED greeterVars

\* malloc(); free memory may be reused at once.
Malloc == {i \in Ids : \A h \in core.hosts : h.id # i}

\* addHostname() for a host that is not known yet, or is.
AddHost(host, status) ==
  \E id \in Malloc :
    /\ core' = [core EXCEPT
         !.hosts = @ \cup {[id |-> id, host |-> host, status |-> status, alive |-> TRUE]},
         !.responded = @ \cup {host}]
    /\ down' = down \o <<"addHost", id, host, status>>

\* A response that says nothing new is dropped before the host is marked alive.
ChangeHost(h, status) ==
  IF h.status = status
  THEN core' = [core EXCEPT !.responded = @ \cup {h.host}] /\ UNCHANGED down
  ELSE /\ core' = [core EXCEPT
            !.hosts = (@ \ {h}) \cup {[h EXCEPT !.status = status, !.alive = TRUE]},
            !.responded = @ \cup {h.host}]
       /\ down' = down \o <<"changeHost", h.id, h.host, status>>

\* receivePacket(): WILLING or UNWILLING of a host, whenever it comes.
ReceivePacket ==
  /\ At("choosing") /\ HasRoom /\ gpc # "gone"
  /\ \E host \in Hosts, status \in Statuses :
       LET known == {h \in core.hosts : h.host = host} IN
       IF known = {} THEN AddHost(host, status)
       ELSE \E h \in known : ChangeHost(h, status)
  /\ UNCHANGED up /\ UNCHANGED greeterVars

-----------------------------------------------------------------------------
(* The greeter *)

\* The chooser is shown, without any hosts.
ChooserStart ==
  /\ gpc = "chooserAck" /\ down # <<>> /\ Head(down) = "async"
  /\ down' = Tail(down)
  /\ gpc' = "chooser" /\ menu' = {} /\ armed' = TRUE
  /\ UNCHANGED <<conf, core, up, login, over, needLoad>>

\* The menu m after one message, the first of the words w, and the words after it.
Item(w) == [id |-> w[2], host |-> w[3], status |-> w[4]]
Without(m, id) == {i \in m : i.id # id}
Heard(m, w) ==
  CASE w[1] = "addHost"    -> [menu |-> m \cup {Item(w)}, rest |-> SubSeq(w, 5, Len(w))]
    [] w[1] = "changeHost" -> [menu |-> {IF i.id = w[2] THEN Item(w) ELSE i : i \in m},
                               rest |-> SubSeq(w, 5, Len(w))]
    [] w[1] = "removeHost" -> [menu |-> Without(m, w[2]), rest |-> SubSeq(w, 3, Len(w))]
    [] OTHER               -> [menu |-> m, rest |-> Tail(w)]

\* slotReadPipe()
ChooserReads ==
  /\ gpc = "chooser" /\ down # <<>>
  /\ menu' = Heard(menu, down).menu /\ down' = Heard(menu, down).rest
  /\ gpc' = IF Head(down) = "exit" THEN "gone" ELSE "chooser"
  /\ UNCHANGED <<conf, core, up, login, over, armed, needLoad>>

\* The user of the chooser does something that sends out.
Chooses(out) ==
  /\ gpc = "chooser" /\ Len(up) < Clicks
  /\ up' = up \o Touch \o out /\ armed' = FALSE
  /\ UNCHANGED <<conf, core, down, login, over, needLoad>>

ChooserUser ==
  \/ \E cmd \in {"refresh", "register", "direct"} : Chooses(<<cmd>>) /\ UNCHANGED <<gpc, menu>>
  \/ \E item \in menu : Chooses(<<"ready", item.id>>) /\ gpc' = "gone" /\ menu' = {item}
  \/ /\ conf.login \notin {"remoteOnly", "indirect"}
     /\ Chooses(<<"greet">>) /\ gpc' = "command" /\ menu' = {}

\* The chooser crashes, or exits because nobody uses it, or has lost core.
ChooserExit ==
  /\ gpc = "chooser" \/ (gpc = "chooserAck" /\ At("ended"))
  /\ gpc' = "gone" /\ menu' = {}
  /\ UNCHANGED <<conf, core, up, down, login, over, armed, needLoad>>

-----------------------------------------------------------------------------
(* The specification *)

ChooserCore == ChooserReady \/ ChooserCommand \/ ChooserLost
Network     == Ping \/ ReceivePacket
ChooserDlg  == ChooserStart \/ ChooserReads

CNext == DNext \/ ChooserCore \/ Network \/ ChooserDlg \/ ChooserUser \/ ChooserExit

\* "start up in local mode, but allow switching to remote mode" (kdmrc-ref.docbook:1862):
\* the user leaves the chooser when nothing is on its way to it, and nothing more comes.
LeaveBreach ==
  /\ core.pc \in {"choosing", "ended"} /\ ~At("wait")'
  /\ gpc' = "command" /\ down' # <<>>

\* "the request is forwarded to the chosen host" (kdmrc-ref.docbook:451): the host that
\* the user chooses has not been dropped by core in the meantime.
DroppedBreach ==
  /\ gpc = "chooser" /\ gpc' = "gone"
  /\ \E m \in menu' : \A h \in core.hosts : h.id # m.id \/ h.host # m.host

Breaches == DBreaches \cup {k \in {"leave", "dropped"} :
                             CASE k = "leave" -> LeaveBreach [] k = "dropped" -> DroppedBreach}

CSpec == DInit /\ [][CNext /\ broken' = broken \cup Breaches]_allVars

\* The fairness of Dialogue, for the chooser too.
CFairSpec ==
  /\ CSpec
  /\ WF_dVars(CoreStep \/ ChooserCore) /\ WF_dVars(Greeter \/ ChooserDlg)
  /\ SF_dVars(Pam) /\ SF_dVars(Account) /\ SF_dVars(Client)

-----------------------------------------------------------------------------
(* Properties *)

\* The menu m after all the words on their way to it.
After(m, words) ==
  LET heard[n \in 0..Len(words)] ==
        IF n = 0 THEN [menu |-> m, rest |-> words]
        ELSE IF heard[n - 1].rest = <<>> THEN heard[n - 1]
        ELSE Heard(heard[n - 1].menu, heard[n - 1].rest)
  IN  heard[Len(words)].menu

\* When the chooser has read what is on its way to it, it shows the hosts that core
\* knows, no more and no others, whatever has been added, changed, dropped and shown
\* before: in particular it is never told to change a host it does not show, of which
\* kchooser.cpp would use a null pointer.
MenuFollows ==
  Kept /\ At("choosing") /\ gpc = "chooser" => After(menu, down) = {ShownOf(h) : h \in core.hosts}

\* The host that core connects to is the one the user saw when choosing it, or none
\* if it has been dropped meanwhile.
ChosenWasShown ==
  [][core'.chosen # core.chosen /\ Kept' => core'.chosen \in {m.host : m \in menu}]_allVars

\* "offer a menu of all the hosts that respond" (kdmrc-ref.docbook:2150): only hosts
\* that have not responded since they were asked are dropped.
RespondingHostsStay ==
  [][At("choosing") /\ At("choosing")' =>
       \A h \in core.hosts : h.host \in core'.responded =>
         \E k \in core'.hosts : k.host = h.host]_allVars

\* What comes of it when one of the assumptions does not hold.  "We assume that no
\* asynchronous communication is going on before the first user interaction."
\* (kgapp.cpp:210): however that may be, core takes the report of it for what it is.
FirstInputIsQuiet == broken \subseteq {"input"} => Understood

\* "assert(coreState != CoreBusy)" (kgverify.cpp:343): what a user does while core is
\* busy is not taken for something else.
BusyIsLeftAlone == broken \subseteq {"busy"} => Understood

\* "only one of them is active at any moment (the others would be suspended or not
\* running at all)" (kgreeterplugin.h:373): so the login dialog does not speak while
\* another one is above it, and core understands the one that does.
SuspendedIsInactive == broken \subseteq {"suspended"} => Understood

\* "Start a processing cycle. Will be called only when not running." (kgreeterplugin.h:218):
\* after slotTimeout() has started a plugin, core can be given an answer or a command.
StartedOnce == broken \subseteq {"twice"} => Moves

\* "it does not hurt if gplugStart is still called" (kgreeterplugin.h:402): what the plugin
\* of the dialog that renews a password sends is understood.
ContDoesNotHurt == broken \subseteq {"cont"} => Understood

\* "start up in local mode, but allow switching to remote mode", "and the other way round"
\* (kdmrc-ref.docbook:1862): leaving the chooser, the greeter understands what it reads.
ChooserLetsGo == broken \subseteq {"leave"} => Understood

\* "the request is forwarded to the chosen host" (kdmrc-ref.docbook:451): core connects to
\* the host that was chosen, even if it has been dropped in the meantime.
DroppedNotChosen == [][core'.chosen # core.chosen /\ broken' \subseteq {"dropped"}
                         => core'.chosen \in {m.host : m \in menu}]_allVars

=============================================================================
