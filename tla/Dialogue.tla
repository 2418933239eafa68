------------------------------ MODULE Dialogue ------------------------------
(***************************************************************************)
(* The dialogue of a login: the session sub-daemon ("core"; session.c,     *)
(* client.c) asks PAM, which asks back, and the greeter (kgapp.cpp,        *)
(* kgverify.cpp, kgreeter.cpp) with its conversation plugin shows the      *)
(* prompts and answers them.  They talk over a pair of pipes, and each     *)
(* side must know from its own state what the next thing it reads is:      *)
(* G_Ready, an acknowledgement and a null string are all the same 0.       *)
(*                                                                         *)
(* core is one process; so is the greeter, whose event loop runs for the   *)
(* login dialog or, over it, for the one that renews an expired password   *)
(* (KGChTok) or one that asks for a shutdown and may want root to be       *)
(* verified (kdmshutdown.cpp).  Each has a KGVerify, the "talker", with    *)
(* its own idea of what core does (coreState).  The choice of a plugin in  *)
(* a dialog and the request to the master are left out; both dialogs have  *)
(* the same plugin, and who is verified as root is root.  What the two do  *)
(* while the user chooses another host is in the module Chooser.           *)
(***************************************************************************)
EXTENDS Naturals, Sequences

CONSTANTS
  Configs,     \* the configurations there may be, see conf
  PipeSize     \* bound: messages of verify() the pipe to the greeter holds

ASSUME DialogueAssumption ==
  /\ Configs \subseteq [plugin : {"classic", "generic"}, timed : BOOLEAN, shutdown : BOOLEAN,
                        login : {"localOnly", "defaultLocal", "defaultRemote", "remoteOnly",
                                 "indirect"}]
  /\ \A c \in Configs : c.timed => c.plugin = "classic"
  /\ PipeSize \in Nat \ {0}

VARIABLES
  conf,      \* the configuration: the plugin, whether there is a login after a
             \* countdown, shutdowns can be asked for, and LoginMode ("indirect": the
             \* display is to get a chooser)
  core,      \* the sub-daemon: where it is, and the state of verify()
  up,        \* the pipe to core
  down,      \* the pipe to the greeter
  gpc,       \* where the greeter is
  login,     \* the talker of the login dialog
  over,      \* the talker of the dialog over it, that renews a password or asks
             \* for a shutdown
  armed,     \* sendInteract: no input so far
  needLoad,  \* the greeter has yet to ask for the session of the user
  menu,      \* the hosts the chooser shows
  broken     \* history: which of the code's own assumptions have not held so far

coreVars    == <<conf, core, menu>>
greeterVars == <<conf, gpc, login, over, armed, needLoad, menu>>
dVars       == <<conf, core, up, down, gpc, login, over, armed, needLoad, menu>>

Plugin == conf.plugin
Timed  == conf.timed

\* KGVerify: what core does in its opinion, whether its plugin runs, it reads the
\* pipe, shows a failure, counts down; what the plugin has been asked for; what the
\* dialog is for.
Talkers  == [state : {"none", "idle", "prompting", "busy"}, running : BOOLEAN, reads : BOOLEAN,
             failed : BOOLEAN, counting : BOOLEAN, asked : {"no", "user", "more"},
             plugin : {"classic", "generic"}, ctx : {"login", "renew", "shutdown"}]
NewTalker == [state |-> "idle", running |-> FALSE, reads |-> FALSE, failed |-> FALSE,
              counting |-> FALSE, asked |-> "no", plugin |-> Plugin, ctx |-> "login"]
NoTalker  == [NewTalker EXCEPT !.state = "none"]

-----------------------------------------------------------------------------
(* core: the end of verify() *)

At(place) == core.pc = place

\* curtype: automatic logins are classic ones.
Classic == Plugin = "classic" \/ core.conv = "auto"

\* verify() has returned: what it knew while it ran is forgotten.
Forgotten == [core EXCEPT !.ask = "user", !.say = "msg", !.then = "pam", !.conv = "greeter",
                          !.caller = "wait", !.root = FALSE, !.phase = "login",
                          !.pass = FALSE, !.nopass = FALSE]

\* Whom verify() has let in if it returns ok.
Verified(ok) == IF ~ok THEN "no" ELSE IF core.root THEN "root" ELSE "user"

\* Mutation: manageSession() starts the session whatever verify() returns.
ReturnsUnchecked(out, ok) ==
  /\ down' = down \o out \o (IF ok /\ core.caller # "session" THEN <<"ok">> ELSE <<>>)
  /\ core' = [Forgotten EXCEPT !.verified = Verified(ok),
                !.pc = IF core.caller = "session" THEN "client" ELSE core.caller]

\* verify() returns ok after sending out; V_OK is up to its caller: ctrlGreeterWait()
\* sends it, manageSession() goes on to start the session.
Returns(out, ok) ==
  /\ down' = down \o out \o (IF ok /\ core.caller # "session" THEN <<"ok">> ELSE <<>>)
  /\ core' = [Forgotten EXCEPT !.verified = Verified(ok),
                !.pc = IF core.caller # "session" THEN core.caller
                       ELSE IF ok THEN "client" ELSE "wait"]

\* doPAMAuth() returns False after sending out: so does verify(), except that an
\* authentication that is to renew a password is tried again.
Fails(out) ==
  IF core.phase = "login" THEN Returns(out, FALSE)
  ELSE core' = [core EXCEPT !.pc = "pam"] /\ down' = down \o out

\* displayStr() or V_RET_AUTH: something the user must see, and what comes after it.
Tells(what, then) ==
  core' = [core EXCEPT !.pc = "tell", !.say = what, !.then = then] /\ UNCHANGED down

\* Mutation: the arguments are swapped.
AsksSwapped(what, prompt) ==
  core' = [core EXCEPT !.pc = "answer", !.ask = prompt] /\ down' = Append(down, what)

\* conv_interact()
Asks(what, prompt) ==
  core' = [core EXCEPT !.pc = "answer", !.ask = what] /\ down' = Append(down, prompt)

-----------------------------------------------------------------------------
(* core: manageSession() *)

\* An automatic login, or else the greeter.
CoreStart ==
  /\ At("start")
  /\ \/ core' = [core EXCEPT !.pc = "open"]
     \/ /\ conf.login # "indirect"
        /\ core' = [core EXCEPT !.pc = "pam", !.conv = "auto", !.caller = "session",
                                !.pass = TRUE]
  /\ UNCHANGED <<up, down>> /\ UNCHANGED greeterVars

\* The command for a login dialog, with or without the countdown; c is what else
\* becomes of core.
Greet(c) ==
  /\ \E cmd \in {"greet"} \cup (IF Timed THEN {"greetTimed"} ELSE {}) :
       down' = Append(down, cmd)
  /\ core' = [c EXCEPT !.pc = "wait"]

\* doChoose() has the chooser shown.
LetChoose == core' = [core EXCEPT !.pc = "prepare"] /\ down' = Append(down, "choose")

\* openGreeter(), or prepareErrorGreet() when there is none.
OpenGreeter ==
  /\ At("open") \/ At("tell")
  /\ gpc = "none"
  /\ gpc' = "boot"
  /\ up' = <<>> /\ down' = <<>>
  /\ core' = [core EXCEPT !.pc = IF At("open") THEN "opening" ELSE "openingForError"]
  /\ UNCHANGED <<login, over, armed, needLoad, menu, conf>>

GreeterOpened ==
  /\ core.pc \in {"opening", "openingForError", "openingForShutdown"}
  /\ up # <<>> /\ Head(up) = "ready"
  /\ up' = Tail(up)
  /\ IF At("openingForError")
     THEN core' = [core EXCEPT !.pc = "tell"] /\ down' = Append(down, "errorGreet")
     ELSE IF At("openingForShutdown")
     THEN core' = [core EXCEPT !.pc = "confirm"] /\ down' = Append(down, "confShutdown")
     ELSE IF conf.login \in {"localOnly", "defaultLocal"} THEN Greet(core)
     ELSE LetChoose
  /\ UNCHANGED greeterVars

\* ctrlGreeterWait() carries out a command of the greeter, before the session or after.
GreeterCommand ==
  /\ At("wait") \/ At("confirm")
  /\ up # <<>>
  /\ up' = Tail(up)
  /\ LET cmd == Head(up)
         verify == [core EXCEPT !.verified = "no", !.caller = core.pc,
                                !.root = (cmd = "verifyRoot")]
     IN  \/ /\ cmd = "ready"
            /\ core' = [core EXCEPT !.pc = IF At("wait") THEN "client" ELSE "ended"]
            /\ UNCHANGED down
         \/ cmd = "chooseHost" /\ LetChoose
         \/ cmd \in {"interact", "putDmrc"} /\ UNCHANGED <<core, down>>
         \/ cmd = "readDmrc" /\ down' = Append(down, "status") /\ UNCHANGED core
         \/ cmd = "getDmrc" /\ down' = Append(down, "value") /\ UNCHANGED core
         \/ /\ cmd \in {"verify", "verifyRoot"} /\ Plugin = "classic"
            /\ core' = [verify EXCEPT !.pc = "answer", !.ask = "user"]
            /\ down' = Append(down, "getUser")
         \/ /\ cmd \in {"verify", "verifyRoot"} /\ Plugin = "generic"
            /\ core' = [verify EXCEPT !.pc = "pam"] /\ UNCHANGED down
         \/ /\ cmd = "autoLogin"
            /\ core' = [verify EXCEPT !.pc = "pam", !.conv = "auto", !.pass = TRUE]
            /\ UNCHANGED down
  /\ UNCHANGED greeterVars

\* The session begins, or cannot be started.
Begins == \E pc \in {"session", "ended"} : core' = [core EXCEPT !.pc = pc]

\* finishGreet() tells the greeter, if there is one, and waits for it.
FinishGreet ==
  IF gpc = "none" THEN Begins /\ UNCHANGED down
  ELSE core' = [core EXCEPT !.pc = "closing"] /\ down' = Append(down, "ok")

\* startClient(): messages of the child that sets the session up, and of failures.
\* The greeter goes before the session begins, or the sub-daemon exits.
ClientMessage == At("client") /\ Tells("msg", "client") /\ UNCHANGED up /\ UNCHANGED greeterVars

Client == At("client") /\ FinishGreet /\ UNCHANGED up /\ UNCHANGED greeterVars

\* Mutation: the loop of manageSession() goes on after a login.
GreeterReopened ==
  /\ At("closing") /\ gpc = "gone"
  /\ gpc' = "none" /\ core' = [core EXCEPT !.pc = "open"]
  /\ UNCHANGED <<up, down, login, over, armed, needLoad, menu, conf>>

\* closeGreeter() has waited for the greeter.
GreeterClosed ==
  /\ At("closing") /\ gpc = "gone"
  /\ gpc' = "none" /\ Begins
  /\ UNCHANGED <<up, down, login, over, armed, needLoad, menu, conf>>

\* The session is over; if the master still knows of a shutdown the user asked for in
\* it, a greeter is to have it confirmed.
SessionEnds ==
  /\ At("session")
  /\ \/ core' = [core EXCEPT !.pc = "ended"] /\ UNCHANGED <<up, down, gpc>>
     \/ /\ conf.shutdown
        /\ core' = [core EXCEPT !.pc = "openingForShutdown"]
        /\ gpc' = "boot" /\ up' = <<>> /\ down' = <<>>
  /\ UNCHANGED <<login, over, armed, needLoad, menu, conf>>

\* The greeter has gone: what it has sent is read, then the session ends, or
\* another greeter is opened if there has been input or it has lived for a while.
GreeterLost ==
  /\ core.pc \in {"opening", "openingForError", "openingForShutdown", "wait", "confirm",
                  "answer", "ack", "prepare"}
  /\ gpc = "gone" /\ up = <<>>
  /\ gpc' = "none"
  /\ \/ core' = [core EXCEPT !.pc = "ended"]
     \/ /\ At("wait") \/ (At("prepare") /\ conf.login # "indirect")
        /\ core' = [core EXCEPT !.pc = "open"]
  /\ UNCHANGED <<up, down, login, over, armed, needLoad, menu, conf>>

-----------------------------------------------------------------------------
(* core: verify() *)

\* core blocks until the pipe has room.
HasRoom == Len(down) < PipeSize

\* displayStr() or V_RET_AUTH, once there is a greeter.
Tell ==
  /\ At("tell") /\ gpc # "none" /\ HasRoom
  /\ IF core.say = "msg"
     THEN core' = [core EXCEPT !.pc = "ack"] /\ down' = Append(down, "msg")
     ELSE Fails(<<"auth">>)
  /\ UNCHANGED up /\ UNCHANGED greeterVars

Acknowledged ==
  /\ At("ack") /\ up # <<>> /\ Head(up) = "ack"
  /\ up' = Tail(up)
  /\ IF core.then = "fail" THEN Fails(<<"fail">>)
     ELSE core' = [core EXCEPT !.pc = core.then] /\ UNCHANGED down
  /\ UNCHANGED greeterVars

\* PAM has a message, a prompt, or is done.  A prompt is answered with the password
\* known already, if the method is classic and this is not the renewal of it.  For an
\* automatic login it is always known: without AutoLoginPass it is empty, not missing.
PamMessage == At("pam") /\ Tells("msg", "pam") /\ UNCHANGED up /\ UNCHANGED greeterVars

PamPrompt ==
  /\ core.phase = "login" /\ Classic => ~core.pass
  /\ Asks(IF core.phase = "login" /\ Classic THEN "pass" ELSE "other", "getMore")

\* V_PUT_USER, if it was PAM that asked for the user.
PutUser == {<<>>} \cup IF Classic \/ core.phase # "login" THEN {} ELSE {<<"putUser">>}

PamSuccess ==
  CASE core.phase = "login" ->
         /\ core' = [core EXCEPT !.pc = "account"]
         /\ \E user \in PutUser : down' = down \o user
    [] core.phase = "renew" ->
         core' = [core EXCEPT !.phase = "change"] /\ down' = Append(down, "preOk")
    [] core.phase = "change" -> Returns(<<>>, TRUE)

PamFailure ==
  IF core.phase = "change"
  THEN UNCHANGED core /\ down' = Append(down, "fail")
  ELSE /\ core' \in {[core EXCEPT !.pc = "tell", !.say = "auth"],
                     [core EXCEPT !.pc = "tell", !.say = "msg", !.then = "fail"]}
       /\ \E user \in PutUser : down' = down \o user

PamAsks == At("pam") /\ HasRoom /\ PamPrompt /\ UNCHANGED up /\ UNCHANGED greeterVars

Pam ==
  /\ At("pam") /\ HasRoom
  /\ PamSuccess \/ PamFailure
  /\ UNCHANGED up /\ UNCHANGED greeterVars

\* The restrictions, and pam_acct_mgmt(): it may want the password to be renewed,
\* after an authentication if the user was not asked for it.  PAM has output a
\* message then, so that there is a greeter.  Root is let in without any of this.
AccountMessage ==
  At("account") /\ ~core.root /\ Tells("msg", "account") /\ UNCHANGED up /\ UNCHANGED greeterVars

Account ==
  /\ At("account") /\ HasRoom
  /\ \/ Returns(<<>>, TRUE)
     \/ ~core.root /\ Tells("msg", "fail")
     \/ ~core.root /\ Tells("auth", "wait")
     \/ /\ gpc # "none" /\ ~core.root
        /\ LET again == core.conv = "auto" \/ core.nopass IN
           /\ core' = [core EXCEPT !.pc = "pam", !.phase = IF again THEN "renew" ELSE "change"]
           /\ down' = Append(down, IF again THEN "chtokAuth" ELSE "chtok")
  /\ UNCHANGED up /\ UNCHANGED greeterVars

\* The answer to a prompt; a null one aborts verify(), which then says nothing.
Answered ==
  /\ At("answer") /\ up # <<>> /\ Head(up) \in {"text", "null"}
  /\ up' = Tail(up)
  /\ LET null == Head(up) = "null" IN
     CASE null /\ core.ask # "noDelay" -> Returns(<<>>, FALSE)
       [] core.ask = "user" /\ ~null ->
            \/ core' = [core EXCEPT !.pc = "pam"] /\ UNCHANGED down
            \/ Asks("noDelay", "getNow")
       [] core.ask = "noDelay" ->
            /\ core' \in {[core EXCEPT !.pc = "pam", !.pass = ~null, !.nopass = np] :
                            np \in {TRUE, null}}
            /\ UNCHANGED down
       [] core.ask \in {"pass", "other"} /\ ~null ->
            /\ core' = [core EXCEPT !.pc = "pam", !.pass = (core.pass \/ core.ask = "pass")]
            /\ UNCHANGED down
  /\ UNCHANGED greeterVars

-----------------------------------------------------------------------------
(* The greeter: a plugin and its talker.  Operators map the talker t with what it  *)
(* has sent so far, out, to the same after a call.                                  *)

\* gplugStart()
GplugStart(r) ==
  IF r.t.state # "idle" THEN r
  ELSE [t |-> [r.t EXCEPT !.state = "busy"],
        out |-> Append(r.out, IF r.t.ctx = "shutdown" THEN "verifyRoot" ELSE "verify")]

\* Mutation: after a null answer core is still taken to be busy.
ReturnedBusy(r, text) ==
  [t |-> [r.t EXCEPT !.state = "busy",
                     !.asked = IF text = "null" THEN "no" ELSE r.t.asked],
   out |-> Append(r.out, text)]

\* gplugReturnText()
Returned(r, text) ==
  [t |-> [r.t EXCEPT !.state = IF text = "null" THEN "idle" ELSE "busy",
                     !.asked = IF text = "null" THEN "no" ELSE r.t.asked],
   out |-> Append(r.out, text)]

\* greet->start(): the generic plugin wants to be prompted at once.
PluginStart(r) ==
  LET u == [t |-> [r.t EXCEPT !.asked = "no"], out |-> r.out] IN
  IF u.t.plugin = "generic" THEN GplugStart(u) ELSE u

\* Mutation: whether there is a prompt to give up is not looked at.
AbortAnyway(r) == Returned(r, "null")

\* greet->abort()
PluginAbort(r) == IF r.t.asked = "no" THEN r ELSE Returned(r, "null")

\* Whether the countdown comes again (_autoLoginAgain).
Again == IF Timed THEN BOOLEAN ELSE {FALSE}

\* KGVerify::start(), with or without a countdown.
Started(timed) ==
  IF timed THEN [t |-> [NewTalker EXCEPT !.counting = TRUE], out |-> <<>>]
  ELSE PluginStart([t |-> [NewTalker EXCEPT !.running = TRUE, !.reads = TRUE], out |-> <<>>])

\* KGVerify::start() in the dialog that renews the password.
Renewal(plugin) ==
  [state |-> "busy", running |-> TRUE, reads |-> TRUE, failed |-> FALSE, counting |-> FALSE,
   asked |-> "no", plugin |-> plugin, ctx |-> "renew"]

\* A dialog that asks for a shutdown is made: it does not need root, or starts to verify.
ShutdownDialogs ==
  LET t == [NewTalker EXCEPT !.ctx = "shutdown"] IN
  {[t |-> t, out |-> <<>>],
   PluginStart([t |-> [t EXCEPT !.running = TRUE, !.reads = TRUE], out |-> <<>>])}

\* KGVerify::suspend() and resume(): the login dialog while another one asks for a
\* shutdown.
Suspended(r) ==
  LET a == IF r.t.running THEN PluginAbort(r) ELSE r IN
  [t |-> [a.t EXCEPT !.reads = FALSE], out |-> a.out]
Resumed(r) ==
  LET u == [t |-> [r.t EXCEPT !.reads = TRUE], out |-> r.out] IN
  IF u.t.running THEN PluginStart(u) ELSE u

\* Mutation: the failure is still shown after its time.
RetriedFailed(r) ==
  PluginStart([r EXCEPT !.t.running = TRUE, !.t.reads = TRUE, !.t.counting = FALSE])

\* The retry of handleVerify(), and what revives a talker later.
Retried(r) ==
  PluginStart([t   |-> [r.t EXCEPT !.running = TRUE, !.reads = TRUE, !.failed = FALSE,
                                   !.counting = FALSE],
               out |-> r.out])

Top == IF over = NoTalker THEN login ELSE over

\* The talker of the topmost dialog becomes r.t, and r.out is sent.
Puts(r) ==
  /\ IF over = NoTalker THEN login' = r.t /\ UNCHANGED over
                         ELSE over' = r.t /\ UNCHANGED login
  /\ up' = up \o r.out

\* slotLoadPrevWM(), after r: core is asked for the user's session, unless the
\* talker believes that it is busy.
Loads(r, place) ==
  IF r.t.state = "idle"
  THEN /\ login' = r.t /\ UNCHANGED over
       /\ up' = up \o Append(r.out, "readDmrc")
       /\ gpc' = place /\ needLoad' = FALSE
  ELSE Puts(r) /\ needLoad' = TRUE /\ UNCHANGED gpc

\* x11EventFilter(): the first input is reported.
Touch == IF armed THEN <<"interact">> ELSE <<>>

\* core waits for the greeter, and nothing is under way.
Calm == core.pc \in {"wait", "confirm", "answer"} /\ up = <<>> /\ down = <<>>

\* The user may act, or a timer expire, while a dialog is shown.
MayAct == gpc = "dialog"

\* A message box is closed, which takes input.
Ack == Append(Touch, "ack")

-----------------------------------------------------------------------------
(* The greeter: its main loop *)

GreeterReady ==
  /\ gpc = "boot" /\ gpc' = "command"
  /\ up' = Append(up, "ready")
  /\ UNCHANGED <<coreVars, down, login, over, armed, needLoad>>

\* The login dialog is made; its talker has started before the first input.
Greets(timed) ==
  /\ gpc' = "dialog" /\ login' = Started(timed).t /\ up' = up \o Started(timed).out
  /\ over' = NoTalker /\ armed' = TRUE /\ needLoad' = FALSE

ReadCommand ==
  /\ gpc = "command" /\ down # <<>>
  /\ down' = Tail(down)
  /\ \/ Head(down) = "greet" /\ \E again \in Again : Greets(again)
     \/ Head(down) = "greetTimed" /\ Greets(TRUE)
     \/ /\ Head(down) = "errorGreet" /\ gpc' = "fail"
        /\ login' = NoTalker /\ over' = NoTalker /\ armed' = FALSE
        /\ UNCHANGED <<up, needLoad>>
     \/ /\ Head(down) = "confShutdown" /\ gpc' = "dialog"
        /\ \E shutdown \in ShutdownDialogs : over' = shutdown.t /\ up' = up \o shutdown.out
        /\ login' = NoTalker /\ armed' = FALSE /\ UNCHANGED needLoad
     \/ /\ Head(down) = "choose" /\ gpc' = "chooserAck" /\ up' = Append(up, "ready")
        /\ UNCHANGED <<login, over, armed, needLoad>>
  /\ UNCHANGED coreVars

\* handleFailVerify(), before there is a login dialog or after it has ended.
FailVerify ==
  /\ gpc \in {"fail", "final"} /\ down # <<>>
  /\ down' = Tail(down)
  /\ LET ret == Head(down) IN
     \/ /\ ret = "msg" /\ up' = up \o Ack /\ armed' = FALSE
        /\ UNCHANGED <<gpc, login, over, needLoad>>
     \/ /\ \/ ret = "ok"
           \/ gpc = "final" /\ ret \in {"auth", "fail"}
        /\ gpc' = "gone" /\ UNCHANGED <<up, login, over, armed, needLoad>>
     \/ gpc = "fail" /\ ret \in {"auth", "fail"} /\ Greets(FALSE)
     \/ /\ gpc = "fail" /\ ret = "chtokAuth"
        /\ gpc' = "dialog" /\ over' = Renewal("classic")
        /\ UNCHANGED <<up, login, armed, needLoad>>
  /\ UNCHANGED coreVars

\* slotLoadPrevWM() reads the status and, if there is a user, the session.
ReadStatus ==
  /\ gpc \in {"status", "onlyStatus"} /\ down # <<>> /\ Head(down) = "status"
  /\ down' = Tail(down)
  /\ IF gpc = "status"
     THEN gpc' = "value" /\ up' = Append(up, "getDmrc")
     ELSE gpc' = "dialog" /\ UNCHANGED up
  /\ UNCHANGED <<coreVars, login, over, armed, needLoad>>

ReadValue ==
  /\ gpc = "value" /\ down # <<>> /\ Head(down) = "value"
  /\ down' = Tail(down) /\ gpc' = "dialog"
  /\ UNCHANGED <<coreVars, up, login, over, armed, needLoad>>

\* The greeter crashes, or exits with a code for the master; or it has lost core.
GreeterExit ==
  /\ \/ gpc = "dialog" /\ Calm
     \/ gpc \notin {"none", "gone"} /\ At("ended") /\ down = <<>>
  /\ gpc' = "gone"
  /\ UNCHANGED <<coreVars, up, down, login, over, armed, needLoad>>

-----------------------------------------------------------------------------
(* The greeter: KGVerify reads the pipe *)

\* verifyOk() of the login dialog, which ends.
LoginOk(r) ==
  /\ \E put \in {<<>>, <<"putDmrc">>} : up' = up \o put \o <<"ready">>
  /\ gpc' = "final" /\ login' = r.t /\ over' = NoTalker

\* The dialog that asked for a shutdown is gone, after it has sent out: back to the
\* login dialog, or to the end of the greeter that was there for nothing else.
ShutdownClosed(out) ==
  /\ over' = NoTalker
  /\ IF login = NoTalker
     THEN gpc' = "gone" /\ up' = up \o Append(out, "ready") /\ UNCHANGED login
     ELSE LET r == Resumed([t |-> login, out |-> out]) IN
          login' = r.t /\ up' = up \o r.out /\ UNCHANGED gpc

\* The dialog on top has got V_OK: so has the login dialog, if there is one, unless it
\* was root that was verified.  (A dialog for root that may follow has no talker.)
TalkerOk ==
  IF over.ctx = "shutdown" THEN ShutdownClosed(<<>>)
  ELSE IF login = NoTalker
  THEN gpc' = "gone" /\ over' = NoTalker /\ UNCHANGED <<up, login>>
  ELSE LoginOk([t |-> [login EXCEPT !.state = "idle", !.running = FALSE,
                                    !.reads = FALSE, !.asked = "no"]])

\* textPrompt(): the classic plugin may have the answer already, and has to give what
\* it has if it is not to wait.  It knows all prompts there are for a new password.
\* Either knows the user if that is to be root.
Prompted(prompt) ==
  LET t == [Top EXCEPT !.state = "prompting",
                       !.asked = IF prompt = "getUser" THEN "user" ELSE "more"]
      r == [t |-> t, out |-> <<>>]
  IN  \/ Puts(r) /\ ~(prompt = "getNow" /\ Top.plugin = "classic")
      \/ Puts(Returned(r, "text")) /\ (Top.plugin = "classic" \/ Top.ctx = "shutdown")

TalkerReads ==
  /\ gpc = "dialog" /\ Top.reads /\ down # <<>>
  /\ down' = Tail(down)
  /\ LET ret  == Head(down)
         busy == [t |-> [Top EXCEPT !.state = "busy"], out |-> <<>>]
         done == [t |-> [Top EXCEPT !.state = "idle", !.running = FALSE, !.reads = FALSE,
                                    !.asked = "no"], out |-> <<>>]
     IN  \/ /\ ret \in {"getUser", "getMore", "getNow"} /\ Prompted(ret)
            /\ UNCHANGED <<gpc, armed, needLoad>>
         \/ /\ ret = "msg" /\ Puts([busy EXCEPT !.out = Ack]) /\ armed' = FALSE
            /\ UNCHANGED <<gpc, needLoad>>
         \/ /\ ret = "putUser"
            /\ \/ over = NoTalker /\ Loads(busy, "status")
               \/ over.ctx = "shutdown" /\ Puts(busy) /\ UNCHANGED <<gpc, needLoad>>
            /\ UNCHANGED armed
         \/ /\ ret = "preOk" /\ over.ctx = "renew"
            /\ Puts([busy EXCEPT !.t.asked = IF Top.plugin = "generic" THEN "no" ELSE Top.asked])
            /\ UNCHANGED <<gpc, armed, needLoad>>
         \/ /\ ret \in {"chtok", "chtokAuth"} /\ over = NoTalker
            /\ login' = done.t /\ over' = Renewal(Plugin)
            /\ UNCHANGED <<up, gpc, armed, needLoad>>
         \/ ret = "ok" /\ TalkerOk /\ UNCHANGED <<armed, needLoad>>
         \/ /\ ret = "auth"
            /\ LET r == [t |-> [done.t EXCEPT !.failed = TRUE], out |-> <<>>] IN
               IF needLoad /\ over = NoTalker THEN Loads(r, "status")
               ELSE Puts(r) /\ UNCHANGED <<gpc, needLoad>>
            /\ UNCHANGED armed
         \/ ret = "fail" /\ Puts(Retried(done)) /\ UNCHANGED <<gpc, armed, needLoad>>
  /\ UNCHANGED coreVars

-----------------------------------------------------------------------------
(* The greeter: users and timers *)

\* slotTimeout() after a failure: the user may try again.
RetryTimer ==
  /\ gpc = "dialog" /\ Top.failed
  /\ Puts(Retried([t |-> Top, out |-> <<>>]))
  /\ UNCHANGED <<coreVars, down, gpc, armed, needLoad>>

\* x11EventFilter() sees input that does nothing else.
FirstInput ==
  /\ MayAct /\ armed
  /\ up' = up \o Touch /\ armed' = FALSE
  /\ UNCHANGED <<coreVars, down, gpc, login, over, needLoad>>

\* slotActivity() stops a countdown.
Activity ==
  /\ MayAct /\ Top.counting
  /\ Puts(Retried([t |-> Top, out |-> Touch]))
  /\ armed' = FALSE
  /\ UNCHANGED <<coreVars, down, gpc, needLoad>>

\* performAutoLogin(), at the end of the countdown or when Return is pressed.
AutoLogin ==
  /\ MayAct /\ Top.counting
  /\ \E out \in {<<>>, Touch} :
       /\ Puts([t |-> [Top EXCEPT !.counting = FALSE, !.state = "busy", !.reads = TRUE],
                out |-> Append(out, "autoLogin")])
       /\ armed' = (armed /\ out = <<>>)
  /\ UNCHANGED <<coreVars, down, gpc, needLoad>>

\* accept(): greet->next() starts a cycle, or answers a prompt.
Accept ==
  /\ MayAct /\ Top.running
  /\ LET r == [t |-> Top, out |-> Touch] IN
     \/ Top.plugin = "classic" /\ Top.asked = "no" /\ Puts(GplugStart(r))
     \/ /\ Top.asked # "no"
        /\ Top.plugin = "generic" => Top.state = "prompting"
        /\ Puts(Returned(r, "text"))
  /\ armed' = FALSE
  /\ UNCHANGED <<coreVars, down, gpc, needLoad>>

\* The classic plugin's user name is edited: a prompt for the password of another
\* user is given up.
EnterUser ==
  /\ MayAct /\ Top.plugin = "classic" /\ over = NoTalker /\ Top.running
  /\ LET r == [t |-> Top, out |-> Touch] IN
     Loads(IF Top.asked = "more" THEN Returned(r, "null") ELSE r, "status")
  /\ armed' = FALSE
  /\ UNCHANGED <<coreVars, down>>

\* doReject(): the user clears the login dialog, or is inactive for too long.  Input in
\* a dialog over it starts that time again, if the countdown is to come again.
Reject ==
  /\ MayAct /\ login # NoTalker /\ ~login.counting
  /\ \E input \in {<<>>, Touch}, again \in Again :
       LET r == [t |-> login, out |-> input]
           a == IF Top.running THEN PluginAbort(r) ELSE r
           loaded == IF a.t.state = "idle" THEN Append(a.out, "readDmrc") ELSE a.out
           s == IF again THEN [t |-> [a.t EXCEPT !.running = FALSE, !.reads = FALSE,
                                                 !.counting = TRUE], out |-> loaded]
                ELSE IF a.t.running THEN PluginStart([t |-> a.t, out |-> loaded])
                ELSE [t |-> a.t, out |-> loaded]
       IN  /\ over # NoTalker => again
           /\ login' = s.t /\ up' = up \o s.out
           /\ needLoad' = (a.t.state # "idle")
           /\ gpc' = IF a.t.state = "idle" THEN "onlyStatus" ELSE "dialog"
           /\ armed' = (armed /\ input = <<>>)
  /\ UNCHANGED <<coreVars, down, over>>

\* KGChTok is cancelled, and its talker deleted: back to the login dialog.  Before there
\* is one no input is reported.
CancelRenewal ==
  /\ MayAct /\ over.ctx = "renew" /\ ~over.failed
  /\ LET input == IF login = NoTalker THEN <<>> ELSE Touch
         out   == PluginAbort([t |-> over, out |-> input]).out
         s     == IF login = NoTalker THEN Started(FALSE)
                                      ELSE Retried([t |-> login, out |-> <<>>])
     IN  login' = s.t /\ up' = up \o out \o s.out
  /\ armed' = (login = NoTalker) /\ over' = NoTalker
  /\ UNCHANGED <<coreVars, down, gpc, needLoad>>

\* slotShutdown(), slotConsole(): the login dialog is suspended.  What the user did has
\* stopped a countdown.
OpenShutdown ==
  /\ MayAct /\ over = NoTalker
  /\ conf.shutdown /\ ~login.counting
  /\ LET r == Suspended([t |-> login, out |-> Touch]) IN
     \E shutdown \in ShutdownDialogs :
       /\ login' = r.t /\ over' = shutdown.t
       /\ up' = up \o r.out \o shutdown.out
  /\ armed' = FALSE
  /\ UNCHANGED <<coreVars, down, gpc, needLoad>>

\* updateNeedRoot(): the shutdown asked for begins or ceases to need root.
ForceToggled ==
  /\ MayAct /\ over.ctx = "shutdown"
  /\ LET a == PluginAbort([t |-> over, out |-> <<>>]) IN
     Puts(IF over.running
          THEN [t |-> [a.t EXCEPT !.running = FALSE, !.reads = FALSE], out |-> a.out]
          ELSE PluginStart([t |-> [over EXCEPT !.running = TRUE, !.reads = TRUE], out |-> <<>>]))
  /\ UNCHANGED <<coreVars, down, gpc, armed, needLoad>>

\* A dialog that asks for a shutdown is cancelled, or accepted without root; its plugin
\* gives up a prompt.  Another one may come in its place.
CloseShutdown ==
  /\ MayAct /\ over.ctx = "shutdown"
  /\ LET out == PluginAbort([t |-> over, out |-> <<>>]).out IN
     \/ ShutdownClosed(out)
     \/ /\ \E shutdown \in ShutdownDialogs :
             over' = shutdown.t /\ up' = up \o out \o shutdown.out
        /\ UNCHANGED <<gpc, login>>
  /\ UNCHANGED <<coreVars, down, armed, needLoad>>

\* The menu's "Remote Login": the dialog ends, and its plugin gives up a prompt.
SwitchToChooser ==
  /\ MayAct /\ over = NoTalker
  /\ conf.login \notin {"localOnly", "indirect"}
  /\ up' = up \o Append(PluginAbort([t |-> login, out |-> Touch]).out, "chooseHost")
  /\ gpc' = "command" /\ login' = NoTalker /\ armed' = FALSE
  /\ UNCHANGED <<coreVars, down, over, needLoad>>

-----------------------------------------------------------------------------
(* The specification *)

DInit ==
  /\ core = [pc |-> "start", ask |-> "user", say |-> "msg", then |-> "pam", conv |-> "greeter",
              caller |-> "wait", root |-> FALSE, phase |-> "login", pass |-> FALSE,
              nopass |-> FALSE, verified |-> "no", hosts |-> {}, pingTry |-> 0,
              responded |-> {}, chosen |-> "none"]
  /\ conf \in Configs
  /\ up = <<>> /\ down = <<>> /\ menu = {}
  /\ gpc = "none" /\ login = NoTalker /\ over = NoTalker
  /\ armed = FALSE /\ needLoad = FALSE /\ broken = {}

\* The session is over.
Over == At("ended") /\ gpc \in {"none", "gone"} /\ UNCHANGED dVars

CoreStep == \/ CoreStart \/ OpenGreeter \/ GreeterOpened \/ GreeterCommand
            \/ GreeterClosed \/ GreeterLost \/ Tell \/ Acknowledged \/ Answered

Core == CoreStep \/ PamAsks \/ Pam \/ Account \/ Client \/ SessionEnds
        \/ PamMessage \/ AccountMessage \/ ClientMessage

Greeter == \/ GreeterReady \/ ReadCommand \/ FailVerify \/ ReadStatus \/ ReadValue
           \/ TalkerReads \/ RetryTimer

Users == \/ FirstInput \/ Activity \/ AutoLogin \/ Accept \/ EnterUser \/ Reject
         \/ CancelRenewal \/ OpenShutdown \/ ForceToggled \/ CloseShutdown \/ SwitchToChooser \/ GreeterExit

DNext == Core \/ Greeter \/ Users \/ Over

-----------------------------------------------------------------------------
(* What the code assumes and nothing enforces.  The steps are free to break it; the *)
(* history broken has what they have broken, and the properties are claimed as long *)
(* as that is nothing.                                                               *)

\* core is busy in the opinion of the talker.  While a password is renewed core goes on
\* after a failure, which the plugin is not told.
Busy == Top.state = "busy" \/ (over.ctx = "renew" /\ Top.state = "idle" /\ ~Top.failed)

\* "We assume that no asynchronous communication is going on before the first user
\* interaction." (kgapp.cpp:210): the first input finds core waiting for a command.
InputBreach == armed /\ ~armed' /\ gpc \in {"fail", "dialog", "final"} /\ ~(Calm /\ At("wait"))

\* "assert(coreState != CoreBusy)" (kgverify.cpp:343 and :383, commented out): a user or
\* a timer makes the greeter speak, count down, or go elsewhere only when core waits.
BusyBreach ==
  /\ gpc = "dialog" /\ Busy /\ UNCHANGED <<core, down>>
  /\ <<gpc, over, login.counting>>' # <<gpc, over, login.counting>> \/ Len(up') > Len(up)

\* "only one of them is active at any moment" (kgreeterplugin.h, create()): no countdown
\* goes on beneath another dialog.
SuspendedBreach == over'.state # "none" /\ login'.counting

\* "Will be called only when not running." (kgreeterplugin.h, start()): a plugin that
\* is to be started after a failure has not been started before.
TwiceBreach == over'.failed /\ over'.running

\* "it does not hurt if gplugStart is still called" (kgreeterplugin.h, cont()), but it
\* does if core is busy renewing a password.
ContBreach == over'.ctx = "renew" /\ up' = Append(up, "verify")

DBreaches == {k \in {"input", "busy", "suspended", "twice", "cont"} :
                CASE k = "input"     -> InputBreach
                  [] k = "busy"      -> BusyBreach
                  [] k = "suspended" -> SuspendedBreach
                  [] k = "twice"     -> TwiceBreach
                  [] k = "cont"      -> ContBreach}

allVars == <<dVars, broken>>

DSpec == DInit /\ [][DNext /\ broken' = broken \cup DBreaches]_allVars

\* Both processes go on; PAM and the child of startClient() do not only have messages
\* and prompts, and the user closes the boxes that show them.
DFairSpec == /\ DSpec
             /\ WF_dVars(CoreStep) /\ WF_dVars(Greeter)
             /\ SF_dVars(Pam) /\ SF_dVars(Account) /\ SF_dVars(Client)

-----------------------------------------------------------------------------
(* Properties *)

DTypeOK ==
  /\ core \in [pc : {"start", "open", "opening", "openingForError", "openingForShutdown", "wait",
                     "confirm", "answer", "pam", "tell", "ack", "account", "client",
                     "closing", "session", "ended", "prepare", "choosing"},
               ask : {"user", "noDelay", "pass", "other"}, say : {"msg", "auth"},
               then : {"pam", "account", "fail", "client", "wait"},
               conv : {"auto", "greeter"}, caller : {"session", "wait", "confirm"}, root : BOOLEAN,
               phase : {"login", "renew", "change"}, pass : BOOLEAN, nopass : BOOLEAN,
               verified : {"no", "root", "user"}, pingTry : 0..3, hosts : {core.hosts},
               responded : {core.responded}, chosen : {core.chosen}]
  /\ gpc \in {"none", "boot", "command", "fail", "dialog", "status", "onlyStatus",
              "value", "final", "gone", "chooserAck", "chooser"}
  /\ login \in Talkers /\ over \in Talkers
  /\ armed \in BOOLEAN /\ needLoad \in BOOLEAN
  /\ broken \subseteq {"input", "busy", "suspended", "twice", "cont", "leave", "dropped"}

\* What core can make sense of where it reads the pipe.
Commands == {"ready", "interact", "readDmrc", "getDmrc", "putDmrc", "verify", "verifyRoot",
             "autoLogin", "chooseHost"}
CoreExpects ==
  CASE core.pc \in {"opening", "openingForError", "openingForShutdown", "prepare"} -> {"ready"}
    [] At("wait")     -> Commands
    [] At("confirm")  -> {"verifyRoot", "ready"}
    [] At("answer")   -> {"text", "null"}
    [] At("ack")      -> {"ack"}
    [] At("choosing") -> {"interact", "refresh", "register", "direct", "ready", "greet"}
    [] OTHER          -> Commands \cup {"text", "null", "ack"}

\* What the greeter can: in handleFailVerify() by its comments on what cannot happen.
Prompts == {"getUser", "getMore", "getNow"}
GreeterExpects ==
  CASE gpc = "command"                   -> {"greet", "greetTimed", "errorGreet", "choose",
                                             "confShutdown"}
    [] gpc = "chooserAck"                -> {"async"}
    [] gpc = "chooser"                   -> {"addHost", "changeHost", "removeHost", "badHost",
                                             "exit"}
    [] gpc = "fail"                      -> {"msg", "ok", "auth", "fail", "chtokAuth"}
    [] gpc = "final"                     -> {"msg", "ok", "auth", "fail"}
    [] gpc \in {"status", "onlyStatus"}  -> {"status"}
    [] gpc = "value"                     -> {"value"}
    [] gpc = "dialog" /\ over.ctx = "renew" ->
         Prompts \cup {"msg", "preOk", "ok", "auth", "fail"}
    [] gpc = "dialog" /\ over.ctx = "shutdown" ->
         Prompts \cup {"msg", "putUser", "ok", "auth", "fail"}
    [] gpc = "dialog" /\ over = NoTalker ->
         Prompts \cup {"msg", "putUser", "ok", "auth", "fail", "chtok", "chtokAuth"}
    [] OTHER -> {}

\* What a process reads is what the other one meant: no answer, acknowledgement, or
\* command is ever taken for one of the others.
Understood ==
  /\ up # <<>> /\ ~At("ended") => Head(up) \in CoreExpects
  /\ down # <<>> /\ gpc \notin {"none", "boot", "gone"} => Head(down) \in GreeterExpects

\* So it is as long as the code's own assumptions hold.
Kept   == broken = {}
InStep == Kept => Understood

\* When neither has anything to read, the greeter can do what core waits for: it has
\* a prompt open, or may give the next command.  Neither waits for the other, and
\* core does not wait for a greeter that is not there.
Blocked == up = <<>> /\ down = <<>> /\ gpc # "gone"
Moves ==
  Blocked =>
    /\ At("answer") => gpc = "dialog" /\ Top.reads /\ Top.asked # "no" /\ Top.state = "prompting"
    /\ At("wait") => gpc = "dialog" /\ Top.state = "idle" /\ over.ctx # "renew"
    /\ At("confirm") => gpc = "dialog" /\ Top.state = "idle" /\ over.ctx = "shutdown"
    /\ At("choosing") => gpc = "chooser"
    /\ ~At("ack") /\ ~At("prepare")
    /\ At("closing") => FALSE
NoStandstill == Kept => Moves

\* A session is started for a user that the last verify() has let in, whatever was
\* tried, given up, failed and tried again before: never on the strength of root's
\* password for a shutdown.
VerifiedStarts == Kept /\ At("client") => core.verified = "user"

\* A login that is under way is answered, with a prompt, a result, or a failure, and
\* after a failure the user may try again.
FailureArrives == down # <<>> /\ Head(down) = "fail"
LoginsAreAnswered ==
  /\ gpc = "dialog" /\ Top.state = "busy" ~>
       gpc # "dialog" \/ Top.state # "busy" \/ FailureArrives \/ ~Kept
  /\ gpc = "dialog" /\ Top.failed ~> gpc # "dialog" \/ ~Top.failed \/ ~Kept

\* Once the user is let in, the greeter goes and the session begins (or fails for
\* reasons of its own), even if it has to show messages first.
GreeterMakesWay == At("client") ~> At("session") \/ At("ended") \/ ~Kept

=============================================================================
