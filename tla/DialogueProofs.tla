--------------------------- MODULE DialogueProofs ---------------------------
(***************************************************************************)
(* core and the greeter stay in step.  The invariant says of each of the   *)
(* two what it will be in when it has read all that is in the pipe to it,  *)
(* and that these fit each other.  What is in the pipe to the greeter can  *)
(* be long (while a password is renewed core goes on without waiting for   *)
(* it), so it is described by a run of the greeter through its modes, one  *)
(* for each word; what is in the pipe to core is listed.                   *)
(*                                                                         *)
(* This module has the invariant, types, and the steps of core;            *)
(* GreeterProofs has those of the greeter and its users.                   *)
(***************************************************************************)
EXTENDS Chooser, SequenceTheorems, FiniteSetTheorems, TLAPS

\* The code's own assumptions hold for a step, see the end of Dialogue.
Orderly == ~InputBreach /\ ~BusyBreach /\ ~SuspendedBreach /\ ~TwiceBreach /\ ~ContBreach

-----------------------------------------------------------------------------
(* Modes of the greeter: where it is, and whose turn it is to speak.         *)

Places == {"none", "boot", "command", "fail", "status", "onlyStatus", "value", "final", "gone",
           "chooserAck", "chooser", "login", "auto", "shutdown", "renew", "renewAuto", "statusBusy"}
Turns == {"core", "idle", "prompt", "getNow", "msg", "ok", "auth", "fail", "greet", "greetTimed",
          "status", "value", "choose", "confShutdown"}
Modes == [in : Places, turn : Turns]

Quiet == {"putUser", "chtok", "chtokAuth", "preOk", "errorGreet"}

\* What core may say, in the configuration c, to a greeter that is in a place and waits
\* for it.
Hears(c, place) ==
  CASE place = "login"     -> {"getUser", "getMore", "msg", "putUser", "chtok", "chtokAuth",
                               "ok", "auth", "fail"}
                              \cup IF c.plugin = "classic" THEN {"getNow"} ELSE {}
    [] place = "auto"      -> {"msg", "chtokAuth", "ok", "auth", "fail"}
    [] place = "shutdown"  -> {"getUser", "getMore", "msg", "putUser", "ok", "auth", "fail"}
                              \cup IF c.plugin = "classic" THEN {"getNow"} ELSE {}
    [] place = "renew"     -> {"getMore", "msg", "preOk", "ok", "fail"}
                              \cup IF c.plugin = "classic" THEN {"auth"} ELSE {}
    [] place = "renewAuto" -> {"getMore", "msg", "preOk", "ok", "auth", "fail"}
    [] place = "fail"      -> {"msg", "ok", "auth", "fail", "chtokAuth"}
    [] place = "final"     -> {"msg", "ok"}
    [] place = "command"   -> {"greet", "errorGreet", "choose", "confShutdown"}
                              \cup IF c.timed THEN {"greetTimed"} ELSE {}
    [] place \in {"status", "onlyStatus", "statusBusy"} -> {"status"}
    [] place = "value"     -> {"value"}
    [] OTHER               -> {}

\* Where it is after that, and whose turn it is then.
Goes(place, w) ==
  CASE w = "chtok" \/ (w = "chtokAuth" /\ place \in {"login", "auto"}) -> "renew"
    [] w = "chtokAuth" /\ place = "fail"                               -> "renewAuto"
    [] w = "errorGreet"                                                -> "fail"
    [] place = "statusBusy"                                            -> "login"
    [] OTHER                                                           -> place

Turn(place, w) ==
  CASE w \in Quiet \/ place = "statusBusy"                           -> "core"
    [] w \in {"auth", "fail"} /\ place \in {"renew", "renewAuto"}    -> "core"
    [] w \in {"getUser", "getMore"}                                  -> "prompt"
    [] OTHER                                                         -> w

Then(m, w) == [in |-> Goes(m.in, w), turn |-> Turn(m.in, w)]

\* Where it may be later, if it has only to read.
From(place) ==
  CASE place = "command"    -> {"command", "fail", "renewAuto"}
    [] place = "fail"       -> {"fail", "renewAuto"}
    [] place = "login"      -> {"login", "renew"}
    [] place = "auto"       -> {"auto", "renew"}
    [] place = "statusBusy" -> {"statusBusy", "login", "renew"}
    [] OTHER                -> {place}

\* A greeter in mode m that reads s comes to be in mode n.
IsRun(c, f, m, s, n) ==
  /\ f[0] = m /\ f[Len(s)] = n
  /\ \A i \in 1..Len(s) : /\ f[i - 1].turn = "core"
                          /\ s[i] \in Hears(c, f[i - 1].in)
                          /\ f[i] = Then(f[i - 1], s[i])
  /\ \A i \in 0..Len(s) : f[Len(s)].in \in From(f[i].in)
Run(c, m, s, n) == \E f \in [0..Len(s) -> Modes] : IsRun(c, f, m, s, n)

\* The mode the greeter is in; "auto" is the login dialog during an automatic login.
AutoLogsIn == login.state = "busy" /\ ~login.running
Place == IF gpc = "dialog"
         THEN IF over.ctx = "login" THEN IF AutoLogsIn THEN "auto" ELSE "login"
              ELSE IF over.ctx = "shutdown" THEN "shutdown"
              ELSE IF login = NoTalker THEN "renewAuto" ELSE "renew"
         ELSE IF gpc = "onlyStatus" /\ login.state = "busy" THEN "statusBusy" ELSE gpc
Mode == [in   |-> Place,
         turn |-> IF gpc = "dialog" /\ Top.state = "prompting" THEN "prompt"
                  ELSE IF gpc = "dialog" /\ Top.state = "idle" /\ over.ctx # "renew" THEN "idle"
                  ELSE "core"]

-----------------------------------------------------------------------------
(* The invariant *)

\* What the talkers are like.
TalkerOK(t) ==
  /\ t.state = "none" => t = NoTalker
  /\ t.state \in {"none", "idle"} => t.asked = "no"
  /\ t.state = "prompting" => t.asked # "no" /\ t.reads /\ t.running
  /\ t.failed => ~t.running
  /\ t.counting => Timed /\ t.state = "idle" /\ ~t.running
TalkersOK ==
  /\ TalkerOK(login) /\ TalkerOK(over)
  /\ login.ctx = "login" /\ login.plugin = Plugin
  /\ over.ctx = "login" => over = NoTalker
  /\ over.plugin = (IF over.ctx = "renew" /\ login = NoTalker THEN "classic" ELSE Plugin)
  /\ over.state # "none" => login.state \in {"none", "idle"} /\ over.ctx # "login"
  /\ ~over.counting
  /\ over.reads \/ over.state = "busy" => over.running
  /\ over.ctx = "renew" /\ over.plugin = "generic" => over.state # "idle"
  /\ gpc = "dialog" => over # NoTalker \/ login # NoTalker
  /\ gpc \in {"status", "onlyStatus", "value", "final", "fail"} => over = NoTalker
  /\ gpc \in {"status", "value"} => login.state = "idle"
  /\ gpc = "onlyStatus" => login.state = "idle" \/ (login.state = "busy" /\ login.running)
  /\ gpc = "fail" => login = NoTalker

\* core starts the session, or tells the user something as it does.
Starting == \/ At("client")
            \/ At("ack") /\ core.then = "client"
            \/ core.pc \in {"tell", "openingForError"} /\ core.say = "msg" /\ core.then = "client"

\* core is in verify().
Verifying == core.pc \in {"answer", "pam", "account", "tell", "ack", "openingForError"} /\ ~Starting

CoreOK ==
  /\ ~Verifying /\ ~At("ended") => core.phase = "login" /\ core.conv = "greeter" /\ ~core.nopass
                              /\ ~core.root
  /\ Verifying =>
       /\ core.root => core.conv = "greeter" /\ core.phase = "login" /\ core.caller # "session"
       /\ core.caller = "confirm" => core.root
       /\ core.caller = "session" => core.conv = "auto"
       /\ core.conv = "auto" => core.pass /\ (core.caller = "session" \/ Plugin = "classic")
       /\ core.nopass => Plugin = "classic"
       /\ core.phase = "renew" => core.conv = "auto" \/ core.nopass
  /\ At("account") => core.phase = "login"
  /\ At("answer") /\ core.ask \in {"user", "noDelay"} =>
       Plugin = "classic" /\ core.conv = "greeter" /\ core.phase = "login"
  /\ (At("tell") \/ At("openingForError")) /\ core.say = "auth" => core.phase # "change"
  /\ ((At("tell") \/ At("openingForError")) /\ core.say = "msg") \/ At("ack") =>
       /\ core.then \in {"pam", "account", "fail", "client"}
       /\ core.then = "account" => core.phase = "login"
       /\ core.then = "fail" => core.phase # "change"
  /\ Starting => core.verified = "user"
  /\ At("openingForError") /\ ~Starting => core.caller = "session" /\ core.phase = "login"

\* The place of a greeter with which core may be in verify(), or starting the session.
Company(place) ==
  IF Starting THEN place \in {"none", "fail", "final", "renewAuto"}
  ELSE \/ place = "login" /\ core.caller = "wait" /\ ~core.root /\ core.phase = "login"
          /\ login # NoTalker
       \/ place = "auto" /\ core.caller = "wait" /\ ~core.root /\ core.phase = "login"
          /\ login # NoTalker /\ core.conv = "auto"
       \/ place = "shutdown" /\ core.root /\ (core.caller = "confirm" <=> login = NoTalker)
       \/ place = "renew" /\ core.caller = "wait" /\ ~core.root /\ core.phase # "login"
       \/ place = "renewAuto" /\ core.caller = "session" /\ core.phase # "login"
       \/ place \in {"none", "fail"} /\ core.caller = "session" /\ core.phase = "login"

\* What core is in fits the mode e, which the greeter will be in.
Fits(e) ==
  \/ core.pc \in {"pam", "account", "tell", "client"} /\ e.turn = "core" /\ Company(e.in)
  \/ At("ack") /\ e.turn = "msg" /\ Company(e.in)
  \/ /\ At("answer") /\ Company(e.in)
     /\ e.turn = IF core.ask = "noDelay" THEN "getNow" ELSE "prompt"
  \/ /\ At("wait")
     /\ \/ e.in \in {"login", "shutdown"} /\ login # NoTalker /\ e.turn \in {"idle", "auth", "fail"}
        \/ e.in = "auto" /\ login # NoTalker /\ e.turn \in {"auth", "fail"}
        \/ e.in = "fail" /\ e.turn \in {"auth", "fail"}
        \/ e.in \in {"login", "auto", "renew"} /\ e.turn = "ok" /\ core.verified = "user"
        \/ e.in = "shutdown" /\ login # NoTalker /\ e.turn = "ok"
        \/ e.in = "command" /\ e.turn \in {"greet", "greetTimed"}
        \/ e.in \in {"status", "onlyStatus"} /\ e.turn = "status"
        \/ e.in = "value" /\ e.turn = "value"
  \/ /\ At("confirm")
     /\ \/ e.in = "shutdown" /\ login = NoTalker /\ e.turn \in {"idle", "ok", "auth", "fail"}
        \/ e.in = "command" /\ e.turn = "confShutdown"
  \/ At("closing") /\ e.in \in {"fail", "final", "renewAuto"} /\ e.turn = "ok"
  \/ At("prepare") /\ e.in = "command" /\ e.turn = "choose"
  \/ core.pc \in {"opening", "openingForError", "openingForShutdown"} /\ e.in = "boot"
  \/ core.pc \in {"start", "open", "session"} /\ e.in = "none" /\ e.turn = "core"

\* What core comes to when the greeter gives up the prompt it waits at.
CoreCaller == IF ~At("answer") THEN core.pc ELSE IF core.caller = "confirm" THEN "confirm" ELSE "wait"

\* The greeter has sent the commands c.
Commanded(c) ==
  \/ /\ c = <<>> /\ Mode.turn = "idle"
     /\ \/ CoreCaller = "wait" /\ login # NoTalker
        \/ CoreCaller = "confirm" /\ login = NoTalker
  \/ c = <<"verifyRoot">> /\ Mode = [in |-> "shutdown", turn |-> "core"]
     /\ \/ CoreCaller = "wait" /\ login # NoTalker
        \/ CoreCaller = "confirm" /\ login = NoTalker
  \/ c = <<"verify">> /\ Mode = [in |-> "login", turn |-> "core"] /\ CoreCaller = "wait"
  \/ c = <<"autoLogin">> /\ Mode.in \in {"auto", "login"} /\ Mode.turn = "core"
     /\ CoreCaller = "wait" /\ Plugin = "classic"
  \/ c = <<"readDmrc">> /\ Place \in {"status", "onlyStatus"} /\ CoreCaller = "wait"
  \/ c = <<"readDmrc", "verify">> /\ Place = "statusBusy" /\ CoreCaller = "wait"
  \/ c = <<"getDmrc">> /\ gpc = "value" /\ CoreCaller = "wait"
  \/ c = <<"chooseHost">> /\ gpc = "command" /\ CoreCaller = "wait"
  \/ c \in {<<"ready">>, <<"putDmrc", "ready">>} /\ gpc = "final" /\ core.verified = "user" /\ At("wait")
  \/ c = <<"ready">> /\ gpc = "gone" /\ CoreCaller = "confirm"

Commandings == {<<>>, <<"verifyRoot">>, <<"verify">>, <<"autoLogin">>, <<"readDmrc">>,
                <<"readDmrc", "verify">>, <<"getDmrc">>, <<"chooseHost">>, <<"ready">>,
                <<"putDmrc", "ready">>}

\* What core says in the dialogue.
Words == {"getUser", "getMore", "getNow", "msg", "putUser", "chtok", "chtokAuth", "preOk", "ok",
          "auth", "fail", "greet", "greetTimed", "errorGreet", "choose", "confShutdown", "status",
          "value"}

\* It is the turn of core, or of the greeter when it has read what core has said.
Downward == /\ up = <<>> /\ down \in Seq(Words)
            /\ \E e \in Modes : Run(conf, Mode, down, e) /\ Fits(e)

\* What the greeter has sent is on its way.
Upward ==
  /\ down = <<>>
  /\ \/ \E c \in Commandings :
          /\ Commanded(c)
          /\ \/ core.pc \in {"wait", "confirm"} /\ up = c /\ c # <<>>
             \/ At("wait") /\ up = <<"interact">> \o c
             \/ At("answer") /\ core.ask # "noDelay" /\ up = <<"null">> \o c
     \/ At("answer") /\ up = <<"text">> /\ gpc = "dialog" /\ Mode.turn = "core" /\ Company(Place)
     \/ At("ack") /\ up = <<"ack">> /\ gpc # "none" /\ Mode.turn = "core" /\ Company(Place)
     \/ core.pc \in {"opening", "openingForError", "openingForShutdown"} /\ up = <<"ready">>
        /\ gpc = "command"
     \/ At("prepare") /\ up = <<"ready">> /\ gpc = "chooserAck"

\* The only time both pipes hold something.
Crossing == At("wait") /\ up = <<"verify">> /\ down = <<"status">> /\ Place = "statusBusy"

\* The greeter has gone.
Gone == /\ gpc \in {"gone", "none"} /\ up = <<>> /\ down = <<>>
        /\ \/ At("ended")
           \/ gpc = "gone" /\ core.pc \in {"wait", "confirm", "answer", "closing"}

-----------------------------------------------------------------------------
(* Runs of the greeter *)

LEMMA RunEmpty ==
  ASSUME NEW c, NEW m \in Modes
  PROVE  /\ Run(c, m, <<>>, m)
         /\ \A n : Run(c, m, <<>>, n) => n = m
<1>1. [i \in 0..0 |-> m] \in [0..Len(<<>>) -> Modes] /\ Len(<<>>) = 0
  OBVIOUS
<1>2. IsRun(c, [i \in 0..0 |-> m], m, <<>>, m)
  BY <1>1 DEF IsRun, From
<1> QED
  BY <1>1, <1>2 DEF Run, IsRun

LEMMA RunStop ==
  ASSUME NEW c, NEW m \in Modes, NEW s \in Seq(Words), NEW n, Run(c, m, s, n), m.turn # "core"
  PROVE  s = <<>> /\ n = m
<1>1. PICK f \in [0..Len(s) -> Modes] : IsRun(c, f, m, s, n)
  BY DEF Run
<1>2. Len(s) = 0
  BY <1>1 DEF IsRun
<1> QED
  BY <1>1, <1>2 DEF IsRun

LEMMA RunRead ==
  ASSUME NEW c, NEW m \in Modes, NEW s \in Seq(Words), NEW n, Run(c, m, s, n), s # <<>>
  PROVE  /\ m.turn = "core" /\ Head(s) \in Hears(c, m.in)
         /\ Then(m, Head(s)) \in Modes
         /\ Tail(s) \in Seq(Words)
         /\ Run(c, Then(m, Head(s)), Tail(s), n)
<1>1. PICK f \in [0..Len(s) -> Modes] : IsRun(c, f, m, s, n)
  BY DEF Run
<1>2. Len(s) \in Nat /\ Len(s) >= 1 /\ Head(s) = s[1] /\ Tail(s) \in Seq(Words)
      /\ Len(Tail(s)) = Len(s) - 1 /\ \A i \in 1..(Len(s) - 1) : Tail(s)[i] = s[i + 1]
  OBVIOUS
<1>3. /\ f[0] = m /\ f[0].turn = "core" /\ s[1] \in Hears(c, f[0].in) /\ f[1] = Then(m, s[1])
      /\ f[1] \in Modes
  BY <1>1, <1>2 DEF IsRun
<1> DEFINE g == [i \in 0..(Len(s) - 1) |-> f[i + 1]]
<1>4. g \in [0..Len(Tail(s)) -> Modes]
  BY <1>2
<1>5. /\ g[0] = f[1] /\ g[Len(Tail(s))] = n
      /\ \A i \in 0..Len(Tail(s)) : g[Len(Tail(s))].in \in From(g[i].in)
  BY <1>1, <1>2 DEF IsRun
<1>6. ASSUME NEW i \in 1..Len(Tail(s))
      PROVE  /\ g[i - 1].turn = "core"
             /\ Tail(s)[i] \in Hears(c, g[i - 1].in)
             /\ g[i] = Then(g[i - 1], Tail(s)[i])
  <2>1. i + 1 \in 1..Len(s) /\ g[i - 1] = f[i] /\ g[i] = f[i + 1] /\ Tail(s)[i] = s[i + 1]
    BY <1>2
  <2>2. /\ f[(i + 1) - 1].turn = "core" /\ s[i + 1] \in Hears(c, f[(i + 1) - 1].in)
        /\ f[i + 1] = Then(f[(i + 1) - 1], s[i + 1])
    BY <2>1, <1>1 DEF IsRun
  <2>3. (i + 1) - 1 = i
    OBVIOUS
  <2> QED
    BY <2>1, <2>2, <2>3
<1>7. IsRun(c, g, f[1], Tail(s), n)
  BY <1>5, <1>6 DEF IsRun
<1> QED
  BY <1>2, <1>3, <1>4, <1>7 DEF Run

LEMMA RunReaches ==
  ASSUME NEW c, NEW m \in Modes, NEW s \in Seq(Words), NEW n, Run(c, m, s, n)
  PROVE  n.in \in From(m.in)
BY DEF Run, IsRun

LEMMA ThenInModes ==
  ASSUME NEW c, NEW m \in Modes, NEW w \in Hears(c, m.in)
  PROVE  Then(m, w) \in Modes /\ Then(m, w).in \in From(m.in)
<1>1. Then(m, w) \in Modes
  BY DEF Modes, Places, Turns, Then, Goes, Turn, Hears, Quiet
<1>2. Goes(m.in, w) \in From(m.in)
  BY DEF Modes, Places, Goes, Hears, From
<1> QED
  BY <1>1, <1>2 DEF Then

LEMMA FromFrom ==
  ASSUME NEW x, NEW y \in From(x), NEW z \in From(y)
  PROVE  z \in From(x)
BY DEF From

LEMMA RunAppend ==
  ASSUME NEW c, NEW m \in Modes, NEW s \in Seq(Words), NEW n, Run(c, m, s, n),
         n.turn = "core", NEW w \in Hears(c, n.in)
  PROVE  Run(c, m, Append(s, w), Then(n, w))
<1>1. PICK f \in [0..Len(s) -> Modes] : IsRun(c, f, m, s, n)
  BY DEF Run
<1>2. Len(s) \in Nat
  OBVIOUS
<1>3. /\ Len(Append(s, w)) = Len(s) + 1 /\ Append(s, w)[Len(s) + 1] = w
      /\ \A i \in 1..Len(s) : Append(s, w)[i] = s[i]
  OBVIOUS
<1>4. f[0] = m /\ f[Len(s)] = n /\ n \in Modes
  BY <1>1, <1>2 DEF IsRun
<1>5. Then(n, w) \in Modes /\ Then(n, w).in \in From(n.in)
  BY <1>4, ThenInModes
<1> DEFINE g == [i \in 0..(Len(s) + 1) |-> IF i = Len(s) + 1 THEN Then(n, w) ELSE f[i]]
<1>6. g \in [0..Len(Append(s, w)) -> Modes]
  BY <1>2, <1>3, <1>5
<1>7. g[0] = m /\ g[Len(Append(s, w))] = Then(n, w)
  BY <1>2, <1>3, <1>4
<1>8. ASSUME NEW i \in 1..Len(Append(s, w))
      PROVE  /\ g[i - 1].turn = "core"
             /\ Append(s, w)[i] \in Hears(c, g[i - 1].in)
             /\ g[i] = Then(g[i - 1], Append(s, w)[i])
  <2>1. CASE i = Len(s) + 1
    <3>1. g[i - 1] = n /\ g[i] = Then(n, w) /\ Append(s, w)[i] = w
      BY <2>1, <1>2, <1>3, <1>4
    <3> QED
      BY <3>1
  <2>2. CASE i # Len(s) + 1
    <3>1. i \in 1..Len(s) /\ g[i - 1] = f[i - 1] /\ g[i] = f[i] /\ Append(s, w)[i] = s[i]
      BY <2>2, <1>2, <1>3
    <3> QED
      BY <3>1, <1>1 DEF IsRun
  <2> QED
    BY <2>1, <2>2
<1>9. ASSUME NEW i \in 0..Len(Append(s, w))
      PROVE  g[Len(Append(s, w))].in \in From(g[i].in)
  <2>1. CASE i = Len(s) + 1
    BY <2>1, <1>3, <1>7 DEF From
  <2>2. CASE i # Len(s) + 1
    <3>1. i \in 0..Len(s) /\ g[i] = f[i] /\ n.in \in From(f[i].in)
      BY <2>2, <1>1, <1>2, <1>3, <1>4 DEF IsRun
    <3> QED
      BY <3>1, <1>5, <1>7, FromFrom
  <2> QED
    BY <2>1, <2>2
<1>10. IsRun(c, g, m, Append(s, w), Then(n, w))
  BY <1>7, <1>8, <1>9 DEF IsRun
<1> QED
  BY <1>6, <1>10 DEF Run

-----------------------------------------------------------------------------
(* Types *)

CorePcs   == {"start", "open", "opening", "openingForError", "openingForShutdown", "wait",
              "confirm", "answer", "pam", "tell", "ack", "account", "client",
              "closing", "session", "ended", "prepare", "choosing"}
CoreAsks  == {"user", "noDelay", "pass", "other"}
CoreSays  == {"msg", "auth"}
CoreThens == {"pam", "account", "fail", "client", "wait"}
CoreConvs == {"auto", "greeter"}
Callers   == {"session", "wait", "confirm"}
Phases    == {"login", "renew", "change"}
Verdicts  == {"no", "root", "user"}
CoresWith(hosts, responded, chosen) ==
  [pc : CorePcs, ask : CoreAsks, say : CoreSays, then : CoreThens, conv : CoreConvs,
   caller : Callers, root : BOOLEAN, phase : Phases, pass : BOOLEAN, nopass : BOOLEAN,
   verified : Verdicts, pingTry : 0..3, hosts : {hosts}, responded : {responded},
   chosen : {chosen}]
Cores == CoresWith(core.hosts, core.responded, core.chosen)
Gpcs == {"none", "boot", "command", "fail", "dialog", "status", "onlyStatus",
         "value", "final", "gone", "chooserAck", "chooser"}

CoreTyped    == core \in Cores
GreeterTyped == /\ gpc \in Gpcs /\ login \in Talkers /\ over \in Talkers
                /\ armed \in BOOLEAN /\ needLoad \in BOOLEAN

HistoryTyped == broken \subseteq {"input", "busy", "suspended", "twice", "cont", "leave", "dropped"}

\* DTypeOK in three parts.
LEMMA TypeParts == DTypeOK <=> CoreTyped /\ GreeterTyped /\ HistoryTyped
BY DEF HistoryTyped, DTypeOK, CoreTyped, GreeterTyped, Cores, CoresWith, CorePcs, CoreAsks, CoreSays,
       CoreThens, CoreConvs, Callers, Phases, Verdicts, Gpcs

\* The values that are assigned to the fields of core.
LEMMA CoreValues ==
  /\ \A pc \in {"start", "open", "opening", "openingForError", "openingForShutdown", "wait",
                "confirm", "answer", "pam", "tell", "ack", "account", "client",
                "closing", "session", "ended", "prepare", "choosing"} : pc \in CorePcs
  /\ \A a \in {"user", "noDelay", "pass", "other"} : a \in CoreAsks
  /\ "msg" \in CoreSays /\ "auth" \in CoreSays
  /\ \A t \in {"pam", "account", "fail", "client", "wait"} : t \in CoreThens
  /\ "auto" \in CoreConvs /\ "greeter" \in CoreConvs
  /\ \A c \in {"session", "wait", "confirm"} : c \in Callers /\ c \in CorePcs
  /\ \A p \in {"login", "renew", "change"} : p \in Phases
  /\ \A v \in {"no", "root", "user"} : v \in Verdicts
BY DEF CorePcs, CoreAsks, CoreSays, CoreThens, CoreConvs, Callers, Phases, Verdicts

\* A value for core keeps its type.
LEMMA CoreNext == ASSUME core' \in Cores PROVE CoreTyped'
BY DEF CoreTyped, Cores, CoresWith

\* The hosts are none of its business before the chooser is shown.
LEMMA HostsStay ==
  ASSUME core' \in Cores
  PROVE  core'.hosts = core.hosts /\ core'.chosen = core.chosen
BY DEF Cores, CoresWith

LEMMA CoreFrame == ASSUME CoreTyped, UNCHANGED core PROVE CoreTyped'
BY DEF CoreTyped, Cores, CoresWith

LEMMA GreeterFrame == ASSUME GreeterTyped, UNCHANGED greeterVars PROVE GreeterTyped'
BY DEF GreeterTyped, greeterVars

LEMMA ForgottenTyped == ASSUME CoreTyped PROVE Forgotten \in Cores
BY CoreValues DEF CoreTyped, Cores, CoresWith, Forgotten

LEMMA ReturnsTyped ==
  ASSUME CoreTyped, NEW ok \in BOOLEAN, NEW out, Returns(out, ok)
  PROVE  core' \in Cores
<1>1. Verified(ok) \in Verdicts
  BY CoreValues DEF Verified
<1>2. PICK v \in Verdicts, p \in CorePcs : core' = [Forgotten EXCEPT !.verified = v, !.pc = p]
  <2>1. core.caller \in Callers
    BY DEF CoreTyped, Cores, CoresWith
  <2>2. (IF core.caller # "session" THEN core.caller ELSE IF ok THEN "client" ELSE "wait") \in CorePcs
    BY <2>1 DEF Callers, CorePcs
  <2> QED
    BY <1>1, <2>2 DEF Returns
<1> QED
  BY <1>2, ForgottenTyped DEF Cores, CoresWith

LEMMA FailsTyped ==
  ASSUME CoreTyped, NEW out, Fails(out)
  PROVE  core' \in Cores
<1>1. CASE core.phase = "login"
  BY <1>1, ReturnsTyped, Zenon DEF Fails
<1>2. CASE core.phase # "login"
  <2> QED
    BY <1>2, CoreValues DEF Fails, CoreTyped, Cores, CoresWith
<1> QED
  BY <1>1, <1>2

\* core is typed after each of its actions, and has the hosts it had.
LEMMA CoreStepsTyped ==
  ASSUME CoreTyped, DialogueAssumption,
         \/ CoreStart \/ OpenGreeter \/ GreeterOpened \/ GreeterCommand \/ GreeterClosed
         \/ GreeterLost \/ Tell \/ Acknowledged \/ Answered \/ PamAsks \/ Pam \/ Account
         \/ Client \/ SessionEnds \/ PamMessage \/ AccountMessage \/ ClientMessage
  PROVE  core' \in Cores
<1>1. ASSUME CoreStart PROVE core' \in Cores
  <2> QED
    BY <1>1, CoreValues, ZenonT(60) DEF CoreStart, CoreTyped, Cores, CoresWith
<1>2. ASSUME OpenGreeter \/ GreeterClosed \/ SessionEnds PROVE core' \in Cores
  <2>1. PICK pc \in CorePcs : core' = [core EXCEPT !.pc = pc]
    BY <1>2, CoreValues DEF OpenGreeter, GreeterClosed, SessionEnds, Begins
  <2> QED
    BY <2>1 DEF CoreTyped, Cores, CoresWith
<1>3. ASSUME GreeterOpened \/ GreeterLost PROVE core' \in Cores
  <2>1. PICK pc \in CorePcs : core' = [core EXCEPT !.pc = pc]
    BY <1>3, CoreValues DEF GreeterOpened, Greet, LetChoose, GreeterLost
  <2> QED
    BY <2>1 DEF CoreTyped, Cores, CoresWith
<1>4. ASSUME GreeterCommand PROVE core' \in Cores
  <2> DEFINE cmd == Head(up)
             verify == [core EXCEPT !.verified = "no", !.caller = core.pc,
                                    !.root = (cmd = "verifyRoot")]
  <2>1. core.pc \in {"wait", "confirm"}
    BY <1>4 DEF GreeterCommand, At
  <2>2. PICK root \in BOOLEAN : root = (cmd = "verifyRoot")
    BY Zenon
  <2>3. verify \in Cores
    BY <2>1, <2>2, CoreValues DEF CoreTyped, Cores, CoresWith
  <2> HIDE DEF cmd, verify
  <2>4. \/ UNCHANGED core
        \/ core' = [core EXCEPT !.pc = "client"] \/ core' = [core EXCEPT !.pc = "ended"]
        \/ core' = [core EXCEPT !.pc = "prepare"]
        \/ core' = [verify EXCEPT !.pc = "answer", !.ask = "user"]
        \/ core' = [verify EXCEPT !.pc = "pam"]
        \/ core' = [verify EXCEPT !.pc = "pam", !.conv = "auto", !.pass = TRUE]
    BY <1>4 DEF GreeterCommand, LetChoose, cmd, verify
  <2>5. CASE core' \in {core, [core EXCEPT !.pc = "client"], [core EXCEPT !.pc = "ended"],
                        [core EXCEPT !.pc = "prepare"]}
    <3> QED
      BY <2>5, CoreValues DEF CoreTyped, Cores, CoresWith
  <2>6. CASE \/ core' = [verify EXCEPT !.pc = "answer", !.ask = "user"]
             \/ core' = [verify EXCEPT !.pc = "pam"]
             \/ core' = [verify EXCEPT !.pc = "pam", !.conv = "auto", !.pass = TRUE]
    <3> QED
      BY <2>6, <2>3, CoreValues, ZenonT(60) DEF Cores, CoresWith
  <2> QED
    BY <2>4, <2>5, <2>6
<1>5. ASSUME Tell PROVE core' \in Cores
  <2>1. CASE core.say = "msg"
    <3> QED
      BY <1>5, <2>1, CoreValues DEF Tell, CoreTyped, Cores, CoresWith
  <2>2. CASE core.say # "msg"
    BY <1>5, <2>2, FailsTyped, Zenon DEF Tell
  <2> QED
    BY <2>1, <2>2
<1>6. ASSUME Acknowledged PROVE core' \in Cores
  <2>1. CASE core.then = "fail"
    BY <1>6, <2>1, FailsTyped, Zenon DEF Acknowledged
  <2>2. CASE core.then # "fail"
    <3>1. core.then \in CorePcs
      BY <2>2 DEF CoreTyped, Cores, CoresWith, CoreThens, CorePcs
    <3> QED
      BY <1>6, <2>2, <3>1 DEF Acknowledged, CoreTyped, Cores, CoresWith
  <2> QED
    BY <2>1, <2>2
<1>7. ASSUME Answered PROVE core' \in Cores
  <2>1. CASE Returns(<<>>, FALSE)
    BY <2>1, ReturnsTyped, Zenon
  <2>2. CASE core' = [core EXCEPT !.pc = "pam"] \/ Asks("noDelay", "getNow")
    <3> QED
      BY <2>2, CoreValues, ZenonT(60) DEF Asks, CoreTyped, Cores, CoresWith
  <2>3. ASSUME NEW pass \in BOOLEAN, NEW nopass \in BOOLEAN,
               core' = [core EXCEPT !.pc = "pam", !.pass = pass, !.nopass = nopass]
        PROVE  core' \in Cores
    <3> QED
      BY <2>3, CoreValues DEF CoreTyped, Cores, CoresWith
  <2>4. ASSUME NEW pass \in BOOLEAN, core' = [core EXCEPT !.pc = "pam", !.pass = pass]
        PROVE  core' \in Cores
    <3> QED
      BY <2>4, CoreValues DEF CoreTyped, Cores, CoresWith
  <2>5. PICK null \in BOOLEAN : null = (Head(up) = "null")
    BY Zenon
  <2>6. core.pass \in BOOLEAN /\ core.ask \in CoreAsks
    BY DEF CoreTyped, Cores, CoresWith
  <2>7. \/ Returns(<<>>, FALSE)
        \/ core' = [core EXCEPT !.pc = "pam"]
        \/ Asks("noDelay", "getNow")
        \/ \E np \in {TRUE, null} : core' = [core EXCEPT !.pc = "pam", !.pass = ~null, !.nopass = np]
        \/ core' = [core EXCEPT !.pc = "pam", !.pass = (core.pass \/ core.ask = "pass")]
    BY <1>7, <2>5, <2>6 DEF Answered, CoreAsks
  <2>8. CASE \E np \in {TRUE, null} :
               core' = [core EXCEPT !.pc = "pam", !.pass = ~null, !.nopass = np]
    <3>1. PICK np \in BOOLEAN : core' = [core EXCEPT !.pc = "pam", !.pass = ~null, !.nopass = np]
      BY <2>8, <2>5, Zenon
    <3>2. PICK pass \in BOOLEAN : pass = ~null
      OBVIOUS
    <3> QED
      BY <2>3, <3>1, <3>2, Zenon
  <2>9. CASE core' = [core EXCEPT !.pc = "pam", !.pass = (core.pass \/ core.ask = "pass")]
    <3>1. (core.pass \/ core.ask = "pass") \in BOOLEAN
      BY <2>6, Zenon
    <3> QED
      BY <2>4, <2>9, <3>1, Zenon
  <2> QED
    BY <2>1, <2>2, <2>7, <2>8, <2>9
<1>8. ASSUME PamAsks PROVE core' \in Cores
  <2>1. CASE Returns(<<>>, FALSE)
    BY <2>1, ReturnsTyped, Zenon
  <2>2. CASE ~Returns(<<>>, FALSE)
    <3>1. PICK what \in {"pass", "other"} : core' = [core EXCEPT !.pc = "answer", !.ask = what]
      BY <1>8, <2>2 DEF PamAsks, PamPrompt, Asks
    <3> QED
      BY <3>1, CoreValues DEF CoreTyped, Cores, CoresWith
  <2> QED
    BY <2>1, <2>2
<1>9. ASSUME Pam PROVE core' \in Cores
  <2>1. core.phase \in {"login", "renew", "change"}
    BY DEF CoreTyped, Cores, CoresWith, Phases
  <2>2. \/ Returns(<<>>, TRUE)
        \/ core' \in {core, [core EXCEPT !.pc = "account"], [core EXCEPT !.phase = "change"],
                      [core EXCEPT !.pc = "tell", !.say = "auth"],
                      [core EXCEPT !.pc = "tell", !.say = "msg", !.then = "fail"]}
    BY <1>9, <2>1 DEF Pam, PamSuccess, PamFailure
  <2>3. CASE Returns(<<>>, TRUE)
    BY <2>3, ReturnsTyped, Zenon
  <2>4. CASE core' \in {core, [core EXCEPT !.pc = "account"], [core EXCEPT !.phase = "change"],
                        [core EXCEPT !.pc = "tell", !.say = "auth"],
                        [core EXCEPT !.pc = "tell", !.say = "msg", !.then = "fail"]}
    <3> QED
      BY <2>4, CoreValues, ZenonT(60) DEF CoreTyped, Cores, CoresWith
  <2> QED
    BY <2>2, <2>3, <2>4
<1>10. ASSUME Account PROVE core' \in Cores
  <2>1. CASE Returns(<<>>, TRUE)
    BY <2>1, ReturnsTyped, Zenon
  <2>2. CASE ~Returns(<<>>, TRUE)
    <3>1. \/ \E say \in CoreSays, then \in CoreThens :
               core' = [core EXCEPT !.pc = "tell", !.say = say, !.then = then]
          \/ \E phase \in Phases : core' = [core EXCEPT !.pc = "pam", !.phase = phase]
      BY <1>10, <2>2, CoreValues DEF Account, Tells
    <3> QED
      BY <3>1, CoreValues, ZenonT(60) DEF CoreTyped, Cores, CoresWith
  <2> QED
    BY <2>1, <2>2
<1>11. ASSUME PamMessage \/ AccountMessage \/ ClientMessage PROVE core' \in Cores
  <2>1. PICK then \in CoreThens : core' = [core EXCEPT !.pc = "tell", !.say = "msg", !.then = then]
    BY <1>11, CoreValues DEF PamMessage, AccountMessage, ClientMessage, Tells
  <2> QED
    BY <2>1, CoreValues DEF CoreTyped, Cores, CoresWith
<1>12. ASSUME Client PROVE core' \in Cores
  <2>1. PICK pc \in CorePcs : core' = [core EXCEPT !.pc = pc]
    BY <1>12, CoreValues DEF Client, FinishGreet, Begins
  <2> QED
    BY <2>1 DEF CoreTyped, Cores, CoresWith
<1> QED
  BY <1>1, <1>2, <1>3, <1>4, <1>5, <1>6, <1>7, <1>8, <1>9, <1>10, <1>11, <1>12

-----------------------------------------------------------------------------
(* The talkers *)

TalkerStates == {"none", "idle", "prompting", "busy"}
TalkerAsks   == {"no", "user", "more"}
Plugins      == {"classic", "generic"}
TalkerCtxs   == {"login", "renew", "shutdown"}

LEMMA TalkersAre ==
  /\ Talkers = [state : TalkerStates, running : BOOLEAN, reads : BOOLEAN, failed : BOOLEAN,
                counting : BOOLEAN, asked : TalkerAsks, plugin : Plugins, ctx : TalkerCtxs]
  /\ \A s \in {"none", "idle", "prompting", "busy"} : s \in TalkerStates
  /\ \A a \in {"no", "user", "more"} : a \in TalkerAsks
  /\ \A p \in {"classic", "generic"} : p \in Plugins
  /\ \A c \in {"login", "renew", "shutdown"} : c \in TalkerCtxs
BY DEF Talkers, TalkerStates, TalkerAsks, Plugins, TalkerCtxs

\* Calls give talkers.
LEMMA TalkerTypes ==
  ASSUME NEW t \in Talkers, NEW o
  PROVE  LET r == [t |-> t, out |-> o] IN
         /\ GplugStart(r).t \in Talkers /\ PluginStart(r).t \in Talkers
         /\ Returned(r, "text").t \in Talkers /\ Returned(r, "null").t \in Talkers
         /\ PluginAbort(r).t \in Talkers /\ Suspended(r).t \in Talkers
         /\ Resumed(r).t \in Talkers /\ Retried(r).t \in Talkers
<1> DEFINE Call(u) == [t |-> u, out |-> o]
<1>1. ASSUME NEW u \in Talkers
      PROVE  [u EXCEPT !.state = "busy"] \in Talkers /\ [u EXCEPT !.asked = "no"] \in Talkers
             /\ [u EXCEPT !.reads = FALSE] \in Talkers /\ [u EXCEPT !.reads = TRUE] \in Talkers
  BY TalkersAre
<1>2. ASSUME NEW u \in Talkers PROVE GplugStart(Call(u)).t \in Talkers
  BY <1>1 DEF GplugStart
<1>3. ASSUME NEW u \in Talkers PROVE PluginStart(Call(u)).t \in Talkers
  BY <1>1, <1>2 DEF PluginStart
<1>4. Returned(Call(t), "text").t \in Talkers /\ Returned(Call(t), "null").t \in Talkers
  BY TalkersAre DEF Returned
<1>5. PluginAbort(Call(t)).t \in Talkers
  BY <1>4 DEF PluginAbort
<1>6. Suspended(Call(t)).t \in Talkers
  <2>1. CASE t.running
    <3>1. Suspended(Call(t)).t = [PluginAbort(Call(t)).t EXCEPT !.reads = FALSE]
      BY <2>1 DEF Suspended
    <3> QED
      BY <1>1, <1>5, <3>1
  <2>2. CASE ~t.running
    <3>1. Suspended(Call(t)).t = [t EXCEPT !.reads = FALSE]
      BY <2>2 DEF Suspended
    <3> QED
      BY <1>1, <3>1
  <2> QED
    BY <2>1, <2>2
<1>7. Resumed(Call(t)).t \in Talkers
  BY <1>1, <1>3 DEF Resumed
<1>8. Retried(Call(t)).t \in Talkers
  <2>1. [t EXCEPT !.running = TRUE, !.reads = TRUE, !.failed = FALSE, !.counting = FALSE] \in Talkers
    BY TalkersAre
  <2> QED
    BY <2>1, <1>3 DEF Retried
<1> QED
  BY <1>2, <1>3, <1>4, <1>5, <1>6, <1>7, <1>8

\* The talkers of new dialogs.
LEMMA NewTalkers ==
  ASSUME DialogueAssumption, conf \in Configs
  PROVE  /\ Plugin \in {"classic", "generic"}
         /\ NewTalker \in Talkers /\ NoTalker \in Talkers
         /\ \A plugin \in {"classic", "generic"} : Renewal(plugin) \in Talkers
         /\ \A timed \in BOOLEAN : Started(timed).t \in Talkers
         /\ \A shutdown \in ShutdownDialogs : shutdown.t \in Talkers
<1>1. Plugin \in {"classic", "generic"}
  BY DEF Plugin, DialogueAssumption
<1>2. NewTalker \in Talkers
  BY <1>1, TalkersAre DEF NewTalker
<1>3. NoTalker \in Talkers
  BY <1>2, TalkersAre DEF NoTalker
<1>4. ASSUME NEW plugin \in {"classic", "generic"} PROVE Renewal(plugin) \in Talkers
  <2>1. Renewal(plugin) =
          [state |-> "busy", running |-> TRUE, reads |-> TRUE, failed |-> FALSE,
           counting |-> FALSE, asked |-> "no", plugin |-> plugin, ctx |-> "renew"]
    BY DEF Renewal
  <2> QED
    BY <2>1, TalkersAre
<1>5. ASSUME NEW timed \in BOOLEAN PROVE Started(timed).t \in Talkers
  <2>1. [NewTalker EXCEPT !.counting = TRUE] \in Talkers
        /\ [NewTalker EXCEPT !.running = TRUE, !.reads = TRUE] \in Talkers
    BY <1>2, TalkersAre
  <2> QED
    BY <2>1, TalkerTypes DEF Started
<1>6. ASSUME NEW shutdown \in ShutdownDialogs PROVE shutdown.t \in Talkers
  <2> DEFINE t == [NewTalker EXCEPT !.ctx = "shutdown"]
  <2>1. t \in Talkers /\ [t EXCEPT !.running = TRUE, !.reads = TRUE] \in Talkers
    BY <1>2, TalkersAre
  <2>2. PluginStart([t |-> [t EXCEPT !.running = TRUE, !.reads = TRUE], out |-> <<>>]).t \in Talkers
    BY <2>1, TalkerTypes
  <2> QED
    BY <2>1, <2>2 DEF ShutdownDialogs
<1> QED
  BY <1>1, <1>2, <1>3, <1>4, <1>5, <1>6

LEMMA TopTyped == ASSUME GreeterTyped PROVE Top \in Talkers
BY DEF GreeterTyped, Top

LEMMA PutsTyped ==
  ASSUME GreeterTyped, NEW r, r.t \in Talkers, Puts(r)
  PROVE  login' \in Talkers /\ over' \in Talkers
BY DEF GreeterTyped, Puts

LEMMA LoadsTyped ==
  ASSUME GreeterTyped, NEW r, r.t \in Talkers, NEW place \in Gpcs, Loads(r, place)
  PROVE  login' \in Talkers /\ over' \in Talkers /\ gpc' \in Gpcs /\ needLoad' \in BOOLEAN
BY PutsTyped DEF GreeterTyped, Loads

LEMMA RetriedTyped ==
  ASSUME NEW r, NEW t \in Talkers, NEW o, r = [t |-> t, out |-> o]
  PROVE  Retried(r).t \in Talkers
BY TalkerTypes

LEMMA ShutdownClosedTyped ==
  ASSUME GreeterTyped, DialogueAssumption, conf \in Configs, NEW out, ShutdownClosed(out)
  PROVE  login' \in Talkers /\ over' \in Talkers /\ gpc' \in Gpcs
<1>1. Resumed([t |-> login, out |-> out]).t \in Talkers
  BY TalkerTypes DEF GreeterTyped
<1> QED
  BY <1>1, NewTalkers DEF ShutdownClosed, GreeterTyped, Gpcs

\* The greeter's variables are typed after each of its actions.
LEMMA GreeterStepsTyped ==
  ASSUME GreeterTyped, DialogueAssumption, conf \in Configs, Greeter \/ Users
  PROVE  GreeterTyped'
<1> USE TopTyped, NewTalkers
<1>1. ASSUME NEW timed \in BOOLEAN, Greets(timed) PROVE GreeterTyped'
  BY <1>1 DEF Greets, GreeterTyped, Gpcs
<1>2. CASE GreeterReady
  BY <1>2 DEF GreeterReady, GreeterTyped, Gpcs
<1>3. CASE ReadCommand
  <2>1. CASE \E timed \in BOOLEAN : Greets(timed)
    BY <1>1, <2>1
  <2>2. CASE ~\E timed \in BOOLEAN : Greets(timed)
    <3>1. \A timed \in Again : timed \in BOOLEAN
      BY DEF Again
    <3> QED
      BY <1>3, <2>2, <3>1 DEF ReadCommand, GreeterTyped, Gpcs
  <2> QED
    BY <2>1, <2>2
<1>4. CASE FailVerify
  <2>1. CASE Greets(FALSE)
    BY <1>1, <2>1
  <2>2. CASE ~Greets(FALSE)
    <3>1. armed' \in BOOLEAN
      BY <1>4, <2>2 DEF FailVerify, GreeterTyped
    <3> QED
      BY <1>4, <2>2, <3>1 DEF FailVerify, GreeterTyped, Gpcs
  <2> QED
    BY <2>1, <2>2
<1>5. CASE ReadStatus \/ ReadValue \/ GreeterExit
  BY <1>5 DEF ReadStatus, ReadValue, GreeterExit, GreeterTyped, Gpcs
<1>6. CASE TalkerReads
  <2> DEFINE busy == [t |-> [Top EXCEPT !.state = "busy"], out |-> <<>>]
             done == [t |-> [Top EXCEPT !.state = "idle", !.running = FALSE, !.reads = FALSE,
                                        !.asked = "no"], out |-> <<>>]
  <2>1. busy.t \in Talkers /\ done.t \in Talkers
    BY TalkersAre
  <2>2. ASSUME NEW prompt, Prompted(prompt), UNCHANGED <<gpc, armed, needLoad>>
        PROVE  GreeterTyped'
    <3> DEFINE t == [Top EXCEPT !.state = "prompting",
                                !.asked = IF prompt = "getUser" THEN "user" ELSE "more"]
    <3>1. t \in Talkers
      BY TalkersAre
    <3>2. Returned([t |-> t, out |-> <<>>], "text").t \in Talkers
      BY <3>1, TalkerTypes
    <3> QED
      BY <2>2, <3>1, <3>2, PutsTyped DEF Prompted, GreeterTyped
  <2>3. CASE Puts([busy EXCEPT !.out = Ack]) /\ UNCHANGED <<gpc, needLoad>> /\ armed' = FALSE
    <3>1. [busy EXCEPT !.out = Ack].t \in Talkers
      BY <2>1
    <3> QED
      BY <2>3, <3>1, PutsTyped DEF GreeterTyped
  <2>4. CASE Loads(busy, "status") /\ UNCHANGED armed
    BY <2>1, <2>4, LoadsTyped DEF GreeterTyped, Gpcs
  <2>5. CASE Puts(busy) /\ UNCHANGED <<gpc, needLoad, armed>>
    BY <2>1, <2>5, PutsTyped DEF GreeterTyped
  <2>6. CASE Puts([busy EXCEPT !.t.asked = IF Top.plugin = "generic" THEN "no" ELSE Top.asked])
             /\ UNCHANGED <<gpc, needLoad, armed>>
    <3>1. [busy EXCEPT !.t.asked = IF Top.plugin = "generic" THEN "no" ELSE Top.asked].t
            = [busy.t EXCEPT !.asked = IF Top.plugin = "generic" THEN "no" ELSE Top.asked]
      OBVIOUS
    <3>2. [busy.t EXCEPT !.asked = IF Top.plugin = "generic" THEN "no" ELSE Top.asked] \in Talkers
      BY <2>1, TalkersAre
    <3> QED
      BY <2>6, <3>1, <3>2, PutsTyped DEF GreeterTyped
  <2>7. CASE login' = done.t /\ over' = Renewal(Plugin) /\ UNCHANGED <<gpc, armed, needLoad>>
    BY <2>1, <2>7 DEF GreeterTyped
  <2>8. CASE TalkerOk /\ UNCHANGED <<armed, needLoad>>
    <3>1. [login EXCEPT !.state = "idle", !.running = FALSE, !.reads = FALSE,
                        !.asked = "no"] \in Talkers
      BY TalkersAre DEF GreeterTyped
    <3> QED
      BY <2>8, <3>1, ShutdownClosedTyped DEF TalkerOk, LoginOk, GreeterTyped, Gpcs
  <2>9. CASE \/ Loads([t |-> [done.t EXCEPT !.failed = TRUE], out |-> <<>>], "status") /\ UNCHANGED armed
             \/ Puts([t |-> [done.t EXCEPT !.failed = TRUE], out |-> <<>>])
                /\ UNCHANGED <<gpc, needLoad, armed>>
    <3>1. [done.t EXCEPT !.failed = TRUE] \in Talkers
      BY <2>1, TalkersAre, ZenonT(60)
    <3> QED
      BY <2>9, <3>1, LoadsTyped, PutsTyped DEF GreeterTyped, Gpcs
  <2>10. CASE Puts(Retried(done)) /\ UNCHANGED <<gpc, armed, needLoad>>
    BY <2>1, <2>10, RetriedTyped, PutsTyped DEF GreeterTyped
  <2> QED
    BY <1>6, <2>2, <2>3, <2>4, <2>5, <2>6, <2>7, <2>8, <2>9, <2>10 DEF TalkerReads
<1>7. CASE RetryTimer
  BY <1>7, RetriedTyped, PutsTyped DEF RetryTimer, GreeterTyped
<1>8. CASE Activity
  BY <1>8, RetriedTyped, PutsTyped DEF Activity, GreeterTyped
<1>9. CASE AutoLogin
  <2>1. [Top EXCEPT !.counting = FALSE, !.state = "busy", !.reads = TRUE] \in Talkers
    BY TalkersAre
  <2>2. armed' \in BOOLEAN
    BY <1>9 DEF AutoLogin, GreeterTyped
  <2> QED
    BY <1>9, <2>1, <2>2, PutsTyped DEF AutoLogin, GreeterTyped
<1>10. CASE Accept
  BY <1>10, TalkerTypes, PutsTyped DEF Accept, GreeterTyped
<1>11. CASE EnterUser
  BY <1>11, TalkerTypes, LoadsTyped DEF EnterUser, GreeterTyped, Gpcs
<1>12. CASE Reject
  <2>1. PICK input \in {<<>>, Touch}, again \in Again :
       LET r == [t |-> login, out |-> input]
           a == IF Top.running THEN PluginAbort(r) ELSE r
           loaded == IF a.t.state = "idle" THEN Append(a.out, "readDmrc") ELSE a.out
           s == IF again THEN [t |-> [a.t EXCEPT !.running = FALSE, !.reads = FALSE,
                                                 !.counting = TRUE], out |-> loaded]
                ELSE IF a.t.running THEN PluginStart([t |-> a.t, out |-> loaded])
                ELSE [t |-> a.t, out |-> loaded]
       IN  /\ over # NoTalker => again
           /\ login' = s.t /\ up' = up \o s.out
           /\ needLoad' = (a.t.state # "idle")
           /\ gpc' = IF a.t.state = "idle" THEN "onlyStatus" ELSE "dialog"
           /\ armed' = (armed /\ input = <<>>)
    BY <1>12, Zenon DEF Reject
  <2> DEFINE r == [t |-> login, out |-> input]
             a == IF Top.running THEN PluginAbort(r) ELSE r
             loaded == IF a.t.state = "idle" THEN Append(a.out, "readDmrc") ELSE a.out
  <2>2. a.t \in Talkers
    BY TalkerTypes DEF GreeterTyped
  <2>3. armed' \in BOOLEAN /\ needLoad' \in BOOLEAN /\ gpc' \in Gpcs
    BY <2>1 DEF GreeterTyped, Gpcs
  <2> HIDE DEF a
  <2>4. [a.t EXCEPT !.running = FALSE, !.reads = FALSE, !.counting = TRUE] \in Talkers
    BY <2>2, TalkersAre, ZenonT(60)
  <2>5. \A out : PluginStart([t |-> a.t, out |-> out]).t \in Talkers
    BY <2>2, TalkerTypes
  <2>6. login' \in Talkers
    BY <2>1, <2>2, <2>4, <2>5 DEF a
  <2>7. UNCHANGED over
    BY <1>12 DEF Reject
  <2> QED
    BY <2>3, <2>6, <2>7 DEF GreeterTyped
<1>13. CASE CancelRenewal
  BY <1>13, RetriedTyped DEF CancelRenewal, GreeterTyped
<1>14. CASE OpenShutdown
  <2>1. Suspended([t |-> login, out |-> Touch]).t \in Talkers
    BY TalkerTypes DEF GreeterTyped
  <2> QED
    BY <1>14, <2>1 DEF OpenShutdown, GreeterTyped
<1>15. CASE ForceToggled
  <2> DEFINE a == PluginAbort([t |-> over, out |-> <<>>])
  <2>1. a.t \in Talkers
    BY TalkerTypes DEF GreeterTyped
  <2> HIDE DEF a
  <2>2. [a.t EXCEPT !.running = FALSE, !.reads = FALSE] \in Talkers
        /\ [over EXCEPT !.running = TRUE, !.reads = TRUE] \in Talkers
    BY <2>1, TalkersAre, ZenonT(60) DEF GreeterTyped
  <2>3. PluginStart([t |-> [over EXCEPT !.running = TRUE, !.reads = TRUE], out |-> <<>>]).t \in Talkers
    BY <2>2, TalkerTypes
  <2> QED
    BY <1>15, <2>2, <2>3, PutsTyped DEF ForceToggled, GreeterTyped, a
<1>16. CASE CloseShutdown
  BY <1>16, ShutdownClosedTyped DEF CloseShutdown, GreeterTyped
<1>17. CASE SwitchToChooser
  BY <1>17 DEF SwitchToChooser, GreeterTyped, Gpcs
<1>18. CASE FirstInput
  BY <1>18 DEF FirstInput, GreeterTyped
<1> QED
  BY <1>2, <1>3, <1>4, <1>5, <1>6, <1>7, <1>8, <1>9, <1>10, <1>11, <1>12, <1>13, <1>14, <1>15,
     <1>16, <1>17, <1>18 DEF Greeter, Users

\* Who leaves what alone.
LEMMA CoreLeaves == ASSUME Core PROVE UNCHANGED <<conf, menu>>
BY DEF Core, CoreStep, CoreStart, OpenGreeter, GreeterOpened, GreeterCommand, GreeterClosed,
   GreeterLost, Tell, Acknowledged, Answered, PamAsks, Pam, Account, Client, SessionEnds,
   PamMessage, AccountMessage, ClientMessage, greeterVars

LEMMA GreeterLeaves == ASSUME Greeter \/ Users PROVE UNCHANGED <<conf, core, menu>>
<1>1. UNCHANGED coreVars
  BY DEF Greeter, GreeterReady, ReadCommand, FailVerify, ReadStatus, ReadValue, TalkerReads,
     RetryTimer, Users, FirstInput, Activity, AutoLogin, Accept, EnterUser, Reject, CancelRenewal, OpenShutdown,
     ForceToggled, CloseShutdown, SwitchToChooser, GreeterExit
<1> QED
  BY <1>1 DEF coreVars

LEMMA ChooserLeaves ==
  ASSUME ChooserCore \/ Network \/ ChooserDlg \/ ChooserUser \/ ChooserExit
  PROVE  UNCHANGED <<conf, login, over, needLoad>>
BY DEF ChooserCore, ChooserReady, ChooserCommand, ChooserLost, Network, Ping, ReceivePacket,
   ChooserDlg, ChooserStart, ChooserReads, ChooserUser, Chooses, ChooserExit, greeterVars

\* core does not touch the greeter but to start it or see it gone.
LEMMA CoreLeavesGreeter ==
  ASSUME GreeterTyped, Core
  PROVE  GreeterTyped'
<1>1. CASE UNCHANGED greeterVars
  BY <1>1, GreeterFrame
<1>2. CASE gpc' \in {gpc, "boot", "none"} /\ UNCHANGED <<login, over, armed, needLoad>>
  BY <1>2 DEF GreeterTyped, Gpcs
<1> QED
  BY <1>1, <1>2 DEF Core, CoreStep, CoreStart, OpenGreeter, GreeterOpened, GreeterCommand,
     GreeterClosed, GreeterLost, Tell, Acknowledged, Answered, PamAsks, Pam, Account, Client,
     SessionEnds, PamMessage, AccountMessage, ClientMessage

LEMMA ChooserStepsTyped ==
  ASSUME CoreTyped, GreeterTyped,
         ChooserCore \/ Network \/ ChooserDlg \/ ChooserUser \/ ChooserExit
  PROVE  CoreTyped' /\ GreeterTyped'
<1>1. CASE ChooserDlg \/ ChooserUser \/ ChooserExit
  <2>1. CoreTyped'
    BY <1>1, CoreFrame DEF ChooserDlg, ChooserStart, ChooserReads, ChooserUser, Chooses, ChooserExit
  <2>2. GreeterTyped'
    BY <1>1 DEF ChooserDlg, ChooserStart, ChooserReads, ChooserUser, Chooses, ChooserExit,
       GreeterTyped, Gpcs
  <2> QED
    BY <2>1, <2>2
<1>2. ASSUME ChooserCore \/ Network PROVE GreeterTyped'
  <2>1. CASE UNCHANGED greeterVars
    BY <2>1, GreeterFrame
  <2>2. CASE gpc' = "none" /\ UNCHANGED <<login, over, armed, needLoad>>
    BY <2>2 DEF GreeterTyped, Gpcs
  <2> QED
    BY <1>2, <2>1, <2>2 DEF ChooserCore, ChooserReady, ChooserCommand, ChooserLost, Network, Ping,
       ReceivePacket
<1>3. ASSUME NEW hosts, NEW responded, NEW chosen, core' \in CoresWith(hosts, responded, chosen)
      PROVE  CoreTyped'
  BY <1>3 DEF CoreTyped, Cores, CoresWith
<1>4. ASSUME ChooserCore \/ Network PROVE CoreTyped'
  <2>1. CASE core' = Repinged(core)
    <3> DEFINE b == [core EXCEPT !.pc = "choosing"]
               c == [b EXCEPT !.pingTry = 1]
               d == [c EXCEPT !.responded = {}]
    <3>1. PICK hosts : core' = [d EXCEPT !.hosts = hosts]
      BY <2>1 DEF Repinged
    <3>2. b \in CoresWith(core.hosts, core.responded, core.chosen)
      BY CoreValues DEF CoreTyped, Cores, CoresWith
    <3> HIDE DEF b
    <3>3. c \in CoresWith(core.hosts, core.responded, core.chosen)
      BY <3>2 DEF CoresWith
    <3> HIDE DEF c
    <3>4. d \in CoresWith(core.hosts, {}, core.chosen)
      BY <3>3 DEF CoresWith
    <3> HIDE DEF d
    <3>5. [d EXCEPT !.hosts = hosts] \in CoresWith(hosts, {}, core.chosen)
      BY <3>4 DEF CoresWith
    <3> QED
      BY <3>1, <3>5, <1>3 DEF b, c, d
  <2>2. CASE \E pc \in CorePcs : core' = [emptyHostnames(core) EXCEPT !.pc = pc]
    <3> DEFINE c == [core EXCEPT !.hosts = {}]
               d == [c EXCEPT !.pingTry = 0]
               e == [d EXCEPT !.responded = {}]
    <3>1. c \in CoresWith({}, core.responded, core.chosen)
      BY DEF CoreTyped, Cores, CoresWith
    <3> HIDE DEF c
    <3>2. d \in CoresWith({}, core.responded, core.chosen)
      BY <3>1 DEF CoresWith
    <3> HIDE DEF d
    <3>3. e \in CoresWith({}, {}, core.chosen)
      BY <3>2 DEF CoresWith
    <3>4. e = emptyHostnames(core)
      BY DEF emptyHostnames, c, d
    <3> HIDE DEF e
    <3>5. core' \in CoresWith({}, {}, core.chosen)
      BY <2>2, <3>3, <3>4 DEF CoresWith
    <3> QED
      BY <3>5, <1>3
  <2>3. CASE UNCHANGED core \/ \E pc \in CorePcs : core' = [core EXCEPT !.pc = pc]
    <3>1. core' \in Cores
      BY <2>3 DEF CoreTyped, Cores, CoresWith
    <3> QED
      BY <3>1, CoreNext
  <2>4. CASE \E chosen : core' = [core EXCEPT !.pc = "ended", !.chosen = chosen]
    <3>1. PICK chosen : core' = [core EXCEPT !.pc = "ended", !.chosen = chosen]
      BY <2>4
    <3>2. core' \in CoresWith(core.hosts, core.responded, chosen)
      BY <3>1, CoreValues DEF CoreTyped, Cores, CoresWith
    <3> QED
      BY <3>2, <1>3
  <2>5. CASE Ping
    <3>1. CASE core' = [core EXCEPT !.pingTry = @ + 1] /\ core.pingTry < 3
      <4>1. core.pingTry + 1 \in 0..3
        BY <3>1 DEF CoreTyped, Cores, CoresWith
      <4>2. core' \in Cores
        BY <3>1, <4>1 DEF CoreTyped, Cores, CoresWith
      <4> QED
        BY <4>2, CoreNext
    <3>2. CASE \E hosts : core' = [core EXCEPT !.hosts = hosts]
      <4>1. PICK hosts : core' = [core EXCEPT !.hosts = hosts]
        BY <3>2
      <4>2. core' \in CoresWith(hosts, core.responded, core.chosen)
        BY <4>1 DEF CoreTyped, Cores, CoresWith
      <4> QED
        BY <4>2, <1>3
    <3> QED
      BY <2>5, <3>1, <3>2 DEF Ping, PING_TRIES
  <2>6. CASE ReceivePacket
    <3>1. \/ \E hosts, responded : core' = [core EXCEPT !.hosts = hosts, !.responded = responded]
          \/ \E responded : core' = [core EXCEPT !.responded = responded]
      BY <2>6 DEF ReceivePacket, AddHost, ChangeHost
    <3>2. \E hosts, responded : core' \in CoresWith(hosts, responded, core.chosen)
      BY <3>1, ZenonT(60) DEF CoreTyped, Cores, CoresWith
    <3> QED
      BY <3>2, <1>3
  <2> QED
    BY <1>4, <2>1, <2>2, <2>3, <2>4, <2>5, <2>6, CoreValues DEF ChooserCore, ChooserReady,
       ChooserCommand, Greet, ChooserLost, Network
<1> QED
  BY <1>1, <1>2, <1>4

\* core's place and the state of verify(), and what the greeter believes and shows, stay
\* what client.c, choose.c, kgverify.cpp and kgreeter.cpp know.
THEOREM DialogueTypes == CSpec => []DTypeOK
<1> DEFINE Typed == CoreTyped /\ GreeterTyped /\ conf \in Configs /\ HistoryTyped
<1>1. DInit => Typed
  <2>1. ASSUME DInit PROVE CoreTyped
    BY <2>1, CoreValues DEF DInit, CoreTyped, Cores, CoresWith
  <2>2. ASSUME DInit PROVE GreeterTyped /\ conf \in Configs
    BY <2>2, NewTalkers, DialogueAssumption DEF DInit, GreeterTyped, Gpcs
  <2>3. ASSUME DInit PROVE HistoryTyped
    BY <2>3 DEF DInit, HistoryTyped
  <2> QED
    BY <2>1, <2>2, <2>3
<1>2. Typed /\ [CNext /\ broken' = broken \cup Breaches]_allVars => Typed'
  <2> SUFFICES ASSUME Typed, [CNext /\ broken' = broken \cup Breaches]_allVars PROVE Typed'
    OBVIOUS
  <2>0. HistoryTyped'
    BY DEF HistoryTyped, allVars, Breaches, DBreaches
  <2>1. CASE Core
    BY <2>0, <2>1, CoreStepsTyped, CoreNext, CoreLeavesGreeter, CoreLeaves, DialogueAssumption
       DEF Core, CoreStep
  <2>2. CASE Greeter \/ Users
    BY <2>0, <2>2, GreeterLeaves, CoreFrame, GreeterStepsTyped, DialogueAssumption
  <2>3. CASE ChooserCore \/ Network \/ ChooserDlg \/ ChooserUser \/ ChooserExit
    BY <2>0, <2>3, ChooserLeaves, ChooserStepsTyped
  <2>4. CASE UNCHANGED dVars
    BY <2>0, <2>4, CoreFrame, GreeterFrame DEF dVars, greeterVars
  <2> QED
    BY <2>1, <2>2, <2>3, <2>4 DEF CNext, DNext, Over, allVars
<1>3. Typed => DTypeOK
  BY TypeParts
<1> QED
  BY <1>1, <1>2, <1>3, PTL DEF CSpec

-----------------------------------------------------------------------------
(* The steps of core, and the pipes *)

Talks == Downward \/ Upward \/ Crossing \/ Gone

LEMMA ModeTyped == ASSUME GreeterTyped PROVE Mode \in Modes
BY DEF GreeterTyped, Gpcs, Mode, Place, Modes, Places, Turns

LEMMA ModeFrame ==
  ASSUME UNCHANGED <<conf, gpc, login, over>>
  PROVE  Mode' = Mode /\ Place' = Place
BY DEF Mode, Place, AutoLogsIn, Top, NoTalker, NewTalker, Plugin

\* What core may be in without a greeter that is to answer.
LEMMA CoreSpeaks ==
  ASSUME Talks,
         core.pc \in {"start", "open", "pam", "account", "tell", "client", "session"}
  PROVE  /\ up = <<>> /\ down \in Seq(Words)
         /\ \E e \in Modes : Run(conf, Mode, down, e) /\ Fits(e)
BY DEF Talks, Downward, Upward, Crossing, Gone, Commanded, CoreCaller, At

\* core goes on and says nothing.
LEMMA Silent ==
  ASSUME NEW e \in Modes, Run(conf, Mode, down, e), down \in Seq(Words), up' = <<>>,
         UNCHANGED <<conf, down, gpc, login, over>>, Fits(e)'
  PROVE  Downward'
BY ModeFrame DEF Downward

\* core says w to the greeter.
LEMMA Says ==
  ASSUME NEW e \in Modes, Run(conf, Mode, down, e), down \in Seq(Words), up' = <<>>,
         e.turn = "core", NEW w \in Hears(conf, e.in), w \in Words, GreeterTyped,
         down' = Append(down, w), UNCHANGED <<conf, gpc, login, over>>, Fits(Then(e, w))'
  PROVE  Downward'
<1>1. Run(conf, Mode, Append(down, w), Then(e, w)) /\ Then(e, w) \in Modes
  BY ModeTyped, RunAppend, ThenInModes
<1>2. Run(conf', Mode', down', Then(e, w))
  BY <1>1, ModeFrame
<1>3. Append(down, w) \in Seq(Words)
  OBVIOUS
<1> QED
  BY <1>1, <1>2, <1>3 DEF Downward

\* The fields of core when verify() has returned.
LEMMA ReturnsFields ==
  ASSUME CoreTyped, NEW ok, NEW out, Returns(out, ok)
  PROVE  /\ core'.pc = IF core.caller # "session" THEN core.caller ELSE IF ok THEN "client" ELSE "wait"
         /\ core'.verified = Verified(ok)
         /\ core'.phase = "login" /\ core'.conv = "greeter" /\ core'.nopass = FALSE
         /\ core'.root = FALSE
<1>1. Forgotten \in Cores
  BY ForgottenTyped
<1>2. Forgotten.phase = "login" /\ Forgotten.conv = "greeter" /\ Forgotten.nopass = FALSE
      /\ Forgotten.root = FALSE
  BY DEF Forgotten, CoreTyped, Cores, CoresWith
<1> QED
  BY <1>1, <1>2 DEF Returns, Cores, CoresWith

\* verify() returns to a greeter that is in the mode e when it has read everything.
LEMMA ReturnsFits ==
  ASSUME CoreTyped, CoreOK, Verifying, NEW e, e.turn = "core", Company(e.in),
         NEW ok \in BOOLEAN, NEW out, Returns(out, ok), UNCHANGED <<conf, login>>
  PROVE  /\ CoreOK'
         /\ ok /\ core.caller # "session" => "ok" \in Hears(conf, e.in) /\ Fits(Then(e, "ok"))'
         /\ ok /\ core.caller = "session" => Fits(e)'
         /\ ~ok /\ core.phase = "login" /\ e.in # "none" =>
              \A w \in {"auth", "fail"} : w \in Hears(conf, e.in) /\ Fits(Then(e, w))'
<1>1. /\ core'.pc = IF core.caller # "session" THEN core.caller ELSE IF ok THEN "client" ELSE "wait"
      /\ core'.verified = Verified(ok)
      /\ core'.phase = "login" /\ core'.conv = "greeter" /\ core'.nopass = FALSE
      /\ core'.root = FALSE
  BY ReturnsFields
<1>2. core.caller \in {"session", "wait", "confirm"} /\ NoTalker' = NoTalker
  BY DEF CoreTyped, Cores, CoresWith, Callers, NoTalker, NewTalker, Plugin
<1>3. ~Verifying'
  BY <1>1, <1>2 DEF Verifying, Starting, At
<1>4. CoreOK'
  BY <1>1, <1>2, <1>3 DEF CoreOK, Starting, Verifying, Verified, At
<1>5. ASSUME ok, core.caller # "session" PROVE "ok" \in Hears(conf, e.in) /\ Fits(Then(e, "ok"))'
  BY <1>1, <1>2, <1>5 DEF CoreOK, Verifying, Company, Hears, Fits, Then, Goes, Turn, Verified, At, Quiet
<1>6. ASSUME ok, core.caller = "session" PROVE Fits(e)'
  BY <1>1, <1>2, <1>6 DEF CoreOK, Verifying, Company, Fits, Verified, At, Starting
<1>7. ASSUME ~ok, core.phase = "login", e.in # "none", NEW w \in {"auth", "fail"}
      PROVE  w \in Hears(conf, e.in) /\ Fits(Then(e, w))'
  BY <1>1, <1>2, <1>7 DEF CoreOK, Verifying, Company, Hears, Fits, Then, Goes, Turn, Verified, At, Quiet
<1> QED
  BY <1>4, <1>5, <1>6, <1>7

\* doPAMAuth() fails after it has sent w: so does verify(), or the renewal goes on.
LEMMA FailsFits ==
  ASSUME CoreTyped, CoreOK, Verifying, NEW e, e.turn = "core", Company(e.in), e.in # "none",
         core.phase # "change", NEW w \in {"auth", "fail"}, Fails(<<w>>), UNCHANGED <<conf, login>>
  PROVE  CoreOK' /\ w \in Hears(conf, e.in) /\ Fits(Then(e, w))'
<1>1. CASE core.phase = "login"
  BY <1>1, ReturnsFits DEF Fails
<1>2. CASE core.phase # "login"
  <2>1. core.phase = "renew"
    BY <1>2 DEF CoreTyped, Cores, CoresWith, Phases
  <2>2. /\ core' = [core EXCEPT !.pc = "pam"]
        /\ core'.pc = "pam" /\ core'.phase = "renew" /\ core'.conv = core.conv
        /\ core'.root = core.root /\ core'.caller = core.caller /\ core'.nopass = core.nopass
        /\ core'.pass = core.pass
    BY <2>1 DEF Fails, CoreTyped, Cores, CoresWith
  <2>3. NoTalker' = NoTalker /\ Plugin' = Plugin
    BY DEF NoTalker, NewTalker, Plugin
  <2>4. CoreOK'
    BY <2>1, <2>2, <2>3 DEF CoreOK, Starting, Verifying, At
  <2>5. w \in Hears(conf, e.in)
    BY <2>1 DEF CoreOK, Verifying, Company, Hears, Plugin
  <2>6. Fits(Then(e, w))'
    BY <2>1, <2>2, <2>3 DEF CoreOK, Verifying, Starting, Company, Fits, Then, Goes, Turn, At, Quiet
  <2> QED
    BY <2>4, <2>5, <2>6
<1> QED
  BY <1>1, <1>2

Situation == CoreTyped /\ GreeterTyped /\ conf \in Configs /\ TalkersOK /\ CoreOK /\ Talks

\* What core may be in verify(), or starting the session, with.
LEMMA CoreWorks ==
  ASSUME Situation, core.pc \in {"pam", "account", "tell", "client"}
  PROVE  /\ up = <<>> /\ down \in Seq(Words)
         /\ \E e \in Modes : /\ Run(conf, Mode, down, e) /\ e.turn = "core" /\ Company(e.in)
                             /\ (e.in = "none" <=> gpc = "none")
<1>1. PICK e \in Modes : Run(conf, Mode, down, e) /\ Fits(e)
  BY CoreSpeaks DEF Situation
<1>2. up = <<>> /\ down \in Seq(Words)
  BY CoreSpeaks DEF Situation
<1>3. e.turn = "core" /\ Company(e.in)
  BY <1>1 DEF Fits, At
<1>4. Mode \in Modes /\ e.in \in From(Mode.in)
  BY <1>1, <1>2, ModeTyped, RunReaches DEF Situation
<1>5. Mode.in = "none" <=> gpc = "none"
  BY DEF Mode, Place, Situation, GreeterTyped, Gpcs
<1>6. e.in = "none" <=> Mode.in = "none"
  BY <1>4 DEF From, Modes, Places
<1> QED
  BY <1>1, <1>2, <1>3, <1>5, <1>6

LEMMA NamesFrame == ASSUME UNCHANGED conf PROVE NoTalker' = NoTalker /\ Plugin' = Plugin /\ Timed' = Timed
BY DEF NoTalker, NewTalker, Plugin, Timed

LEMMA DoesCoreStart == ASSUME Situation, CoreStart PROVE CoreOK' /\ Talks'
<1>1. PICK e \in Modes : Run(conf, Mode, down, e) /\ Fits(e)
  BY CoreSpeaks DEF Situation, CoreStart, At
<1>2. up = <<>> /\ down \in Seq(Words) /\ e.in = "none" /\ e.turn = "core"
  BY <1>1, CoreSpeaks DEF Situation, CoreStart, At, Fits
<1>3. \/ core'.pc = "open" /\ core'.phase = core.phase /\ core'.conv = core.conv
         /\ core'.nopass = core.nopass /\ core'.pass = core.pass /\ core'.root = core.root
      \/ /\ core'.pc = "pam" /\ core'.conv = "auto" /\ core'.caller = "session"
         /\ core'.root = core.root /\ core'.phase = core.phase /\ core'.nopass = core.nopass
         /\ core'.pass
  BY DEF CoreStart, Situation, CoreTyped, Cores, CoresWith
<1>4. UNCHANGED <<conf, up, down, gpc, login, over>>
  BY DEF CoreStart, greeterVars
<1>5. CoreOK'
  BY <1>3, <1>4, NamesFrame DEF CoreStart, Situation, CoreOK, Starting, Verifying, At
<1>6. Fits(e)'
  BY <1>2, <1>3 DEF CoreStart, Situation, CoreOK, Starting, Verifying, Company, Fits, At
<1> QED
  BY <1>1, <1>2, <1>4, <1>5, <1>6, Silent DEF Talks

LEMMA DoesTell == ASSUME Situation, Tell PROVE CoreOK' /\ Talks'
<1>1. At("tell") /\ gpc # "none" /\ UNCHANGED <<conf, up, gpc, login, over>>
  BY DEF Tell, greeterVars
<1>2. PICK e \in Modes : /\ Run(conf, Mode, down, e) /\ e.turn = "core" /\ Company(e.in)
                         /\ e.in # "none"
  BY <1>1, CoreWorks DEF At
<1>3. up = <<>> /\ down \in Seq(Words)
  BY <1>1, CoreWorks DEF At
<1>4. CASE core.say = "msg"
  <2>1. /\ core'.pc = "ack" /\ core'.then = core.then /\ core'.phase = core.phase
        /\ core'.conv = core.conv /\ core'.root = core.root /\ core'.caller = core.caller
        /\ core'.nopass = core.nopass /\ core'.pass = core.pass /\ core'.verified = core.verified
    BY <1>4 DEF Tell, Situation, CoreTyped, Cores, CoresWith
  <2>2. CoreOK'
    BY <1>1, <1>4, <2>1, NamesFrame DEF Situation, CoreOK, Starting, Verifying, At
  <2>3. "msg" \in Hears(conf, e.in) /\ "msg" \in Words
    BY <1>1, <1>2, <1>4 DEF Company, Hears, Words
  <2>4. Fits(Then(e, "msg"))'
    BY <1>1, <1>2, <1>4, <2>1, NamesFrame DEF Starting, Company, Fits, Then, Goes, Turn, At, Quiet
  <2>5. down' = Append(down, "msg")
    BY <1>4 DEF Tell
  <2> QED
    BY <1>1, <1>2, <1>3, <2>2, <2>3, <2>4, <2>5, Says DEF Talks, Situation
<1>5. CASE core.say # "msg"
  <2>1. core.say = "auth"
    BY <1>5 DEF Situation, CoreTyped, Cores, CoresWith, CoreSays
  <2>2. Verifying /\ core.phase # "change"
    BY <1>1, <2>1 DEF Situation, CoreOK, Verifying, Starting, At
  <2>3. Fails(<<"auth">>)
    BY <1>5 DEF Tell
  <2>4. CoreOK' /\ "auth" \in Hears(conf, e.in) /\ Fits(Then(e, "auth"))'
    BY <1>1, <1>2, <2>2, <2>3, FailsFits DEF Situation
  <2>5. down' = Append(down, "auth")
    BY <1>3, <2>3 DEF Fails, Returns
  <2> QED
    BY <1>1, <1>2, <1>3, <2>4, <2>5, Says DEF Talks, Situation, Words
<1> QED
  BY <1>4, <1>5

LEMMA DoesMessage == ASSUME Situation, PamMessage \/ AccountMessage \/ ClientMessage PROVE CoreOK' /\ Talks'
<1>1. core.pc \in {"pam", "account", "client"} /\ UNCHANGED <<conf, up, down, gpc, login, over>>
  BY DEF PamMessage, AccountMessage, ClientMessage, Tells, At, greeterVars
<1>2. PICK e \in Modes : Run(conf, Mode, down, e) /\ e.turn = "core" /\ Company(e.in)
  BY <1>1, CoreWorks
<1>3. up = <<>> /\ down \in Seq(Words)
  BY <1>1, CoreWorks
<1>4. /\ core'.pc = "tell" /\ core'.say = "msg" /\ core'.then = core.pc /\ core'.phase = core.phase
      /\ core'.conv = core.conv /\ core'.root = core.root /\ core'.caller = core.caller
      /\ core'.nopass = core.nopass /\ core'.pass = core.pass /\ core'.verified = core.verified
  BY ZenonT(60) DEF PamMessage, AccountMessage, ClientMessage, Tells, At, Situation, CoreTyped, Cores, CoresWith
<1>5. CoreOK'
  BY <1>1, <1>4, NamesFrame DEF Situation, CoreOK, Starting, Verifying, At
<1>6. Fits(e)'
  BY <1>1, <1>2, <1>4, NamesFrame DEF Starting, Company, Fits, At
<1> QED
  BY <1>1, <1>2, <1>3, <1>5, <1>6, Silent DEF Talks

LEMMA DoesPamAsks == ASSUME Situation, PamAsks PROVE CoreOK' /\ Talks'
<1>1. At("pam") /\ PamPrompt /\ UNCHANGED <<conf, up, gpc, login, over>>
  BY DEF PamAsks, greeterVars
<1>2. PICK e \in Modes : Run(conf, Mode, down, e) /\ e.turn = "core" /\ Company(e.in)
  BY <1>1, CoreWorks DEF At
<1>3. up = <<>> /\ down \in Seq(Words)
  BY <1>1, CoreWorks DEF At
<1>4. ~(core.phase = "login" /\ core.conv = "auto")
  BY <1>1 DEF PamPrompt, Classic, Situation, CoreOK, Verifying, Starting, At
<1>5. PICK what \in {"pass", "other"} : Asks(what, "getMore")
  BY <1>1, <1>4 DEF PamPrompt
<1>6. /\ core'.pc = "answer" /\ core'.ask \in {"pass", "other"} /\ core'.phase = core.phase
      /\ core'.conv = core.conv /\ core'.root = core.root /\ core'.caller = core.caller
      /\ core'.nopass = core.nopass /\ core'.pass = core.pass /\ core'.then = core.then /\ core'.say = core.say
  BY <1>5 DEF Asks, Situation, CoreTyped, Cores, CoresWith
<1>7. CoreOK'
  BY <1>1, <1>6, NamesFrame DEF Situation, CoreOK, Starting, Verifying, At
<1>8. ~(core.caller = "session" /\ core.phase = "login")
  BY <1>1, <1>4 DEF Situation, CoreOK, Starting, Verifying, At, CoreTyped, Cores, CoresWith, CoreConvs
<1>9. e.in \in {"login", "shutdown", "renew", "renewAuto"}
  BY <1>1, <1>2, <1>4, <1>8 DEF Company, Starting, At
<1>10. "getMore" \in Hears(conf, e.in) /\ "getMore" \in Words
  BY <1>9 DEF Hears, Words
<1>11. Fits(Then(e, "getMore"))'
  BY <1>1, <1>2, <1>6, <1>9, NamesFrame DEF Starting, Company, Fits, Then, Goes, Turn, At, Quiet
<1>12. down' = Append(down, "getMore")
  BY <1>5 DEF Asks
<1> QED
  BY <1>1, <1>2, <1>3, <1>7, <1>10, <1>11, <1>12, Says DEF Talks, Situation

\* verify() lets the user in: it says so to the greeter, unless it was called for an
\* automatic login.
LEMMA LetsIn ==
  ASSUME Situation, Verifying, NEW e \in Modes, Run(conf, Mode, down, e), e.turn = "core",
         Company(e.in), down \in Seq(Words), up = <<>>, Returns(<<>>, TRUE),
         UNCHANGED <<conf, up, gpc, login, over>>
  PROVE  CoreOK' /\ Talks'
<1>1. CASE core.caller # "session"
  <2>1. CoreOK' /\ "ok" \in Hears(conf, e.in) /\ Fits(Then(e, "ok"))'
    BY <1>1, ReturnsFits DEF Situation
  <2>2. down' = Append(down, "ok") /\ "ok" \in Words
    BY <1>1 DEF Returns, Words
  <2> QED
    BY <2>1, <2>2, Says DEF Talks, Situation
<1>2. CASE core.caller = "session"
  <2>1. CoreOK' /\ Fits(e)'
    BY <1>2, ReturnsFits DEF Situation
  <2>2. UNCHANGED down
    BY <1>2 DEF Returns
  <2> QED
    BY <2>1, <2>2, Silent DEF Talks
<1> QED
  BY <1>1, <1>2

\* A success or failure of an authentication is followed by V_PUT_USER if the generic
\* plugin has let PAM ask for the user.
LEMMA PutsUser ==
  ASSUME Situation, At("pam"), core.phase = "login", NEW user \in PutUser, down' = down \o user,
         UNCHANGED <<conf, up, gpc, login, over>>,
         \A e : e.turn = "core" /\ Company(e.in) => Fits(e)'
  PROVE  Talks'
<1>1. PICK e \in Modes : Run(conf, Mode, down, e) /\ e.turn = "core" /\ Company(e.in)
  BY CoreWorks DEF At
<1>2. up = <<>> /\ down \in Seq(Words)
  BY CoreWorks DEF At
<1>3. CASE user = <<>>
  <2>1. UNCHANGED down
    BY <1>2, <1>3
  <2> QED
    BY <1>1, <1>2, <2>1, Silent DEF Talks
<1>4. CASE user # <<>>
  <2>1. user = <<"putUser">> /\ ~Classic
    BY <1>4 DEF PutUser
  <2>2. core.caller # "session"
    BY <2>1 DEF Classic, Situation, CoreOK, Verifying, Starting, At, CoreTyped, Cores, CoresWith,
       CoreConvs
  <2>3. e.in \in {"login", "shutdown"}
    BY <1>1, <2>1, <2>2 DEF Company, Starting, At, Classic
  <2>4. "putUser" \in Hears(conf, e.in) /\ "putUser" \in Words
    BY <2>3 DEF Hears, Words
  <2>5. Then(e, "putUser").turn = "core" /\ Then(e, "putUser").in = e.in
    BY <2>3 DEF Then, Goes, Turn, Quiet
  <2>6. Fits(Then(e, "putUser"))'
    BY <1>1, <2>5
  <2>7. down' = Append(down, "putUser")
    BY <1>2, <2>1
  <2> QED
    BY <1>1, <1>2, <2>4, <2>6, <2>7, Says DEF Talks, Situation
<1> QED
  BY <1>3, <1>4

LEMMA DoesPam == ASSUME Situation, Pam PROVE CoreOK' /\ Talks'
<1>1. At("pam") /\ UNCHANGED <<conf, up, gpc, login, over>>
  BY DEF Pam, greeterVars
<1>2. PICK e \in Modes : Run(conf, Mode, down, e) /\ e.turn = "core" /\ Company(e.in)
  BY <1>1, CoreWorks DEF At
<1>3. up = <<>> /\ down \in Seq(Words) /\ Verifying
  BY <1>1, CoreWorks DEF At, Verifying, Starting
<1>4. core.phase \in {"login", "renew", "change"}
  BY DEF Situation, CoreTyped, Cores, CoresWith, Phases
<1>5. CASE PamSuccess /\ core.phase = "login"
  <2>1. /\ core'.pc = "account" /\ core'.phase = core.phase /\ core'.then = core.then
        /\ core'.conv = core.conv /\ core'.root = core.root /\ core'.caller = core.caller
        /\ core'.nopass = core.nopass /\ core'.pass = core.pass /\ core'.say = core.say
    BY <1>5 DEF PamSuccess, Situation, CoreTyped, Cores, CoresWith
  <2>2. CoreOK'
    BY <1>1, <1>5, <2>1, NamesFrame DEF Situation, CoreOK, Starting, Verifying, At
  <2>3. ASSUME NEW m, m.turn = "core", Company(m.in) PROVE Fits(m)'
    BY <1>1, <2>1, <2>3, NamesFrame DEF Starting, Company, Fits, At
  <2> QED
    BY <1>1, <1>5, <2>2, <2>3, PutsUser DEF PamSuccess
<1>6. CASE PamSuccess /\ core.phase = "renew"
  <2>1. /\ core'.pc = "pam" /\ core'.phase = "change" /\ core'.then = core.then
        /\ core'.conv = core.conv /\ core'.root = core.root /\ core'.caller = core.caller
        /\ core'.nopass = core.nopass /\ core'.pass = core.pass /\ core'.say = core.say
    BY <1>1, <1>6 DEF PamSuccess, Situation, CoreTyped, Cores, CoresWith, At
  <2>2. CoreOK'
    BY <1>1, <1>3, <1>6, <2>1, NamesFrame DEF Situation, CoreOK, Starting, Verifying, At
  <2>3. e.in \in {"renew", "renewAuto"}
    BY <1>1, <1>2, <1>3, <1>6 DEF Situation, CoreOK, Verifying, Company
  <2>4. "preOk" \in Hears(conf, e.in) /\ "preOk" \in Words
    BY <2>3 DEF Hears, Words
  <2>5. Fits(Then(e, "preOk"))'
    BY <1>1, <1>2, <1>3, <1>6, <2>1, <2>3, NamesFrame
       DEF Verifying, Starting, Company, Fits, Then, Goes, Turn, At, Quiet
  <2>6. down' = Append(down, "preOk")
    BY <1>6 DEF PamSuccess
  <2> QED
    BY <1>1, <1>2, <1>3, <2>2, <2>4, <2>5, <2>6, Says DEF Talks, Situation
<1>7. CASE PamSuccess /\ core.phase = "change"
  <2>1. Returns(<<>>, TRUE)
    BY <1>7 DEF PamSuccess
  <2> QED
    BY <1>1, <1>2, <1>3, <2>1, LetsIn
<1>8. CASE PamFailure /\ core.phase = "change"
  <2>1. UNCHANGED core /\ down' = Append(down, "fail")
    BY <1>8 DEF PamFailure
  <2>2. e.in \in {"renew", "renewAuto"}
    BY <1>1, <1>2, <1>3, <1>8 DEF Situation, CoreOK, Verifying, Company
  <2>3. "fail" \in Hears(conf, e.in) /\ "fail" \in Words
    BY <2>2 DEF Hears, Words
  <2>4. Fits(Then(e, "fail"))'
    BY <1>1, <1>2, <1>3, <1>8, <2>1, <2>2, NamesFrame
       DEF Verifying, Starting, Company, Fits, Then, Goes, Turn, At, Quiet
  <2>5. CoreOK'
    BY <1>1, <2>1, NamesFrame DEF Situation, CoreOK, Starting, Verifying, At
  <2> QED
    BY <1>1, <1>2, <1>3, <2>1, <2>3, <2>4, <2>5, Says DEF Talks, Situation
<1>9. CASE PamFailure /\ core.phase # "change"
  <2>1. /\ core'.pc = "tell" /\ core'.phase = core.phase
        /\ core'.conv = core.conv /\ core'.root = core.root /\ core'.caller = core.caller
        /\ core'.nopass = core.nopass /\ core'.pass = core.pass
        /\ core'.say = "auth" \/ (core'.say = "msg" /\ core'.then = "fail")
    <3>1. \/ core' = [core EXCEPT !.pc = "tell", !.say = "auth"]
          \/ core' = [core EXCEPT !.pc = "tell", !.say = "msg", !.then = "fail"]
      BY <1>9 DEF PamFailure
    <3>2. CASE core' = [core EXCEPT !.pc = "tell", !.say = "auth"]
      BY <3>2 DEF Situation, CoreTyped, Cores, CoresWith
    <3>3. CASE core' = [core EXCEPT !.pc = "tell", !.say = "msg", !.then = "fail"]
      BY <3>3 DEF Situation, CoreTyped, Cores, CoresWith
    <3> QED
      BY <3>1, <3>2, <3>3
  <2>2. CoreOK'
    BY <1>1, <1>9, <2>1, NamesFrame DEF Situation, CoreOK, Starting, Verifying, At
  <2>3. ASSUME NEW m, m.turn = "core", Company(m.in) PROVE Fits(m)'
    BY <1>1, <2>1, <2>3, NamesFrame DEF Starting, Company, Fits, At
  <2>4. PICK user \in PutUser : down' = down \o user
    BY <1>9 DEF PamFailure
  <2>5. CASE core.phase = "login"
    BY <1>1, <2>2, <2>3, <2>4, <2>5, PutsUser
  <2>6. CASE core.phase # "login"
    <3>1. UNCHANGED down
      BY <1>3, <2>4, <2>6 DEF PutUser
    <3> QED
      BY <1>1, <1>2, <1>3, <2>2, <2>3, <3>1, Silent DEF Talks
  <2> QED
    BY <2>5, <2>6
<1> QED
  BY <1>4, <1>5, <1>6, <1>7, <1>8, <1>9 DEF Pam

LEMMA DoesAccount == ASSUME Situation, Account PROVE CoreOK' /\ Talks'
<1>1. At("account") /\ UNCHANGED <<conf, up, gpc, login, over>>
  BY DEF Account, greeterVars
<1>2. PICK e \in Modes : /\ Run(conf, Mode, down, e) /\ e.turn = "core" /\ Company(e.in)
                         /\ (e.in = "none" <=> gpc = "none")
  BY <1>1, CoreWorks DEF At
<1>3. up = <<>> /\ down \in Seq(Words) /\ Verifying /\ core.phase = "login"
  BY <1>1, CoreWorks DEF At, Verifying, Starting, Situation, CoreOK
<1>4. CASE Returns(<<>>, TRUE)
  BY <1>1, <1>2, <1>3, <1>4, LetsIn
<1>5. CASE Tells("msg", "fail") \/ Tells("auth", "wait")
  <2>1. /\ core'.pc = "tell" /\ core'.phase = core.phase
        /\ core'.conv = core.conv /\ core'.root = core.root /\ core'.caller = core.caller
        /\ core'.nopass = core.nopass /\ core'.pass = core.pass
        /\ core'.say = "auth" \/ (core'.say = "msg" /\ core'.then = "fail")
    <3>1. CASE Tells("msg", "fail")
      BY <3>1 DEF Tells, Situation, CoreTyped, Cores, CoresWith
    <3>2. CASE Tells("auth", "wait")
      BY <3>2 DEF Tells, Situation, CoreTyped, Cores, CoresWith
    <3> QED
      BY <1>5, <3>1, <3>2
  <2>2. CoreOK'
    BY <1>1, <1>3, <2>1, NamesFrame DEF Situation, CoreOK, Starting, Verifying, At
  <2>3. Fits(e)'
    BY <1>1, <1>2, <2>1, NamesFrame DEF Starting, Company, Fits, At
  <2>4. UNCHANGED down
    BY <1>5 DEF Tells
  <2> QED
    BY <1>1, <1>2, <1>3, <2>2, <2>3, <2>4, Silent DEF Talks
<1>6. CASE /\ gpc # "none" /\ ~core.root
           /\ LET again == core.conv = "auto" \/ core.nopass IN
              /\ core' = [core EXCEPT !.pc = "pam", !.phase = IF again THEN "renew" ELSE "change"]
              /\ down' = Append(down, IF again THEN "chtokAuth" ELSE "chtok")
  <2>1. PICK phase \in {"renew", "change"}, w \in {"chtokAuth", "chtok"} :
          /\ core' = [core EXCEPT !.pc = "pam", !.phase = phase] /\ down' = Append(down, w)
          /\ phase = "renew" <=> core.conv = "auto" \/ core.nopass
          /\ phase = "renew" <=> w = "chtokAuth"
    <3>1. CASE core.conv = "auto" \/ core.nopass
      BY <1>6, <3>1
    <3>2. CASE ~(core.conv = "auto" \/ core.nopass)
      BY <1>6, <3>2
    <3> QED
      BY <3>1, <3>2
  <2>2. /\ core'.pc = "pam" /\ core'.phase = phase
        /\ core'.conv = core.conv /\ core'.root = core.root /\ core'.caller = core.caller
        /\ core'.nopass = core.nopass /\ core'.pass = core.pass /\ core'.say = core.say /\ core'.then = core.then
    BY <2>1 DEF Situation, CoreTyped, Cores, CoresWith
  <2>3. CoreOK'
    BY <1>1, <1>3, <1>6, <2>1, <2>2, NamesFrame DEF Situation, CoreOK, Starting, Verifying, At
  <2>4. \/ e.in = "login" /\ core.caller = "wait"
        \/ e.in = "auto" /\ core.caller = "wait" /\ phase = "renew"
        \/ e.in = "fail" /\ core.caller = "session" /\ phase = "renew"
    BY <1>1, <1>2, <1>3, <1>6, <2>1 DEF Situation, CoreOK, Verifying, Company, CoreTyped, Cores,
       CoresWith, CoreConvs
  <2>5. w \in Hears(conf, e.in) /\ w \in Words
    BY <2>1, <2>4 DEF Hears, Words
  <2>6. Fits(Then(e, w))'
    BY <1>1, <1>2, <1>3, <1>6, <2>1, <2>2, <2>4, NamesFrame
       DEF Verifying, Starting, Company, Fits, Then, Goes, Turn, At, Quiet
  <2> QED
    BY <1>1, <1>2, <1>3, <2>1, <2>3, <2>5, <2>6, Says DEF Talks, Situation
<1> QED
  BY <1>4, <1>5, <1>6 DEF Account

LEMMA NoneSilent ==
  ASSUME GreeterTyped, gpc \in {"none", "gone", "boot", "chooserAck"}, down \in Seq(Words), NEW e,
         Run(conf, Mode, down, e)
  PROVE  down = <<>> /\ e = Mode /\ Mode.in = gpc
<1>1. Mode.in = gpc /\ Mode \in Modes
  BY ModeTyped DEF Mode, Place
<1>2. Hears(conf, Mode.in) = {}
  BY <1>1 DEF Hears
<1>3. down = <<>>
  BY <1>1, <1>2, RunRead
<1> QED
  BY <1>1, <1>3, RunEmpty

LEMMA DoesClient == ASSUME Situation, Client PROVE CoreOK' /\ Talks'
<1>1. At("client") /\ UNCHANGED <<conf, up, gpc, login, over>>
  BY DEF Client, greeterVars
<1>2. PICK e \in Modes : /\ Run(conf, Mode, down, e) /\ e.turn = "core" /\ Company(e.in)
                         /\ (e.in = "none" <=> gpc = "none")
  BY <1>1, CoreWorks DEF At
<1>3. up = <<>> /\ down \in Seq(Words) /\ Starting
  BY <1>1, CoreWorks DEF At, Starting
<1>4. \A pc \in {"session", "ended", "closing"} : core' = [core EXCEPT !.pc = pc] => 
        core'.pc = pc /\ core'.phase = core.phase /\ core'.conv = core.conv
        /\ core'.nopass = core.nopass /\ core'.pass = core.pass /\ core'.root = core.root
  BY DEF Situation, CoreTyped, Cores, CoresWith
<1>5. \E pc \in {"session", "ended", "closing"} : core' = [core EXCEPT !.pc = pc]
  BY DEF Client, FinishGreet, Begins
<1>6. CoreOK'
  BY <1>1, <1>3, <1>4, <1>5 DEF Situation, CoreOK, Starting, Verifying, At
<1>7. CASE gpc = "none"
  <2>1. core'.pc \in {"session", "ended"} /\ UNCHANGED down
    BY <1>4, <1>7 DEF Client, FinishGreet, Begins
  <2>2. down = <<>> /\ e.in = "none"
    BY <1>2, <1>3, <1>7, NoneSilent DEF Situation
  <2>3. CASE core'.pc = "session"
    <3>1. Fits(e)'
      BY <1>2, <2>2, <2>3 DEF Fits, At
    <3> QED
      BY <1>1, <1>2, <1>3, <1>6, <2>1, <3>1, Silent DEF Talks
  <2>4. CASE core'.pc = "ended"
    BY <1>1, <1>3, <1>6, <1>7, <2>1, <2>2, <2>4 DEF Talks, Gone, At
  <2> QED
    BY <2>1, <2>3, <2>4
<1>8. CASE gpc # "none"
  <2>1. core'.pc = "closing" /\ down' = Append(down, "ok")
    BY <1>4, <1>8 DEF Client, FinishGreet
  <2>2. e.in \in {"fail", "final", "renewAuto"}
    BY <1>2, <1>3, <1>8 DEF Company
  <2>3. "ok" \in Hears(conf, e.in) /\ "ok" \in Words
    BY <2>2 DEF Hears, Words
  <2>4. Fits(Then(e, "ok"))'
    BY <2>1, <2>2 DEF Fits, Then, Goes, Turn, At, Quiet
  <2> QED
    BY <1>1, <1>2, <1>3, <1>6, <2>1, <2>3, <2>4, Says DEF Talks, Situation
<1> QED
  BY <1>7, <1>8

\* The greeter has nothing to read.
LEMMA Listening ==
  ASSUME GreeterTyped, down = <<>>
  PROVE  down \in Seq(Words) /\ \E m \in Modes : m = Mode /\ Run(conf, Mode, down, m)
BY ModeTyped, RunEmpty

LEMMA CommandsFollow ==
  ASSUME NEW c \in Commandings, NEW w
  PROVE  <<w>> \o c # <<>> /\ Head(<<w>> \o c) = w /\ Tail(<<w>> \o c) = c
<1> DEFINE S == {w, "verifyRoot", "verify", "autoLogin", "readDmrc", "getDmrc", "chooseHost",
                 "ready", "putDmrc"}
           d == <<w>> \o c
<1>0. /\ {w, "verifyRoot", "verify", "autoLogin", "readDmrc", "getDmrc"} \subseteq S
      /\ {"chooseHost", "ready", "putDmrc"} \subseteq S
  OBVIOUS
<1> HIDE DEF S, d
<1>1. c \in Seq(S) /\ <<w>> \in Seq(S) /\ Len(<<w>>) = 1 /\ <<w>>[1] = w
  <2>1. <<w>> \in Seq(S) /\ Len(<<w>>) = 1 /\ <<w>>[1] = w
    BY <1>0
  <2>2. CASE c = <<"readDmrc", "verify">>
    BY <1>0, <2>1, <2>2
  <2>3. CASE c = <<"putDmrc", "ready">>
    BY <1>0, <2>1, <2>3
  <2>4. CASE c = <<>>
    BY <2>1, <2>4
  <2>5. CASE \E x \in S : c = <<x>>
    BY <2>1, <2>5
  <2> QED
    BY <1>0, <2>2, <2>3, <2>4, <2>5 DEF Commandings
<1>2. /\ d \in Seq(S) /\ Len(d) = 1 + Len(c) /\ Len(c) \in Nat
      /\ \A i \in 1..(1 + Len(c)) : d[i] = IF i <= 1 THEN <<w>>[i] ELSE c[i - 1]
  <2>1. /\ d \in Seq(S) /\ Len(d) = Len(<<w>>) + Len(c)
        /\ \A i \in 1..(Len(<<w>>) + Len(c)) :
             d[i] = IF i <= Len(<<w>>) THEN <<w>>[i] ELSE c[i - Len(<<w>>)]
    BY <1>1, ConcatProperties, Zenon DEF d
  <2>2. Len(c) \in Nat
    BY <1>1, LenProperties
  <2> QED
    BY <1>1, <2>1, <2>2
<1>3. d # <<>> /\ Head(d) = w
  BY <1>1, <1>2
<1>4. /\ Tail(d) \in Seq(S) /\ Len(Tail(d)) = Len(c)
      /\ \A i \in 1..Len(c) : Tail(d)[i] = d[i + 1]
  BY <1>2, <1>3, HeadTailProperties
<1>5. \A i \in 1..Len(c) : Tail(d)[i] = c[i]
  BY <1>2, <1>4
<1>6. Tail(d) = c
  BY <1>1, <1>4, <1>5, SeqEqual
<1> QED
  BY <1>3, <1>6 DEF d

LEMMA DoesOpenGreeter == ASSUME Situation, OpenGreeter PROVE CoreOK' /\ Talks'
<1>1. /\ gpc = "none" /\ gpc' = "boot" /\ up' = <<>> /\ down' = <<>>
      /\ UNCHANGED <<conf, login, over>>
      /\ \/ At("open") /\ core' = [core EXCEPT !.pc = "opening"]
         \/ At("tell") /\ core' = [core EXCEPT !.pc = "openingForError"]
  BY DEF OpenGreeter, At
<1>2. Mode' = [in |-> "boot", turn |-> "core"] /\ Mode' \in Modes
  BY <1>1 DEF Mode, Place, Modes, Places, Turns
<1>3. Run(conf', Mode', down', Mode') /\ down' \in Seq(Words)
  BY <1>1, <1>2, RunEmpty
<1>4. /\ core'.phase = core.phase /\ core'.conv = core.conv /\ core'.nopass = core.nopass
      /\ core'.pass = core.pass
      /\ core'.root = core.root /\ core'.caller = core.caller /\ core'.verified = core.verified
      /\ core'.say = core.say /\ core'.then = core.then
      /\ core'.pc = IF At("open") THEN "opening" ELSE "openingForError"
  BY <1>1 DEF Situation, CoreTyped, Cores, CoresWith, At
<1>5. At("tell") => \E e : Company(e.in) /\ e.in = "none"
  BY <1>1, CoreWorks DEF At
<1>6. CoreOK'
  BY <1>1, <1>4, <1>5, NamesFrame DEF Situation, CoreOK, Starting, Verifying, Company, At
<1>7. PICK m \in Modes : m = Mode'
  BY <1>2
<1>8. Fits(m)'
  BY <1>1, <1>2, <1>4, <1>7 DEF Fits, At
<1> QED
  BY <1>1, <1>3, <1>6, <1>7, <1>8 DEF Talks, Downward

LEMMA DoesGreeterOpened == ASSUME Situation, GreeterOpened PROVE CoreOK' /\ Talks'
<1>1. up = <<"ready">> /\ down = <<>> /\ gpc = "command"
  BY DEF GreeterOpened, Situation, Talks, Downward, Upward, Crossing, Gone, At
<1>2. up' = <<>> /\ UNCHANGED <<conf, gpc, login, over>>
  BY <1>1 DEF GreeterOpened, greeterVars
<1>3. PICK m \in Modes : m = Mode /\ Run(conf, Mode, down, m)
  BY <1>1, Listening DEF Situation
<1>4. m.in = "command" /\ m.turn = "core" /\ down \in Seq(Words)
  BY <1>1, <1>3, Listening DEF Mode, Place, Situation
<1>5. PICK pc, w : /\ core' = [core EXCEPT !.pc = pc] /\ down' = Append(down, w)
                   /\ \/ At("openingForError") /\ pc = "tell" /\ w = "errorGreet"
                      \/ At("openingForShutdown") /\ pc = "confirm" /\ w = "confShutdown"
                      \/ At("opening") /\ pc = "wait" /\ w = "greet"
                      \/ At("opening") /\ pc = "wait" /\ w = "greetTimed" /\ Timed
                      \/ At("opening") /\ pc = "prepare" /\ w = "choose"
  BY DEF GreeterOpened, Greet, LetChoose, At
<1>6. /\ core'.phase = core.phase /\ core'.conv = core.conv /\ core'.nopass = core.nopass
      /\ core'.pass = core.pass
      /\ core'.root = core.root /\ core'.caller = core.caller /\ core'.verified = core.verified
      /\ core'.say = core.say /\ core'.then = core.then
      /\ core'.pc = pc
  BY <1>5 DEF Situation, CoreTyped, Cores, CoresWith
<1>7. CoreOK'
  <2>1. CASE At("openingForError")
    <3>1. pc = "tell"
      BY <1>5, <2>1 DEF At
    <3> QED
      BY <1>2, <1>6, <2>1, <3>1, NamesFrame DEF Situation, CoreOK, Starting, Verifying, At
  <2>2. CASE ~At("openingForError")
    <3>1. ~Verifying /\ ~At("ended") /\ ~Starting
      BY <1>5, <2>2 DEF Verifying, Starting, At
    <3>2. ~Verifying' /\ ~Starting'
      BY <1>5, <1>6, <2>2 DEF Verifying, Starting, At
    <3> QED
      BY <1>5, <1>6, <2>2, <3>1, <3>2 DEF Situation, CoreOK, Starting, Verifying, At
  <2> QED
    BY <2>1, <2>2
<1>8. w \in Hears(conf, m.in) /\ w \in Words
  BY <1>4, <1>5 DEF Hears, Words, Timed
<1>9. Fits(Then(m, w))'
  <2>1. CASE At("openingForError")
    BY <1>4, <1>5, <1>6, <2>1 DEF Situation, CoreOK, Starting, Verifying, Company, Fits, Then, Goes,
       Turn, At, Quiet
  <2>2. CASE ~At("openingForError")
    BY <1>4, <1>5, <1>6, <2>2 DEF Fits, Then, Goes, Turn, At, Quiet
  <2> QED
    BY <2>1, <2>2
<1> QED
  BY <1>2, <1>3, <1>4, <1>5, <1>7, <1>8, <1>9, Says DEF Talks, Situation

\* The greeter has gone, and nothing it has sent is left.
LEMMA LostIsGone ==
  ASSUME Situation, gpc = "gone", up = <<>>
  PROVE  down = <<>> /\ core.pc \in {"ended", "wait", "confirm", "answer", "closing"}
<1>1. CASE Downward
  <2>1. PICK e \in Modes : Run(conf, Mode, down, e) /\ Fits(e)
    BY <1>1 DEF Downward
  <2>2. e.in = "gone"
    BY <1>1, <2>1, NoneSilent DEF Situation, Downward
  <2>3. FALSE
    BY <2>1, <2>2 DEF Fits, Company
  <2> QED
    BY <2>3
<1>2. CASE Upward
  BY <1>2, CommandsFollow DEF Upward
<1>3. CASE Gone
  BY <1>3 DEF Gone, At
<1> QED
  BY <1>1, <1>2, <1>3 DEF Situation, Talks, Crossing

\* core after a greeter, or the session, without a greeter.
LEMMA GreeterIsNone ==
  ASSUME Situation, down' = <<>>, up' = <<>>, gpc' = "none", UNCHANGED <<conf, login, over>>,
         core' \in {[core EXCEPT !.pc = pc] : pc \in {"open", "session", "ended"}},
         (~Verifying /\ ~At("ended")) \/ core' = [core EXCEPT !.pc = "ended"]
  PROVE  CoreOK' /\ Talks'
<1>1. PICK pc \in {"open", "session", "ended"} : core' = [core EXCEPT !.pc = pc]
  OBVIOUS
<1>2. /\ core'.phase = core.phase /\ core'.conv = core.conv /\ core'.nopass = core.nopass
      /\ core'.pass = core.pass
      /\ core'.root = core.root /\ core'.pc = pc
  BY <1>1 DEF Situation, CoreTyped, Cores, CoresWith
<1>3. CoreOK'
  <2>1. ~Verifying' /\ ~Starting'
    BY <1>2 DEF Verifying, Starting, At
  <2>2. CASE pc = "ended"
    BY <1>2, <2>1, <2>2 DEF CoreOK, At
  <2>3. CASE pc # "ended"
    <3>1. ~Verifying /\ ~At("ended")
      BY <1>2, <2>3 DEF Situation, CoreTyped, Cores, CoresWith
    <3> QED
      BY <1>2, <2>1, <3>1 DEF Situation, CoreOK, At
  <2> QED
    BY <2>2, <2>3
<1>4. Mode' = [in |-> "none", turn |-> "core"] /\ Mode' \in Modes
  BY DEF Mode, Place, Modes, Places, Turns
<1>5. Run(conf', Mode', down', Mode') /\ down' \in Seq(Words)
  BY <1>4, RunEmpty
<1>6. PICK m \in Modes : m = Mode'
  BY <1>4
<1>7. CASE pc = "ended"
  BY <1>2, <1>3, <1>7 DEF Talks, Gone, At
<1>8. CASE pc # "ended"
  <2>1. Fits(m)'
    BY <1>1, <1>2, <1>4, <1>6, <1>8 DEF Fits, At
  <2> QED
    BY <1>3, <1>5, <1>6, <2>1 DEF Talks, Downward
<1> QED
  BY <1>7, <1>8

LEMMA DoesGreeterClosed == ASSUME Situation, GreeterClosed PROVE CoreOK' /\ Talks'
<1>1. /\ At("closing") /\ gpc = "gone" /\ gpc' = "none"
      /\ UNCHANGED <<conf, up, down, login, over>>
      /\ core' \in {[core EXCEPT !.pc = pc] : pc \in {"open", "session", "ended"}}
  BY DEF GreeterClosed, Begins
<1>2. up = <<>> /\ down = <<>>
  <2>1. ~Upward /\ ~Crossing
    BY <1>1 DEF Upward, Crossing, At
  <2>2. CASE Downward
    BY <1>1, <2>2, LostIsGone, NoneSilent DEF Downward, Situation, Fits, At
  <2>3. CASE Gone
    BY <2>3 DEF Gone
  <2> QED
    BY <2>1, <2>2, <2>3 DEF Situation, Talks
<1>3. ~Verifying /\ ~At("ended")
  BY <1>1 DEF Verifying, At
<1> QED
  BY <1>1, <1>2, <1>3, GreeterIsNone

\* core without a greeter, in the session or between two greeters.
LEMMA SessionAlone ==
  ASSUME Situation, At("session")
  PROVE  gpc = "none" /\ up = <<>> /\ down = <<>>
<1>1. PICK e \in Modes : Run(conf, Mode, down, e) /\ Fits(e) /\ up = <<>> /\ down \in Seq(Words)
  BY CoreSpeaks DEF Situation, At
<1>2. e.in = "none"
  BY <1>1 DEF Fits, At
<1>3. Mode \in Modes /\ e.in \in From(Mode.in)
  BY <1>1, ModeTyped, RunReaches DEF Situation
<1>4. Mode.in = "none"
  BY <1>2, <1>3 DEF From, Modes, Places
<1>5. gpc = "none"
  BY <1>4 DEF Mode, Place
<1> QED
  BY <1>1, <1>5, NoneSilent DEF Situation

LEMMA DoesSessionEnds == ASSUME Situation, SessionEnds PROVE CoreOK' /\ Talks'
<1>1. At("session") /\ UNCHANGED <<conf, login, over>>
  BY DEF SessionEnds
<1>2. gpc = "none" /\ up = <<>> /\ down = <<>>
  BY <1>1, SessionAlone
<1>3. CASE core' = [core EXCEPT !.pc = "ended"] /\ UNCHANGED <<up, down, gpc>>
  BY <1>1, <1>2, <1>3, GreeterIsNone
<1>4. CASE /\ core' = [core EXCEPT !.pc = "openingForShutdown"]
           /\ gpc' = "boot" /\ up' = <<>> /\ down' = <<>>
  <2>1. Mode' = [in |-> "boot", turn |-> "core"] /\ Mode' \in Modes
    BY <1>4 DEF Mode, Place, Modes, Places, Turns
  <2>2. Run(conf', Mode', down', Mode') /\ down' \in Seq(Words)
    BY <1>4, <2>1, RunEmpty
  <2>3. /\ core'.phase = core.phase /\ core'.conv = core.conv /\ core'.nopass = core.nopass
        /\ core'.pass = core.pass
        /\ core'.root = core.root /\ core'.pc = "openingForShutdown"
    BY <1>4 DEF Situation, CoreTyped, Cores, CoresWith
  <2>4. CoreOK'
    BY <1>1, <2>3 DEF Situation, CoreOK, Starting, Verifying, At
  <2>5. PICK m \in Modes : m = Mode'
    BY <2>1
  <2>6. Fits(m)'
    BY <2>1, <2>3, <2>5 DEF Fits, At
  <2> QED
    BY <1>4, <2>2, <2>4, <2>5, <2>6 DEF Talks, Downward
<1> QED
  BY <1>3, <1>4 DEF SessionEnds

LEMMA DoesGreeterLost == ASSUME Situation, GreeterLost PROVE CoreOK' /\ Talks'
<1>1. /\ gpc = "gone" /\ up = <<>> /\ gpc' = "none"
      /\ UNCHANGED <<conf, up, down, login, over>>
      /\ \/ core' = [core EXCEPT !.pc = "ended"]
         \/ core' = [core EXCEPT !.pc = "open"] /\ (At("wait") \/ At("prepare"))
  BY DEF GreeterLost
<1>2. down = <<>>
  BY <1>1, LostIsGone
<1>3. At("wait") \/ At("prepare") => ~Verifying /\ ~At("ended")
  BY DEF Verifying, At
<1> QED
  BY <1>1, <1>2, <1>3, GreeterIsNone

LEMMA DoesAcknowledged == ASSUME Situation, Acknowledged PROVE CoreOK' /\ Talks'
<1>1. /\ At("ack") /\ up # <<>> /\ Head(up) = "ack" /\ up' = Tail(up)
      /\ UNCHANGED <<conf, gpc, login, over>>
  BY DEF Acknowledged, greeterVars
<1>2. down = <<>> /\ up = <<"ack">> /\ gpc # "none" /\ Mode.turn = "core" /\ Company(Place)
  BY <1>1 DEF Situation, Talks, Downward, Upward, Crossing, Gone, At
<1>3. up' = <<>>
  BY <1>1, <1>2
<1>4. PICK m \in Modes : m = Mode /\ Run(conf, Mode, down, m)
  BY <1>2, Listening DEF Situation
<1>5. m.turn = "core" /\ Company(m.in) /\ m.in # "none" /\ down \in Seq(Words)
  BY <1>2, <1>4, Listening DEF Mode, Place, Situation
<1>6. CASE core.then = "fail"
  <2>1. Verifying /\ core.phase # "change" /\ Fails(<<"fail">>)
    BY <1>1, <1>6 DEF Situation, CoreOK, Verifying, Starting, At, Acknowledged
  <2>2. CoreOK' /\ "fail" \in Hears(conf, m.in) /\ Fits(Then(m, "fail"))'
    BY <1>1, <1>5, <2>1, FailsFits DEF Situation
  <2>3. down' = Append(down, "fail")
    BY <1>2, <2>1 DEF Fails, Returns
  <2> QED
    BY <1>1, <1>3, <1>4, <1>5, <2>2, <2>3, Says DEF Talks, Situation, Words
<1>7. CASE core.then # "fail"
  <2>1. core' = [core EXCEPT !.pc = core.then] /\ UNCHANGED down
    BY <1>7 DEF Acknowledged
  <2>2. core.then \in {"pam", "account", "client"}
    BY <1>1, <1>7 DEF Situation, CoreOK, At
  <2>3. /\ core'.pc = core.then /\ core'.then = core.then /\ core'.phase = core.phase
        /\ core'.conv = core.conv /\ core'.root = core.root /\ core'.caller = core.caller
        /\ core'.nopass = core.nopass /\ core'.pass = core.pass /\ core'.verified = core.verified
    BY <2>1 DEF Situation, CoreTyped, Cores, CoresWith
  <2>4. CoreOK'
    BY <1>1, <2>2, <2>3, NamesFrame DEF Situation, CoreOK, Starting, Verifying, At
  <2>5. Fits(m)'
    BY <1>1, <1>5, <2>2, <2>3, NamesFrame DEF Starting, Company, Fits, At
  <2> QED
    BY <1>1, <1>3, <1>4, <1>5, <2>1, <2>4, <2>5, Silent DEF Talks
<1> QED
  BY <1>6, <1>7

\* The commands c are carried out when core has returned to its caller.
LEMMA CallerIsCommanded ==
  ASSUME Situation, NEW c \in Commandings, Commanded(c), core.pc \in {"wait", "confirm", "answer"},
         At("answer") \/ core'.verified = core.verified,
         core'.pc = CoreCaller, up' = c, UNCHANGED <<conf, gpc, login, over>>,
         down = <<>>, down' = <<>>
  PROVE  Talks'
<1>1. core'.pc \in {"wait", "confirm"} /\ CoreCaller' = CoreCaller
  BY DEF CoreCaller, At
<1>2. CASE c = <<>>
  <2>1. PICK m \in Modes : m = Mode /\ Run(conf, Mode, down, m)
    BY Listening DEF Situation
  <2>2. /\ Mode.turn = "idle"
        /\ \/ CoreCaller = "wait" /\ login # NoTalker
           \/ CoreCaller = "confirm" /\ login = NoTalker
    BY <1>2 DEF Commanded
  <2>3. gpc = "dialog" /\ Place \in {"login", "shutdown"}
        /\ (login = NoTalker => Place = "shutdown")
    BY <2>2 DEF Mode, Place, AutoLogsIn, Top, Situation, GreeterTyped, Gpcs, TalkersOK, Talkers
  <2>4. m.in \in {"login", "shutdown"} /\ (login = NoTalker => m.in = "shutdown") /\ m.turn = "idle"
    BY <2>1, <2>2, <2>3 DEF Mode
  <2>5. Fits(m)'
    BY <1>1, <2>2, <2>4, NamesFrame DEF Fits, At
  <2> QED
    BY <1>2, <2>1, <2>5, Silent, Listening DEF Talks, Situation
<1>3. CASE c # <<>>
  <2>1. /\ NoTalker' = NoTalker /\ Plugin' = Plugin /\ Mode' = Mode /\ Place' = Place
        /\ gpc' = gpc /\ login' = login
    BY NamesFrame, ModeFrame
  <2>2. gpc = "final" /\ core.verified = "user" /\ At("wait") =>
          (gpc = "final" /\ core.verified = "user" /\ At("wait"))'
    BY <1>1, <2>1 DEF At, CoreCaller
  <2>4. Commanded(c)'
    BY <1>1, <1>3, <2>1, <2>2 DEF Commanded
  <2> QED
    BY <1>1, <1>3, <2>4 DEF Talks, Upward
<1> QED
  BY <1>2, <1>3

LEMMA DoesAnswered == ASSUME Situation, Answered PROVE CoreOK' /\ Talks'
<1>1. /\ At("answer") /\ up # <<>> /\ Head(up) \in {"text", "null"} /\ up' = Tail(up)
      /\ UNCHANGED <<conf, gpc, login, over>>
  BY DEF Answered, greeterVars
<1>2. /\ down = <<>>
      /\ \/ /\ core.ask # "noDelay"
            /\ \E c \in Commandings : Commanded(c) /\ up = <<"null">> \o c
         \/ up = <<"text">> /\ gpc = "dialog" /\ Mode.turn = "core" /\ Company(Place)
  BY <1>1 DEF Situation, Talks, Downward, Upward, Crossing, Gone, At
<1>3. CASE core.ask # "noDelay" /\ \E c \in Commandings : Commanded(c) /\ up = <<"null">> \o c
  <2>1. PICK c \in Commandings : Commanded(c) /\ up = <<"null">> \o c
    BY <1>3
  <2>2. Head(up) = "null" /\ up' = c
    BY <1>1, <2>1, CommandsFollow
  <2>3. Returns(<<>>, FALSE)
    <3>1. PICK null \in BOOLEAN : null = (Head(up) = "null")
      OBVIOUS
    <3> QED
      BY <1>3, <2>2, <3>1 DEF Answered
  <2>4. down' = <<>>
    BY <1>2, <2>3 DEF Returns
  <2>5. /\ core'.pc = IF core.caller # "session" THEN core.caller ELSE "wait"
        /\ core'.phase = "login" /\ core'.conv = "greeter" /\ core'.nopass = FALSE
        /\ core'.root = FALSE
    BY <2>3, ReturnsFields DEF Situation
  <2>6. core'.pc = CoreCaller /\ core'.pc \in {"wait", "confirm"}
    BY <1>1, <2>5 DEF CoreCaller, At, Situation, CoreTyped, Cores, CoresWith, Callers
  <2>7. CoreOK'
    BY <2>5, <2>6 DEF CoreOK, Starting, Verifying, At
  <2> QED
    BY <1>1, <1>2, <2>1, <2>2, <2>4, <2>6, <2>7, CallerIsCommanded DEF At
<1>4. CASE up = <<"text">> /\ gpc = "dialog" /\ Mode.turn = "core" /\ Company(Place)
  <2>1. Head(up) = "text" /\ up' = <<>>
    BY <1>1, <1>4
  <2>2. PICK m \in Modes : m = Mode /\ Run(conf, Mode, down, m)
    BY <1>2, Listening DEF Situation
  <2>3. m.turn = "core" /\ Company(m.in) /\ m.in \notin {"none", "fail"} /\ down \in Seq(Words)
    BY <1>2, <1>4, <2>2, Listening DEF Mode, Place, Situation
  <2>4. CASE core' = [core EXCEPT !.pc = "answer", !.ask = "noDelay"]
             /\ down' = Append(down, "getNow") /\ core.ask = "user"
    <3>1. /\ core'.pc = "answer" /\ core'.ask = "noDelay" /\ core'.phase = core.phase
          /\ core'.conv = core.conv /\ core'.root = core.root /\ core'.caller = core.caller
          /\ core'.nopass = core.nopass /\ core'.pass = core.pass
      BY <2>4 DEF Situation, CoreTyped, Cores, CoresWith
    <3>2. CoreOK'
      BY <1>1, <2>4, <3>1, NamesFrame DEF Situation, CoreOK, Starting, Verifying, At
    <3>3. "getNow" \in Hears(conf, m.in) /\ "getNow" \in Words
      BY <1>1, <2>3, <2>4 DEF Situation, CoreOK, Company, Starting, At, Hears, Words, Plugin
    <3>4. Fits(Then(m, "getNow"))'
      BY <1>1, <2>3, <2>4, <3>1, NamesFrame
         DEF Starting, Company, Fits, Then, Goes, Turn, At, Quiet, Situation, CoreOK
    <3> QED
      BY <1>1, <2>1, <2>2, <2>3, <2>4, <3>2, <3>3, <3>4, Says DEF Talks, Situation
  <2>5. ASSUME NEW pass, NEW nopass, UNCHANGED down,
               core' = [core EXCEPT !.pc = "pam", !.pass = pass, !.nopass = nopass],
               nopass = core.nopass \/ core.ask = "noDelay",
               core.pass => pass
        PROVE  CoreOK' /\ Talks'
    <3>1. /\ core'.pc = "pam" /\ core'.phase = core.phase
          /\ core'.conv = core.conv /\ core'.root = core.root /\ core'.caller = core.caller
          /\ core'.nopass = nopass /\ core'.pass = pass
      BY <2>5 DEF Situation, CoreTyped, Cores, CoresWith
    <3>2. CoreOK'
      BY <1>1, <2>5, <3>1, NamesFrame DEF Situation, CoreOK, Starting, Verifying, At
    <3>3. Fits(m)'
      BY <1>1, <2>3, <3>1, NamesFrame DEF Starting, Company, Fits, At
    <3> QED
      BY <1>1, <2>1, <2>2, <2>3, <2>5, <3>2, <3>3, Silent DEF Talks
  <2>6. CASE core.ask = "user"
    <3>1. \/ core' = [core EXCEPT !.pc = "pam"] /\ UNCHANGED down
          \/ Asks("noDelay", "getNow")
      BY <2>1, <2>6 DEF Answered
    <3>2. CASE core' = [core EXCEPT !.pc = "pam"] /\ UNCHANGED down
      <4>1. core' = [core EXCEPT !.pc = "pam", !.pass = core.pass, !.nopass = core.nopass]
        BY <3>2 DEF Situation, CoreTyped, Cores, CoresWith
      <4> QED
        BY <3>2, <4>1, <2>5
    <3> QED
      BY <2>4, <2>6, <3>1, <3>2 DEF Asks
  <2>7. CASE core.ask = "noDelay"
    <3>1. PICK np : core' = [core EXCEPT !.pc = "pam", !.pass = TRUE, !.nopass = np] /\ UNCHANGED down
      BY <2>1, <2>7 DEF Answered
    <3> QED
      BY <2>5, <2>7, <3>1
  <2>8. CASE core.ask \in {"pass", "other"}
    <3>1. core' = [core EXCEPT !.pc = "pam", !.pass = (core.pass \/ core.ask = "pass")]
          /\ UNCHANGED down
      BY <2>1, <2>8 DEF Answered
    <3>2. core' = [core EXCEPT !.pc = "pam", !.pass = (core.pass \/ core.ask = "pass"),
                               !.nopass = core.nopass]
      BY <3>1 DEF Situation, CoreTyped, Cores, CoresWith
    <3> QED
      BY <2>5, <3>1, <3>2
  <2> QED
    BY <2>6, <2>7, <2>8 DEF Situation, CoreTyped, Cores, CoresWith, CoreAsks
<1> QED
  BY <1>2, <1>3, <1>4

\* core begins to verify what the greeter asks for; e is the mode of the greeter when it
\* has read everything.
LEMMA CoreVerifies ==
  ASSUME Situation, core.pc \in {"wait", "confirm"}, NEW e \in Modes, Run(conf, Mode, down, e),
         down \in Seq(Words), e.turn = "core", up' = <<>>, UNCHANGED <<conf, gpc, login, over>>,
         NEW root \in BOOLEAN, NEW conv \in {"auto", "greeter"},
         \/ /\ e.in \in {"login", "auto"} /\ At("wait") /\ login # NoTalker /\ ~root
            /\ e.in = "auto" => conv = "auto"
         \/ e.in = "shutdown" /\ root /\ (At("confirm") <=> login = NoTalker),
         core'.caller = core.pc, core'.root = root, core'.conv = conv,
         core'.phase = core.phase, core'.nopass = core.nopass,
         conv = "auto" => Plugin = "classic" /\ ~root /\ core'.pass,
         \/ /\ core'.pc = "answer" /\ core'.ask = "user" /\ Plugin = "classic" /\ conv = "greeter"
            /\ down' = Append(down, "getUser")
         \/ core'.pc = "pam" /\ UNCHANGED down
  PROVE  CoreOK' /\ Talks'
<1>1. core.phase = "login" /\ ~core.nopass
  BY DEF Situation, CoreOK, Verifying, At
<1>2. Verifying' /\ ~Starting'
  BY DEF Verifying, Starting, At
<1>3. core.pc = "confirm" => root
  BY DEF At
<1>4. CoreOK'
  BY <1>1, <1>2, <1>3, NamesFrame DEF CoreOK, At
<1>5. Company(e.in)'
  BY <1>1, <1>2, NamesFrame DEF Company, At
<1>6. CASE core'.pc = "answer"
  <2>1. "getUser" \in Hears(conf, e.in) /\ "getUser" \in Words
    BY <1>6 DEF Hears, Words
  <2>2. Then(e, "getUser") = [in |-> e.in, turn |-> "prompt"]
    BY DEF Then, Goes, Turn, Quiet
  <2>3. Fits(Then(e, "getUser"))'
    BY <1>5, <1>6, <2>2 DEF Fits, At
  <2> QED
    BY <1>4, <1>6, <2>1, <2>3, Says DEF Talks, Situation
<1>7. CASE core'.pc = "pam"
  <2>1. Fits(e)'
    BY <1>5, <1>7 DEF Fits, At
  <2> QED
    BY <1>4, <1>7, <2>1, Silent DEF Talks
<1> QED
  BY <1>6, <1>7

\* The command of the greeter, when core has it.
LEMMA VerifyCommand ==
  ASSUME Situation, core.pc \in {"wait", "confirm"}, NEW e \in Modes, Run(conf, Mode, down, e),
         down \in Seq(Words), e.turn = "core", GreeterCommand, up' = <<>>,
         Head(up) \in {"verify", "verifyRoot", "autoLogin"},
         Head(up) = "autoLogin" => Plugin = "classic",
         \/ /\ e.in \in {"login", "auto"} /\ At("wait") /\ login # NoTalker
            /\ Head(up) # "verifyRoot" /\ (e.in = "auto" => Head(up) = "autoLogin")
         \/ e.in = "shutdown" /\ Head(up) = "verifyRoot" /\ (At("confirm") <=> login = NoTalker)
  PROVE  CoreOK' /\ Talks'
<1>1. UNCHANGED <<conf, gpc, login, over>>
  BY DEF GreeterCommand, greeterVars
<1>2. PICK cmd \in {"verify", "verifyRoot", "autoLogin"} : cmd = Head(up)
  OBVIOUS
<1>3. PICK root \in BOOLEAN : root = (cmd = "verifyRoot")
  OBVIOUS
<1> DEFINE v == [core EXCEPT !.verified = "no", !.caller = core.pc, !.root = root]
<1>4. \/ /\ cmd # "autoLogin" /\ Plugin = "classic"
         /\ core' = [v EXCEPT !.pc = "answer", !.ask = "user"] /\ down' = Append(down, "getUser")
      \/ cmd # "autoLogin" /\ core' = [v EXCEPT !.pc = "pam"] /\ UNCHANGED down
      \/ cmd = "autoLogin" /\ UNCHANGED down
         /\ core' = [v EXCEPT !.pc = "pam", !.conv = "auto", !.pass = TRUE]
  BY <1>2, <1>3 DEF GreeterCommand
<1>5. /\ v \in Cores /\ v.caller = core.pc /\ v.root = root /\ v.conv = "greeter"
      /\ v.phase = core.phase /\ v.nopass = core.nopass
  <2>1. core \in Cores /\ core.pc \in Callers
    BY DEF Situation, CoreTyped, Callers
  <2>2. core.conv = "greeter"
    BY DEF Situation, CoreOK, Verifying, At
  <2>3. "no" \in Verdicts
    BY DEF Verdicts
  <2> QED
    BY <2>1, <2>2, <2>3 DEF Cores, CoresWith
<1> HIDE DEF v
<1>6. core'.caller = core.pc /\ core'.root = root /\ core'.phase = core.phase
      /\ core'.nopass = core.nopass
      /\ core'.conv = (IF cmd = "autoLogin" THEN "auto" ELSE "greeter")
      /\ (cmd = "autoLogin" => core'.pass)
  BY <1>4, <1>5 DEF Cores, CoresWith
<1>7. \/ /\ core'.pc = "answer" /\ core'.ask = "user" /\ Plugin = "classic" /\ cmd # "autoLogin"
         /\ down' = Append(down, "getUser")
      \/ core'.pc = "pam" /\ UNCHANGED down
  BY <1>4, <1>5 DEF Cores, CoresWith
<1>8. PICK conv \in {"auto", "greeter"} : conv = IF cmd = "autoLogin" THEN "auto" ELSE "greeter"
  OBVIOUS
<1>9. conv = "auto" => Plugin = "classic" /\ ~root /\ core'.pass
  BY <1>2, <1>3, <1>6, <1>8
<1>10. \/ /\ e.in \in {"login", "auto"} /\ At("wait") /\ login # NoTalker /\ ~root
          /\ e.in = "auto" => conv = "auto"
       \/ e.in = "shutdown" /\ root /\ (At("confirm") <=> login = NoTalker)
  BY <1>2, <1>3, <1>8
<1>11. core'.caller = core.pc /\ core'.root = root /\ core'.phase = core.phase
       /\ core'.nopass = core.nopass /\ core'.conv = conv
  BY <1>6, <1>8
<1>12. \/ /\ core'.pc = "answer" /\ core'.ask = "user" /\ Plugin = "classic" /\ conv = "greeter"
          /\ down' = Append(down, "getUser")
       \/ core'.pc = "pam" /\ UNCHANGED down
  BY <1>7, <1>8
<1> QED
  BY <1>1, <1>9, <1>10, <1>11, <1>12, CoreVerifies

LEMMA DoesGreeterCommand == ASSUME Situation, GreeterCommand PROVE CoreOK' /\ Talks'
<1>1. /\ core.pc \in {"wait", "confirm"} /\ up # <<>> /\ up' = Tail(up)
      /\ UNCHANGED <<conf, gpc, login, over>>
  BY DEF GreeterCommand, greeterVars, At
<1>2. Mode \in Modes
  BY ModeTyped DEF Situation
<1>3. UNCHANGED core => CoreOK'
  BY <1>1, NamesFrame DEF Situation, CoreOK, Starting, Verifying, At
<1>4. CASE down = <<>> /\ \E c \in Commandings : Commanded(c) /\ At("wait") /\ up = <<"interact">> \o c
  <2>1. PICK c \in Commandings : Commanded(c) /\ up = <<"interact">> \o c
    BY <1>4
  <2>2. Head(up) = "interact" /\ up' = c
    BY <1>1, <2>1, CommandsFollow
  <2>3. UNCHANGED <<core, down>>
    BY <2>2 DEF GreeterCommand
  <2> QED
    BY <1>1, <1>3, <1>4, <2>1, <2>2, <2>3, CallerIsCommanded DEF At, CoreCaller
<1>5. CASE Crossing
  <2>1. At("wait") /\ up = <<"verify">> /\ down = <<"status">> /\ Place = "statusBusy"
    BY <1>5 DEF Crossing
  <2>2. login # NoTalker /\ gpc # "dialog"
    <3>1. gpc = "onlyStatus" /\ login.state = "busy"
      BY <2>1 DEF Place, Situation, GreeterTyped, Gpcs
    <3> QED
      BY <3>1 DEF NoTalker, NewTalker
  <2>3. PICK m \in Modes : m = Mode /\ m = [in |-> "statusBusy", turn |-> "core"]
    BY <1>2, <2>1, <2>2 DEF Mode
  <2>4. Run(conf, Mode, <<>>, m)
    BY <1>2, <2>3, RunEmpty
  <2>5. "status" \in Hears(conf, m.in) /\ <<>> \in Seq(Words) /\ "status" \in Words
    BY <2>3 DEF Hears, Words
  <2>6. /\ Run(conf, Mode, Append(<<>>, "status"), Then(m, "status")) /\ Then(m, "status") \in Modes
    BY <1>2, <2>3, <2>4, <2>5, RunAppend, ThenInModes
  <2>7. Append(<<>>, "status") = down /\ down \in Seq(Words)
    BY <2>1, <2>5
  <2>8. Then(m, "status").in = "login" /\ Then(m, "status").turn = "core"
    BY <2>3 DEF Then, Goes, Turn, Quiet
  <2>9. Head(up) = "verify" /\ up' = <<>>
    BY <1>1, <2>1
  <2> QED
    BY <1>1, <2>1, <2>2, <2>6, <2>7, <2>8, <2>9, VerifyCommand
<1>6. CASE down = <<>> /\ \E c \in Commandings : Commanded(c) /\ up = c
  <2>0. PICK c \in Commandings : Commanded(c) /\ up = c /\ c # <<>>
    BY <1>1, <1>6
  <2>1. PICK m \in Modes : m = Mode /\ Run(conf, Mode, down, m) /\ down \in Seq(Words)
    BY <1>6, Listening DEF Situation
  <2>2. CoreCaller = core.pc
    BY <1>1 DEF CoreCaller, At
  <2>3. ASSUME NEW w \in {"verify", "verifyRoot", "autoLogin"}, c = <<w>>
        PROVE  CoreOK' /\ Talks'
    <3>1. Head(up) = w /\ up' = <<>>
      BY <1>1, <2>0, <2>3
    <3>2. CASE w = "verifyRoot"
      <4>1. m.in = "shutdown" /\ m.turn = "core" /\ (At("confirm") <=> login = NoTalker)
        BY <1>1, <2>0, <2>1, <2>2, <2>3, <3>2 DEF Commanded, At
      <4> QED
        BY <1>1, <2>1, <3>1, <3>2, <4>1, VerifyCommand
    <3>3. CASE w # "verifyRoot"
      <4>1. /\ m.in \in {"login", "auto"} /\ m.turn = "core" /\ At("wait")
            /\ w = "autoLogin" => Plugin = "classic"
            /\ m.in = "auto" => w = "autoLogin"
        BY <1>1, <2>0, <2>1, <2>2, <2>3, <3>3 DEF Commanded, At
      <4>2. gpc = "dialog" /\ over.ctx = "login"
        BY <2>1, <4>1 DEF Mode, Place, Situation, GreeterTyped, Gpcs
      <4>3. login # NoTalker
        BY <4>2 DEF Situation, TalkersOK
      <4> QED
        BY <1>1, <2>1, <3>1, <3>3, <4>1, <4>3, VerifyCommand
    <3> QED
      BY <3>2, <3>3
  <2>4. CASE c = <<"readDmrc">> \/ c = <<"getDmrc">>
    <3>1. PICK w \in {"status", "value"} :
            /\ down' = <<w>> /\ up' = <<>> /\ UNCHANGED core
            /\ w = "status" => Place \in {"status", "onlyStatus"}
            /\ w = "value" => Place = "value"
            /\ At("wait")
      <4>1. CASE c = <<"readDmrc">>
        <5>1. Head(up) = "readDmrc" /\ up' = <<>>
          BY <1>1, <2>0, <4>1
        <5>2. Place \in {"status", "onlyStatus"} /\ At("wait")
          BY <2>0, <2>2, <4>1 DEF Commanded, At
        <5>3. down' = Append(down, "status") /\ UNCHANGED core
          BY <5>1 DEF GreeterCommand
        <5> QED
          BY <1>6, <5>1, <5>2, <5>3
      <4>2. CASE c = <<"getDmrc">>
        <5>1. Head(up) = "getDmrc" /\ up' = <<>>
          BY <1>1, <2>0, <4>2
        <5>2. Place = "value" /\ At("wait")
          BY <2>0, <2>2, <4>2 DEF Commanded, At, Place
        <5>3. down' = Append(down, "value") /\ UNCHANGED core
          BY <5>1 DEF GreeterCommand
        <5> QED
          BY <1>6, <5>1, <5>2, <5>3
      <4> QED
        BY <2>4, <4>1, <4>2
    <3>2. m.in = Place /\ m.turn = "core"
      BY <2>1, <3>1 DEF Mode, Place
    <3>3. w \in Hears(conf, m.in) /\ w \in Words /\ down' = Append(down, w)
      BY <1>6, <3>1, <3>2 DEF Hears, Words
    <3>4. Fits(Then(m, w))'
      BY <3>1, <3>2 DEF Fits, Then, Goes, Turn, Quiet, At
    <3> QED
      BY <1>1, <1>3, <2>1, <3>1, <3>2, <3>3, <3>4, Says DEF Talks, Situation
  <2>5. CASE c = <<"readDmrc", "verify">>
    <3>1. Head(up) = "readDmrc" /\ up' = <<"verify">>
      BY <1>1, <2>0, <2>5
    <3>2. Place = "statusBusy" /\ At("wait")
      BY <2>0, <2>2, <2>5 DEF Commanded, At
    <3>3. down' = Append(down, "status") /\ UNCHANGED core
      BY <3>1 DEF GreeterCommand
    <3>4. down' = <<"status">>
      BY <1>6, <3>3
    <3> QED
      BY <1>1, <1>3, <3>1, <3>2, <3>3, <3>4, ModeFrame DEF Talks, Crossing, At
  <2>6. CASE c = <<"chooseHost">>
    <3>1. Head(up) = "chooseHost" /\ up' = <<>>
      BY <1>1, <2>0, <2>6
    <3>2. gpc = "command" /\ At("wait")
      BY <2>0, <2>2, <2>6 DEF Commanded, At
    <3>3. down' = Append(down, "choose") /\ core' = [core EXCEPT !.pc = "prepare"]
      BY <3>1 DEF GreeterCommand, LetChoose
    <3>4. /\ core'.phase = core.phase /\ core'.conv = core.conv /\ core'.nopass = core.nopass
          /\ core'.pass = core.pass
          /\ core'.root = core.root /\ core'.pc = "prepare"
      BY <3>3 DEF Situation, CoreTyped, Cores, CoresWith
    <3>5. CoreOK'
      BY <3>2, <3>4 DEF Situation, CoreOK, Starting, Verifying, At
    <3>6. m.in = "command" /\ m.turn = "core"
      BY <2>1, <3>2 DEF Mode, Place
    <3>7. "choose" \in Hears(conf, m.in) /\ "choose" \in Words
      BY <3>6 DEF Hears, Words
    <3>8. Fits(Then(m, "choose"))'
      BY <3>4, <3>6 DEF Fits, Then, Goes, Turn, Quiet, At
    <3> QED
      BY <1>1, <2>1, <3>1, <3>3, <3>5, <3>6, <3>7, <3>8, Says DEF Talks, Situation
  <2>7. CASE c = <<"putDmrc", "ready">>
    <3>1. Head(up) = "putDmrc" /\ up' = <<"ready">>
      BY <1>1, <2>0, <2>7
    <3>2. UNCHANGED <<core, down>>
      BY <3>1 DEF GreeterCommand
    <3>3. Commanded(<<"ready">>) /\ <<"ready">> \in Commandings
      BY <2>0, <2>7 DEF Commanded, Commandings
    <3> QED
      BY <1>1, <1>3, <1>6, <2>2, <3>1, <3>2, <3>3, CallerIsCommanded
  <2>8. CASE c = <<"ready">>
    <3>1. Head(up) = "ready" /\ up' = <<>>
      BY <1>1, <2>0, <2>8
    <3>2. core' = [core EXCEPT !.pc = IF At("wait") THEN "client" ELSE "ended"] /\ UNCHANGED down
      BY <3>1 DEF GreeterCommand
    <3>3. /\ core'.phase = core.phase /\ core'.conv = core.conv /\ core'.nopass = core.nopass
          /\ core'.pass = core.pass
          /\ core'.root = core.root /\ core'.verified = core.verified
          /\ core'.pc = IF At("wait") THEN "client" ELSE "ended"
      BY <3>2 DEF Situation, CoreTyped, Cores, CoresWith
    <3>4. CASE gpc = "final" /\ core.verified = "user" /\ At("wait")
      <4>1. CoreOK'
        BY <3>3, <3>4 DEF Situation, CoreOK, Starting, Verifying, At
      <4>2. m.in = "final" /\ m.turn = "core"
        BY <2>1, <3>4 DEF Mode, Place
      <4>3. Fits(m)'
        BY <3>3, <3>4, <4>2 DEF Fits, Company, Starting, At
      <4> QED
        BY <1>1, <2>1, <3>1, <3>2, <4>1, <4>3, Silent DEF Talks
    <3>5. CASE gpc = "gone" /\ At("confirm")
      <4>1. core'.pc = "ended"
        BY <3>3, <3>5 DEF At
      <4>2. CoreOK'
        BY <3>3, <4>1 DEF CoreOK, Starting, Verifying, At
      <4> QED
        BY <1>1, <1>6, <3>1, <3>2, <3>5, <4>1, <4>2 DEF Talks, Gone, At
    <3> QED
      BY <1>1, <2>0, <2>2, <2>8, <3>4, <3>5 DEF Commanded, At
  <2> QED
    BY <2>0, <2>3, <2>4, <2>5, <2>6, <2>7, <2>8 DEF Commandings
<1> QED
  <2>1. Downward \/ Gone => FALSE
    BY <1>1 DEF Downward, Gone
  <2>2. Upward => \/ down = <<>> /\ \E c \in Commandings : Commanded(c) /\ up = c
                  \/ down = <<>> /\ \E c \in Commandings : Commanded(c) /\ At("wait") /\ up = <<"interact">> \o c
    BY <1>1 DEF Upward, At
  <2> QED
    BY <1>4, <1>5, <1>6, <2>1, <2>2 DEF Situation, Talks

LEMMA CoreKeepsTalkers ==
  ASSUME TalkersOK, Core
  PROVE  TalkersOK'
<1>1. UNCHANGED <<conf, login, over>> /\ gpc' \in {gpc, "boot", "none"}
  BY DEF Core, CoreStep, CoreStart, OpenGreeter, GreeterOpened, GreeterCommand, GreeterClosed,
     GreeterLost, Tell, Acknowledged, Answered, PamAsks, Pam, Account, Client, SessionEnds,
     PamMessage, AccountMessage, ClientMessage, greeterVars
<1> QED
  BY <1>1, NamesFrame DEF TalkersOK, TalkerOK

\* core keeps the invariant.
LEMMA CoreKeeps ==
  ASSUME Situation, Core
  PROVE  TalkersOK' /\ CoreOK' /\ Talks'
<1>1. TalkersOK'
  BY CoreKeepsTalkers DEF Situation
<1>2. CASE CoreStep
  BY <1>2, DoesCoreStart, DoesOpenGreeter, DoesGreeterOpened, DoesGreeterCommand,
     DoesGreeterClosed, DoesGreeterLost, DoesTell, DoesAcknowledged, DoesAnswered, <1>1 DEF CoreStep
<1>3. CASE PamAsks \/ Pam \/ Account \/ Client \/ SessionEnds
  BY <1>1, <1>3, DoesPamAsks, DoesPam, DoesAccount, DoesClient, DoesSessionEnds
<1>4. CASE PamMessage \/ AccountMessage \/ ClientMessage
  BY <1>1, <1>4, DoesMessage
<1> QED
  BY <1>2, <1>3, <1>4 DEF Core

=============================================================================
