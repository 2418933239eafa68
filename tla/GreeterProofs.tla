--------------------------- MODULE GreeterProofs ----------------------------
(***************************************************************************)
(* The steps of the greeter, its timers and its users keep the invariant   *)
(* of DialogueProofs, so that it holds as long as no chooser is shown.     *)
(***************************************************************************)
EXTENDS DialogueProofs

-----------------------------------------------------------------------------
(* The steps of the greeter *)

\* core is left alone.
LEMMA CoreOKFrame == ASSUME CoreOK, UNCHANGED <<conf, core>> PROVE CoreOK'
BY NamesFrame DEF CoreOK, Starting, Verifying, At

LEMMA FieldsFrame ==
  ASSUME UNCHANGED <<conf, core>>
  PROVE  /\ NoTalker' = NoTalker /\ Plugin' = Plugin /\ Timed' = Timed
         /\ CoreCaller' = CoreCaller
         /\ \A pc : At(pc)' <=> At(pc)
BY NamesFrame DEF CoreCaller, At

\* What the greeter shows fits what core is in still if the login dialog is there as before.
LEMMA FitsFrame ==
  ASSUME UNCHANGED <<conf, core>>, (login = NoTalker) <=> (login' = NoTalker), NEW e, Fits(e)
  PROVE  Fits(e)'
BY NamesFrame DEF Fits, Company, Starting, At

LEMMA CompanyFrame ==
  ASSUME UNCHANGED <<conf, core>>, (login = NoTalker) <=> (login' = NoTalker), NEW place,
         Company(place)
  PROVE  Company(place)'
BY NamesFrame DEF Company, Starting, At

LEMMA DoesGreeterReady ==
  ASSUME Situation, GreeterReady
  PROVE  TalkersOK' /\ Talks'
<1>1. gpc = "boot" /\ gpc' = "command" /\ up' = Append(up, "ready")
      /\ UNCHANGED <<conf, core, down, login, over>>
  BY DEF GreeterReady, coreVars
<1>2. Mode = [in |-> "boot", turn |-> "core"] /\ Place = "boot"
  BY <1>1 DEF Mode, Place
<1>3. ~Upward /\ ~Crossing /\ ~Gone
  BY <1>1, <1>2 DEF Upward, Crossing, Gone, Commanded, Company
<1>4. PICK e \in Modes : Run(conf, Mode, down, e) /\ Fits(e) /\ up = <<>> /\ down \in Seq(Words)
  BY <1>3 DEF Situation, Talks, Downward
<1>5. down = <<>> /\ e.in = "boot"
  BY <1>1, <1>2, <1>4, NoneSilent DEF Situation
<1>6. core.pc \in {"opening", "openingForError", "openingForShutdown"}
  BY <1>4, <1>5 DEF Fits, Company
<1>7. up' = <<"ready">>
  BY <1>1, <1>4
<1>8. Talks'
  BY <1>1, <1>5, <1>6, <1>7 DEF Talks, Upward
<1>9. TalkersOK'
  BY <1>1, NamesFrame DEF Situation, TalkersOK, TalkerOK
<1> QED
  BY <1>8, <1>9

\* Talkers, and what the operators of the plugin make of one.
LEMMA NoTalkerIs ==
  /\ NoTalker.state = "none" /\ ~NoTalker.running /\ ~NoTalker.reads /\ ~NoTalker.failed
  /\ ~NoTalker.counting /\ NoTalker.asked = "no" /\ NoTalker.plugin = Plugin
  /\ NoTalker.ctx = "login"
BY DEF NoTalker, NewTalker

LEMMA NewTalkerIs ==
  /\ NewTalker.state = "idle" /\ ~NewTalker.running /\ ~NewTalker.reads /\ ~NewTalker.failed
  /\ ~NewTalker.counting /\ NewTalker.asked = "no" /\ NewTalker.plugin = Plugin
  /\ NewTalker.ctx = "login"
BY DEF NewTalker

Starts(t) == t.plugin = "generic" /\ t.state = "idle"

LEMMA PluginStartIs ==
  ASSUME NEW t \in Talkers, NEW out, NEW s, s = PluginStart([t |-> t, out |-> out])
  PROVE  /\ s.t \in Talkers
         /\ s.t.running = t.running /\ s.t.reads = t.reads /\ s.t.failed = t.failed
         /\ s.t.counting = t.counting /\ s.t.plugin = t.plugin /\ s.t.ctx = t.ctx
         /\ s.t.asked = "no"
         /\ s.t.state = IF Starts(t) THEN "busy" ELSE t.state
         /\ s.out = IF Starts(t)
                    THEN Append(out, IF t.ctx = "shutdown" THEN "verifyRoot" ELSE "verify")
                    ELSE out
<1> DEFINE u == [t EXCEPT !.asked = "no"]
<1>1. /\ u \in Talkers /\ u.state = t.state /\ u.plugin = t.plugin /\ u.ctx = t.ctx
      /\ u.running = t.running /\ u.reads = t.reads /\ u.failed = t.failed
      /\ u.counting = t.counting /\ u.asked = "no"
  BY TalkersAre
<1>2. s = IF u.plugin = "generic" THEN GplugStart([t |-> u, out |-> out]) ELSE [t |-> u, out |-> out]
  BY DEF PluginStart
<1> HIDE DEF u
<1>3. CASE Starts(t)
  <2>1. s = [t |-> [u EXCEPT !.state = "busy"],
             out |-> Append(out, IF u.ctx = "shutdown" THEN "verifyRoot" ELSE "verify")]
    BY <1>1, <1>2, <1>3 DEF GplugStart, Starts
  <2> QED
    BY <1>1, <1>3, <2>1, TalkersAre
<1>4. CASE ~Starts(t)
  <2>1. s = [t |-> u, out |-> out]
    BY <1>1, <1>2, <1>4 DEF GplugStart, Starts
  <2> QED
    BY <1>1, <1>4, <2>1
<1> QED
  BY <1>3, <1>4

LEMMA NullIs ==
  ASSUME NEW t \in Talkers, NEW out, NEW s, s = Returned([t |-> t, out |-> out], "null")
  PROVE  /\ s.t \in Talkers
         /\ s.t.running = t.running /\ s.t.reads = t.reads /\ s.t.failed = t.failed
         /\ s.t.counting = t.counting /\ s.t.plugin = t.plugin /\ s.t.ctx = t.ctx
         /\ s.t.asked = "no" /\ s.t.state = "idle" /\ s.out = Append(out, "null")
<1> DEFINE u == [t EXCEPT !.state = "idle", !.asked = "no"]
<1>1. /\ u \in Talkers /\ u.state = "idle" /\ u.asked = "no" /\ u.plugin = t.plugin
      /\ u.ctx = t.ctx /\ u.running = t.running /\ u.reads = t.reads
      /\ u.failed = t.failed /\ u.counting = t.counting
  BY TalkersAre
<1>2. s = [t |-> u, out |-> Append(out, "null")]
  BY DEF Returned
<1> HIDE DEF u
<1> QED
  BY <1>1, <1>2

LEMMA TextIs ==
  ASSUME NEW t \in Talkers, NEW out, NEW s, s = Returned([t |-> t, out |-> out], "text")
  PROVE  /\ s.t \in Talkers
         /\ s.t.running = t.running /\ s.t.reads = t.reads /\ s.t.failed = t.failed
         /\ s.t.counting = t.counting /\ s.t.plugin = t.plugin /\ s.t.ctx = t.ctx
         /\ s.t.asked = t.asked /\ s.t.state = "busy" /\ s.out = Append(out, "text")
<1> DEFINE u == [t EXCEPT !.state = "busy", !.asked = t.asked]
<1>1. /\ u \in Talkers /\ u.state = "busy" /\ u.asked = t.asked /\ u.plugin = t.plugin
      /\ u.ctx = t.ctx /\ u.running = t.running /\ u.reads = t.reads
      /\ u.failed = t.failed /\ u.counting = t.counting
  BY TalkersAre
<1>2. s = [t |-> u, out |-> Append(out, "text")]
  BY DEF Returned
<1> HIDE DEF u
<1> QED
  BY <1>1, <1>2

LEMMA PluginAbortIs ==
  ASSUME NEW t \in Talkers, NEW out, NEW s, s = PluginAbort([t |-> t, out |-> out])
  PROVE  /\ s.t \in Talkers
         /\ s.t.running = t.running /\ s.t.reads = t.reads /\ s.t.failed = t.failed
         /\ s.t.counting = t.counting /\ s.t.plugin = t.plugin /\ s.t.ctx = t.ctx
         /\ s.t.asked = "no"
         /\ s.t.state = IF t.asked = "no" THEN t.state ELSE "idle"
         /\ s.out = IF t.asked = "no" THEN out ELSE Append(out, "null")
<1>1. CASE t.asked = "no"
  BY <1>1 DEF PluginAbort
<1>2. CASE t.asked # "no"
  <2>1. s = Returned([t |-> t, out |-> out], "null")
    BY <1>2 DEF PluginAbort
  <2>2. /\ s.t \in Talkers
        /\ s.t.running = t.running /\ s.t.reads = t.reads /\ s.t.failed = t.failed
        /\ s.t.counting = t.counting /\ s.t.plugin = t.plugin /\ s.t.ctx = t.ctx
        /\ s.t.asked = "no" /\ s.t.state = "idle" /\ s.out = Append(out, "null")
    BY <2>1, NullIs
  <2> QED
    BY <1>2, <2>2
<1> QED
  BY <1>1, <1>2

LEMMA RetriedIs ==
  ASSUME NEW t \in Talkers, NEW out, NEW s, s = Retried([t |-> t, out |-> out])
  PROVE  /\ s.t \in Talkers
         /\ s.t.running /\ s.t.reads /\ ~s.t.failed /\ ~s.t.counting
         /\ s.t.plugin = t.plugin /\ s.t.ctx = t.ctx /\ s.t.asked = "no"
         /\ s.t.state = IF Starts(t) THEN "busy" ELSE t.state
         /\ s.out = IF Starts(t)
                    THEN Append(out, IF t.ctx = "shutdown" THEN "verifyRoot" ELSE "verify")
                    ELSE out
<1> DEFINE v == [t EXCEPT !.running = TRUE, !.reads = TRUE]
           u == [v EXCEPT !.failed = FALSE, !.counting = FALSE]
<1>1. /\ v \in Talkers /\ v.state = t.state /\ v.plugin = t.plugin /\ v.ctx = t.ctx
      /\ v.running /\ v.reads
  BY TalkersAre
<1>2. u = [t EXCEPT !.running = TRUE, !.reads = TRUE, !.failed = FALSE, !.counting = FALSE]
  OBVIOUS
<1> HIDE DEF v
<1>3. /\ u \in Talkers /\ u.state = t.state /\ u.plugin = t.plugin /\ u.ctx = t.ctx
      /\ u.running /\ u.reads /\ ~u.failed /\ ~u.counting
  BY <1>1, TalkersAre
<1>4. s = PluginStart([t |-> u, out |-> out])
  BY <1>2 DEF Retried
<1> HIDE DEF u
<1> QED
  BY <1>3, <1>4, PluginStartIs DEF Starts

\* A new talker, its countdown running or started.
LEMMA StartedIs ==
  ASSUME DialogueAssumption, conf \in Configs, NEW timed \in BOOLEAN, timed => Timed,
         NEW s, s = Started(timed)
  PROVE  /\ s.t \in Talkers /\ s.t # NoTalker /\ TalkerOK(s.t)
         /\ s.t.ctx = "login" /\ s.t.plugin = Plugin
         /\ \/ s.t.state = "idle" /\ s.out = <<>>
            \/ s.t.state = "busy" /\ s.t.running /\ s.out = <<"verify">>
<1>1. NewTalker \in Talkers
  BY NewTalkers
<1>2. CASE timed
  <2> DEFINE u == [NewTalker EXCEPT !.counting = TRUE]
  <2>1. /\ u \in Talkers /\ u.counting /\ u.state = "idle" /\ u.asked = "no" /\ ~u.running
        /\ u.ctx = "login" /\ u.plugin = Plugin /\ ~u.failed
    BY <1>1, NewTalkerIs, TalkersAre
  <2>2. s = [t |-> u, out |-> <<>>]
    BY <1>2 DEF Started
  <2> HIDE DEF u
  <2>3. u # NoTalker /\ TalkerOK(u)
    BY <1>2, <2>1, NoTalkerIs DEF TalkerOK
  <2> QED
    BY <2>1, <2>2, <2>3
<1>3. CASE ~timed
  <2> DEFINE u == [NewTalker EXCEPT !.running = TRUE, !.reads = TRUE]
  <2>1. /\ u \in Talkers /\ u.running /\ ~u.counting /\ u.state = "idle" /\ u.asked = "no"
        /\ u.ctx = "login" /\ u.plugin = Plugin /\ ~u.failed
    BY <1>1, NewTalkerIs, TalkersAre
  <2>2. s = PluginStart([t |-> u, out |-> <<>>])
    BY <1>3 DEF Started
  <2> HIDE DEF u
  <2>3. ASSUME NEW out, s = PluginStart([t |-> u, out |-> out])
        PROVE  /\ s.t \in Talkers /\ ~s.t.counting /\ s.t.asked = "no"
               /\ s.t.running /\ ~s.t.failed
               /\ s.t.state \in {"idle", "busy"} /\ s.t.ctx = "login" /\ s.t.plugin = Plugin
               /\ s.t.state = "idle" => s.out = out
               /\ s.t.state = "busy" => s.out = Append(out, "verify")
    <3>1. /\ s.t \in Talkers /\ ~s.t.counting /\ s.t.asked = "no"
          /\ s.t.running /\ ~s.t.failed
          /\ s.t.plugin = u.plugin /\ s.t.ctx = u.ctx
          /\ s.t.state = IF Starts(u) THEN "busy" ELSE u.state
          /\ s.out = IF Starts(u)
                     THEN Append(out, IF u.ctx = "shutdown" THEN "verifyRoot" ELSE "verify")
                     ELSE out
      BY <2>3, <2>1, PluginStartIs
    <3> QED
      BY <2>1, <3>1
  <2>4. /\ s.t.state \in {"idle", "busy"} /\ s.t.ctx = "login" /\ s.t.plugin = Plugin
        /\ s.t.state = "idle" => s.out = <<>>
        /\ s.t.state = "busy" => s.out = Append(<<>>, "verify")
    BY <2>2, <2>3, Zenon
  <2>5. s.t \in Talkers /\ s.t.asked = "no" /\ ~s.t.counting /\ s.t.running /\ ~s.t.failed
    BY <2>2, <2>3, Zenon
  <2>6. s.t # NoTalker /\ TalkerOK(s.t)
    BY <2>4, <2>5, NoTalkerIs DEF TalkerOK
  <2> QED
    BY <2>4, <2>5, <2>6
<1> QED
  BY <1>2, <1>3

\* The talker of a dialog that asks for a shutdown.
LEMMA ShutdownDialogIs ==
  ASSUME DialogueAssumption, conf \in Configs, NEW s \in ShutdownDialogs
  PROVE  /\ s.t \in Talkers /\ s.t # NoTalker /\ TalkerOK(s.t)
         /\ s.t.ctx = "shutdown" /\ s.t.plugin = Plugin /\ ~s.t.counting
         /\ s.t.reads \/ s.t.state = "busy" => s.t.running
         /\ \/ s.t.state = "idle" /\ s.out = <<>>
            \/ s.t.state = "busy" /\ s.out = <<"verifyRoot">>
<1> DEFINE v == [NewTalker EXCEPT !.ctx = "shutdown"]
           u == [v EXCEPT !.running = TRUE, !.reads = TRUE]
<1>1. NewTalker \in Talkers
  BY NewTalkers
<1>2. /\ v \in Talkers /\ ~v.counting /\ v.state = "idle" /\ v.asked = "no" /\ ~v.running
      /\ v.ctx = "shutdown" /\ v.plugin = Plugin /\ ~v.failed /\ ~v.reads
  BY <1>1, NewTalkerIs, TalkersAre
<1>3. \/ s = [t |-> v, out |-> <<>>]
      \/ s = PluginStart([t |-> u, out |-> <<>>])
  BY DEF ShutdownDialogs
<1> HIDE DEF v
<1>4. /\ u \in Talkers /\ ~u.counting /\ u.state = "idle" /\ u.asked = "no" /\ u.running
      /\ u.ctx = "shutdown" /\ u.plugin = Plugin /\ ~u.failed
  BY <1>2, TalkersAre
<1> HIDE DEF u
<1>5. CASE s = [t |-> v, out |-> <<>>]
  BY <1>2, <1>5, NoTalkerIs DEF TalkerOK
<1>6. CASE s = PluginStart([t |-> u, out |-> <<>>])
  <2>1. s = PluginStart([t |-> u, out |-> <<>>])
    BY <1>6
  <2>2. ASSUME NEW out, s = PluginStart([t |-> u, out |-> out])
        PROVE  /\ s.t \in Talkers /\ ~s.t.counting /\ s.t.asked = "no"
               /\ s.t.running /\ ~s.t.failed
               /\ s.t.state \in {"idle", "busy"} /\ s.t.ctx = "shutdown" /\ s.t.plugin = Plugin
               /\ s.t.state = "idle" => s.out = out
               /\ s.t.state = "busy" => s.out = Append(out, "verifyRoot")
    <3>1. /\ s.t \in Talkers /\ ~s.t.counting /\ s.t.asked = "no"
          /\ s.t.running /\ ~s.t.failed
          /\ s.t.plugin = u.plugin /\ s.t.ctx = u.ctx
          /\ s.t.state = IF Starts(u) THEN "busy" ELSE u.state
          /\ s.out = IF Starts(u)
                     THEN Append(out, IF u.ctx = "shutdown" THEN "verifyRoot" ELSE "verify")
                     ELSE out
      BY <2>2, <1>4, PluginStartIs
    <3> QED
      BY <1>4, <3>1
  <2>3. /\ s.t.state \in {"idle", "busy"} /\ s.t.ctx = "shutdown" /\ s.t.plugin = Plugin
        /\ s.t.state = "idle" => s.out = <<>>
        /\ s.t.state = "busy" => s.out = Append(<<>>, "verifyRoot")
    BY <2>1, <2>2, Zenon
  <2>4. s.t \in Talkers /\ s.t.asked = "no" /\ ~s.t.counting /\ s.t.running /\ ~s.t.failed
    BY <2>1, <2>2, Zenon
  <2>5. s.t # NoTalker /\ TalkerOK(s.t)
    BY <2>3, <2>4, NoTalkerIs DEF TalkerOK
  <2> QED
    BY <2>3, <2>4, <2>5
<1> QED
  BY <1>3, <1>5, <1>6

\* What the greeter reads is what it waits for.
LEMMA Reads ==
  ASSUME Situation, down # <<>>, ~Crossing
  PROVE  /\ up = <<>> /\ Mode.turn = "core" /\ Head(down) \in Hears(conf, Place)
         /\ Tail(down) \in Seq(Words) /\ Then(Mode, Head(down)) \in Modes
         /\ \E e \in Modes : /\ Run(conf, Then(Mode, Head(down)), Tail(down), e) /\ Fits(e)
                             /\ Then(Mode, Head(down)).turn # "core" =>
                                  Tail(down) = <<>> /\ e = Then(Mode, Head(down))
<1>1. Downward /\ Mode \in Modes
  BY ModeTyped DEF Situation, Talks, Upward, Gone
<1>2. PICK e \in Modes : Run(conf, Mode, down, e) /\ Fits(e) /\ up = <<>> /\ down \in Seq(Words)
  BY <1>1 DEF Downward
<1>3. /\ Mode.turn = "core" /\ Head(down) \in Hears(conf, Mode.in)
      /\ Then(Mode, Head(down)) \in Modes /\ Tail(down) \in Seq(Words)
      /\ Run(conf, Then(Mode, Head(down)), Tail(down), e)
  BY <1>1, <1>2, RunRead
<1>4. Then(Mode, Head(down)).turn # "core" => Tail(down) = <<>> /\ e = Then(Mode, Head(down))
  BY <1>3, RunStop
<1>5. Mode.in = Place
  BY DEF Mode
<1> QED
  BY <1>2, <1>3, <1>4, <1>5

\* It goes on to read.
LEMMA ReadsOn ==
  ASSUME NEW m \in Modes, NEW e \in Modes, Run(conf, m, Tail(down), e), Tail(down) \in Seq(Words),
         m = Mode', Fits(e)', up' = <<>>, down' = Tail(down), UNCHANGED conf
  PROVE  Downward'
BY DEF Downward

\* There is nothing left to read.
LEMMA Settles ==
  ASSUME NEW m \in Modes, m = Mode', down' = <<>>, up' = <<>>, Fits(m)'
  PROVE  Downward'
<1>1. Run(conf', m, <<>>, m) /\ <<>> \in Seq(Words)
  BY RunEmpty
<1> QED
  BY <1>1 DEF Downward

\* The modes of a greeter that shows a dialog.
TurnOf(t) == CASE t.state = "prompting" -> "prompt" [] t.state = "idle" -> "idle" [] OTHER -> "core"

LEMMA LoginShown ==
  ASSUME gpc' = "dialog", over' = NoTalker, UNCHANGED conf,
         login'.state = "busy" => login'.running
  PROVE  Mode' = [in |-> "login", turn |-> TurnOf(login')] /\ Place' = "login"
<1>1. NoTalker' = NoTalker /\ over'.ctx = "login"
  BY NamesFrame, NoTalkerIs
<1> QED
  BY <1>1 DEF Mode, Place, AutoLogsIn, Top, TurnOf

LEMMA ShutdownShown ==
  ASSUME gpc' = "dialog", over' # NoTalker, over'.ctx = "shutdown", UNCHANGED conf
  PROVE  Mode' = [in |-> "shutdown", turn |-> TurnOf(over')] /\ Place' = "shutdown"
<1>1. NoTalker' = NoTalker
  BY NamesFrame
<1> QED
  BY <1>1 DEF Mode, Place, Top, TurnOf

\* The login dialog is shown, and core waits.
LEMMA LoginWaits ==
  ASSUME At("wait"), UNCHANGED <<conf, core>>, down' = <<>>,
         gpc' = "dialog", over' = NoTalker, login' \in Talkers, login' # NoTalker,
         \/ login'.state = "idle" /\ up' = <<>>
         \/ login'.state = "busy" /\ login'.running /\ up' = <<"verify">>
  PROVE  Talks'
<1>1. Mode' = [in |-> "login", turn |-> TurnOf(login')] /\ Place' = "login"
  BY LoginShown
<1>2. /\ NoTalker' = NoTalker /\ Plugin' = Plugin /\ Timed' = Timed
      /\ CoreCaller' = CoreCaller /\ At("wait")' /\ core'.pc = "wait"
  BY FieldsFrame DEF At
<1>3. CASE login'.state = "idle" /\ up' = <<>>
  <2>1. PICK m \in Modes : m = [in |-> "login", turn |-> "idle"]
    BY DEF Modes, Places, Turns
  <2>2. m = Mode'
    BY <1>1, <1>3, <2>1 DEF TurnOf
  <2>3. Fits(m)'
    BY <1>2, <2>1 DEF Fits, At
  <2> QED
    BY <1>3, <2>2, <2>3, Settles DEF Talks
<1>4. CASE login'.state = "busy" /\ login'.running /\ up' = <<"verify">>
  <2>1. Mode' = [in |-> "login", turn |-> "core"]
    BY <1>1, <1>4 DEF TurnOf
  <2>2. CoreCaller = "wait"
    BY DEF CoreCaller, At
  <2>3. PICK c \in Commandings : c = <<"verify">>
    BY DEF Commandings
  <2>4. Commanded(c)'
    BY <1>2, <2>1, <2>2, <2>3 DEF Commanded
  <2>5. up' = c /\ c # <<>> /\ core'.pc = "wait"
    BY <1>2, <1>4, <2>3
  <2> QED
    BY <2>4, <2>5 DEF Talks, Upward
<1> QED
  BY <1>3, <1>4

LEMMA DoesGreets ==
  ASSUME Situation, At("wait"), UNCHANGED <<conf, core>>, NEW timed \in BOOLEAN, timed => Timed,
         Greets(timed), up = <<>>, down' = <<>>
  PROVE  TalkersOK' /\ Talks'
<1>1. PICK s : s = Started(timed)
  OBVIOUS
<1>2. /\ s.t \in Talkers /\ s.t # NoTalker /\ TalkerOK(s.t)
      /\ s.t.ctx = "login" /\ s.t.plugin = Plugin
      /\ \/ s.t.state = "idle" /\ s.out = <<>>
         \/ s.t.state = "busy" /\ s.t.running /\ s.out = <<"verify">>
  BY <1>1, StartedIs, DialogueAssumption DEF Situation
<1>3. gpc' = "dialog" /\ login' = s.t /\ over' = NoTalker /\ up' = up \o s.out
  BY <1>1 DEF Greets
<1>4. \/ login'.state = "idle" /\ up' = <<>>
      \/ login'.state = "busy" /\ login'.running /\ up' = <<"verify">>
  BY <1>2, <1>3
<1>5. Talks'
  BY <1>2, <1>3, <1>4, LoginWaits
<1>6. TalkersOK'
  BY <1>2, <1>3, NamesFrame, NoTalkerIs DEF TalkersOK, TalkerOK
<1> QED
  BY <1>5, <1>6

LEMMA DoesGreeterExit == ASSUME Situation, GreeterExit PROVE TalkersOK' /\ Talks'
<1>1. gpc' = "gone" /\ UNCHANGED <<conf, core, up, down, login, over>>
  BY DEF GreeterExit, coreVars
<1>2. TalkersOK'
  BY <1>1, NamesFrame DEF Situation, TalkersOK, TalkerOK
<1>3. CASE gpc = "dialog" /\ Calm
  BY <1>1, <1>2, <1>3 DEF Talks, Gone, Calm, At
<1>4. CASE gpc \notin {"none", "gone"} /\ At("ended")
  BY <1>4 DEF Situation, Talks, Downward, Fits, Upward, Crossing, Gone, At
<1> QED
  BY <1>2, <1>3, <1>4 DEF GreeterExit

\* Places that say nothing of the login dialog.
LEMMA FitsElsewhere ==
  ASSUME UNCHANGED <<conf, core>>, NEW e, e.in \notin {"login", "auto", "shutdown"}, Fits(e)
  PROVE  Fits(e)'
BY NamesFrame DEF Fits, Company, Starting, At

LEMMA DoesReadStatus == ASSUME Situation, ReadStatus PROVE TalkersOK' /\ Talks'
<1>1. /\ gpc \in {"status", "onlyStatus"} /\ down # <<>> /\ Head(down) = "status"
      /\ down' = Tail(down) /\ UNCHANGED <<conf, core, login, over>>
      /\ over = NoTalker /\ login \in Talkers /\ login.state \in {"idle", "busy"} /\ login # NoTalker
      /\ gpc = "status" => login.state = "idle"
      /\ login.state = "busy" => login.running
      /\ \/ gpc = "status" /\ gpc' = "value" /\ up' = Append(up, "getDmrc")
         \/ gpc = "onlyStatus" /\ gpc' = "dialog" /\ UNCHANGED up
  <2>1. login.state \in {"idle", "busy"} /\ over = NoTalker /\ (gpc = "status" => login.state = "idle")
        /\ (login.state = "busy" => login.running)
    BY DEF ReadStatus, Situation, TalkersOK
  <2> QED
    BY <2>1, NoTalkerIs DEF ReadStatus, coreVars, Situation, GreeterTyped
<1>2. TalkersOK'
  BY <1>1, NamesFrame, NoTalkerIs DEF Situation, TalkersOK, TalkerOK
<1>3. CASE Crossing
  <2>1. gpc = "onlyStatus" /\ login.state = "busy" /\ At("wait") /\ up = <<"verify">> /\ Tail(down) = <<>>
    BY <1>1, <1>3 DEF Crossing, Place
  <2>2. gpc' = "dialog" /\ up' = <<"verify">> /\ down' = <<>> /\ over' = NoTalker
        /\ login' = login
    BY <1>1, <2>1
  <2> QED
    BY <1>1, <1>2, <2>1, <2>2, LoginWaits
<1>4. CASE ~Crossing /\ Place = "statusBusy"
  <2>1. gpc = "onlyStatus" /\ login.state = "busy"
    BY <1>1, <1>4 DEF Place
  <2>2. PICK m \in Modes : m = Mode /\ m = [in |-> "statusBusy", turn |-> "core"]
    BY <1>4, <2>1, ModeTyped DEF Mode, Situation
  <2>3. Then(m, "status") = [in |-> "login", turn |-> "core"]
    BY <2>2 DEF Then, Goes, Turn, Quiet
  <2>4. up = <<>> /\ Tail(down) \in Seq(Words) /\ Then(m, "status") \in Modes
        /\ \E e \in Modes : Run(conf, Then(m, "status"), Tail(down), e) /\ Fits(e)
    BY <1>1, <1>4, <2>2, Reads
  <2>5. PICK e \in Modes : Run(conf, Then(m, "status"), Tail(down), e) /\ Fits(e)
    BY <2>4
  <2>6. Mode' = [in |-> "login", turn |-> "core"]
    BY <1>1, <2>1, LoginShown DEF TurnOf
  <2>7. Fits(e)'
    BY <1>1, <2>5, NamesFrame, FitsFrame
  <2>8. up' = <<>>
    BY <1>1, <2>1, <2>4
  <2>9. PICK n \in Modes : n = Then(m, "status")
    BY <2>4
  <2> QED
    BY <1>1, <1>2, <2>3, <2>4, <2>5, <2>6, <2>7, <2>8, <2>9, ReadsOn DEF Talks
<1>5. CASE ~Crossing /\ Place # "statusBusy"
  <2>1. login.state = "idle" /\ Place = gpc
    BY <1>1, <1>5 DEF Place
  <2>2. PICK m \in Modes : m = Mode /\ m = [in |-> gpc, turn |-> "core"]
    BY <1>1, <2>1, ModeTyped DEF Mode, Situation
  <2>3. Then(m, "status") = [in |-> gpc, turn |-> "status"]
    BY <1>1, <2>2 DEF Then, Goes, Turn, Quiet
  <2>4. up = <<>> /\ Tail(down) = <<>> /\ Fits(Then(m, "status"))
    BY <1>1, <1>5, <2>2, <2>3, Reads
  <2>5. At("wait")
    BY <1>1, <2>3, <2>4 DEF Fits, At
  <2>6. CASE gpc = "status"
    <3>1. gpc' = "value" /\ up' = <<"getDmrc">> /\ down' = <<>>
      BY <1>1, <2>4, <2>6
    <3>2. PICK c \in Commandings : c = <<"getDmrc">> /\ c # <<>>
      BY DEF Commandings
    <3>3. Commanded(c)'
      BY <1>1, <2>5, <3>1, <3>2 DEF Commanded, CoreCaller, At
    <3>4. core'.pc = "wait"
      BY <1>1, <2>5 DEF At
    <3> QED
      BY <1>2, <3>1, <3>2, <3>3, <3>4 DEF Talks, Upward
  <2>7. CASE gpc = "onlyStatus"
    <3>1. gpc' = "dialog" /\ up' = <<>> /\ down' = <<>> /\ over' = NoTalker /\ login' = login
      BY <1>1, <2>4, <2>7
    <3> QED
      BY <1>1, <1>2, <2>1, <2>5, <3>1, LoginWaits
  <2> QED
    BY <1>1, <2>6, <2>7
<1> QED
  BY <1>3, <1>4, <1>5

LEMMA DoesReadValue == ASSUME Situation, ReadValue PROVE TalkersOK' /\ Talks'
<1>1. /\ gpc = "value" /\ down # <<>> /\ Head(down) = "value" /\ down' = Tail(down)
      /\ gpc' = "dialog" /\ UNCHANGED <<conf, core, up, login, over>>
      /\ over = NoTalker /\ login \in Talkers /\ login.state = "idle"
  BY DEF ReadValue, coreVars, Situation, TalkersOK, GreeterTyped
<1>2. login # NoTalker
  BY <1>1, NoTalkerIs
<1>3. TalkersOK'
  BY <1>1, <1>2, NamesFrame, NoTalkerIs DEF Situation, TalkersOK, TalkerOK
<1>4. PICK m \in Modes : m = Mode /\ m = [in |-> "value", turn |-> "core"] /\ Place = "value"
  BY <1>1, ModeTyped DEF Mode, Place, Situation
<1>5. Then(m, "value") = [in |-> "value", turn |-> "value"]
  BY <1>4 DEF Then, Goes, Turn, Quiet
<1>6. up = <<>> /\ Tail(down) = <<>> /\ Fits(Then(m, "value"))
  BY <1>1, <1>4, <1>5, Reads DEF Crossing
<1>7. At("wait")
  BY <1>5, <1>6 DEF Fits, At
<1>8. gpc' = "dialog" /\ up' = <<>> /\ down' = <<>> /\ over' = NoTalker /\ login' = login
  BY <1>1, <1>6
<1> QED
  BY <1>1, <1>2, <1>3, <1>7, <1>8, LoginWaits

\* A dialog that asks for a shutdown is shown; it came over the login dialog, or core has
\* asked for it.
LEMMA ShutdownWaits ==
  ASSUME UNCHANGED <<conf, core>>, down' = <<>>,
         gpc' = "dialog", over' # NoTalker, over'.ctx = "shutdown",
         \/ At("wait") /\ login' # NoTalker
         \/ At("confirm") /\ login' = NoTalker,
         \/ over'.state = "idle" /\ up' = <<>>
         \/ over'.state = "busy" /\ up' = <<"verifyRoot">>
  PROVE  Talks'
<1>1. Mode' = [in |-> "shutdown", turn |-> TurnOf(over')] /\ Place' = "shutdown"
  BY ShutdownShown
<1>2. /\ NoTalker' = NoTalker /\ Plugin' = Plugin /\ Timed' = Timed
      /\ CoreCaller' = CoreCaller /\ core'.pc = core.pc
      /\ At("wait")' = At("wait") /\ At("confirm")' = At("confirm")
  BY FieldsFrame DEF At
<1>3. CASE over'.state = "idle" /\ up' = <<>>
  <2>1. PICK m \in Modes : m = [in |-> "shutdown", turn |-> "idle"]
    BY DEF Modes, Places, Turns
  <2>2. m = Mode'
    BY <1>1, <1>3, <2>1 DEF TurnOf
  <2>3. Fits(m)'
    BY <1>2, <2>1 DEF Fits, At
  <2> QED
    BY <1>3, <2>2, <2>3, Settles DEF Talks
<1>4. CASE over'.state = "busy" /\ up' = <<"verifyRoot">>
  <2>1. Mode' = [in |-> "shutdown", turn |-> "core"]
    BY <1>1, <1>4 DEF TurnOf
  <2>2. CoreCaller = core.pc
    BY DEF CoreCaller, At
  <2>3. PICK c \in Commandings : c = <<"verifyRoot">>
    BY DEF Commandings
  <2>4. Commanded(c)'
    BY <1>2, <2>1, <2>2, <2>3 DEF Commanded, At
  <2>5. up' = c /\ c # <<>> /\ core'.pc \in {"wait", "confirm"}
    BY <1>2, <1>4, <2>3 DEF At
  <2> QED
    BY <2>4, <2>5 DEF Talks, Upward
<1> QED
  BY <1>3, <1>4

LEMMA DoesReadCommand == ASSUME Situation, ReadCommand PROVE TalkersOK' /\ Talks'
<1>1. gpc = "command" /\ down # <<>> /\ down' = Tail(down) /\ UNCHANGED <<conf, core>>
  BY DEF ReadCommand, coreVars
<1>2. PICK m \in Modes : m = Mode /\ m = [in |-> "command", turn |-> "core"] /\ Place = "command"
  BY <1>1, ModeTyped DEF Mode, Place, Situation
<1>3. PICK w : w = Head(down)
  OBVIOUS
<1>4. /\ up = <<>> /\ w \in Hears(conf, "command")
      /\ Tail(down) \in Seq(Words) /\ Then(m, w) \in Modes
      /\ \E e \in Modes : /\ Run(conf, Then(m, w), Tail(down), e) /\ Fits(e)
                          /\ Then(m, w).turn # "core" => Tail(down) = <<>> /\ e = Then(m, w)
  BY <1>1, <1>2, <1>3, Reads DEF Crossing
<1>5. PICK e \in Modes : /\ Run(conf, Then(m, w), Tail(down), e) /\ Fits(e)
                         /\ Then(m, w).turn # "core" => Tail(down) = <<>> /\ e = Then(m, w)
  BY <1>4
<1>6. w # "errorGreet" => Tail(down) = <<>> /\ e = [in |-> "command", turn |-> w]
  BY <1>2, <1>4, <1>5 DEF Then, Goes, Turn, Quiet, Hears
<1>7. CASE w \in {"greet", "greetTimed"}
  <2>1. At("wait") /\ down' = <<>>
    BY <1>1, <1>5, <1>6, <1>7 DEF Fits, At
  <2>2. w = "greetTimed" => Timed
    BY <1>4 DEF Hears, Timed
  <2>3. PICK timed \in BOOLEAN : (timed => Timed) /\ Greets(timed)
    BY <1>3, <1>7, <2>2 DEF ReadCommand, Again
  <2> QED
    BY <1>1, <1>4, <2>1, <2>3, DoesGreets
<1>8. CASE w = "errorGreet"
  <2>1. gpc' = "fail" /\ login' = NoTalker /\ over' = NoTalker /\ UNCHANGED up
    BY <1>3, <1>8 DEF ReadCommand
  <2>2. TalkersOK'
    BY <1>1, <2>1, NamesFrame, NoTalkerIs DEF TalkersOK, TalkerOK
  <2>3. Then(m, w) = [in |-> "fail", turn |-> "core"]
    BY <1>2, <1>8 DEF Then, Goes, Turn, Quiet
  <2>4. Mode' = [in |-> "fail", turn |-> "core"]
    BY <2>1 DEF Mode, Place
  <2>5. e.in \in {"fail", "renewAuto"}
    <3>1. PICK n \in Modes : n = Then(m, w) /\ Run(conf, n, Tail(down), e)
      BY <1>4, <1>5
    <3>2. e.in \in From(n.in)
      BY <1>4, <3>1, RunReaches
    <3> QED
      BY <2>3, <3>1, <3>2 DEF From
  <2>6. Fits(e)'
    BY <1>1, <1>5, <2>5, FitsElsewhere
  <2>7. PICK n \in Modes : n = Then(m, w)
    BY <1>4
  <2> QED
    BY <1>1, <1>4, <1>5, <2>1, <2>2, <2>3, <2>4, <2>6, <2>7, ReadsOn DEF Talks
<1>9. CASE w = "confShutdown"
  <2>1. At("confirm") /\ down' = <<>>
    BY <1>1, <1>5, <1>6, <1>9 DEF Fits, At
  <2>2. PICK s \in ShutdownDialogs : over' = s.t /\ up' = up \o s.out
    BY <1>3, <1>9 DEF ReadCommand
  <2>3. gpc' = "dialog" /\ login' = NoTalker
    BY <1>3, <1>9 DEF ReadCommand
  <2>4. /\ s.t # NoTalker /\ TalkerOK(s.t)
        /\ s.t.ctx = "shutdown" /\ s.t.plugin = Plugin /\ ~s.t.counting
        /\ s.t.reads \/ s.t.state = "busy" => s.t.running
        /\ \/ s.t.state = "idle" /\ s.out = <<>>
           \/ s.t.state = "busy" /\ s.out = <<"verifyRoot">>
    BY ShutdownDialogIs, DialogueAssumption DEF Situation
  <2>5. \/ over'.state = "idle" /\ up' = <<>>
        \/ over'.state = "busy" /\ up' = <<"verifyRoot">>
    BY <1>4, <2>2, <2>4
  <2>6. TalkersOK'
    BY <1>1, <2>2, <2>3, <2>4, NamesFrame, NoTalkerIs DEF TalkersOK, TalkerOK
  <2> QED
    BY <1>1, <2>1, <2>2, <2>3, <2>4, <2>5, <2>6, ShutdownWaits
<1>10. CASE w = "choose"
  <2>1. At("prepare") /\ down' = <<>>
    BY <1>1, <1>5, <1>6, <1>10 DEF Fits, At
  <2>2. gpc' = "chooserAck" /\ up' = Append(up, "ready") /\ UNCHANGED <<login, over>>
    BY <1>3, <1>10 DEF ReadCommand
  <2>3. TalkersOK'
    BY <1>1, <2>2, NamesFrame DEF Situation, TalkersOK, TalkerOK
  <2>4. up' = <<"ready">>
    BY <1>4, <2>2
  <2> QED
    BY <1>1, <2>1, <2>2, <2>3, <2>4 DEF Talks, Upward, At
<1> QED
  BY <1>4, <1>7, <1>8, <1>9, <1>10 DEF Hears

LEMMA DoesFailVerify == ASSUME Orderly, Situation, FailVerify PROVE TalkersOK' /\ Talks'
<1>1. gpc \in {"fail", "final"} /\ down # <<>> /\ down' = Tail(down) /\ UNCHANGED <<conf, core>>
  BY DEF FailVerify, coreVars
<1>2. PICK m \in Modes : m = Mode /\ m = [in |-> gpc, turn |-> "core"] /\ Place = gpc
  BY <1>1, ModeTyped DEF Mode, Place, Situation
<1>3. PICK w : w = Head(down)
  OBVIOUS
<1>4. /\ up = <<>> /\ w \in Hears(conf, gpc)
      /\ Tail(down) \in Seq(Words) /\ Then(m, w) \in Modes
      /\ \E e \in Modes : /\ Run(conf, Then(m, w), Tail(down), e) /\ Fits(e)
                          /\ Then(m, w).turn # "core" => Tail(down) = <<>> /\ e = Then(m, w)
  BY <1>1, <1>2, <1>3, Reads DEF Crossing
<1>5. PICK e \in Modes : /\ Run(conf, Then(m, w), Tail(down), e) /\ Fits(e)
                         /\ Then(m, w).turn # "core" => Tail(down) = <<>> /\ e = Then(m, w)
  BY <1>4
<1>6. w # "chtokAuth" => Tail(down) = <<>> /\ e = [in |-> gpc, turn |-> w]
  BY <1>1, <1>2, <1>4, <1>5 DEF Then, Goes, Turn, Quiet, Hears
<1>7. CASE w = "msg"
  <2>1. At("ack") /\ Company(gpc) /\ down' = <<>>
    BY <1>1, <1>5, <1>6, <1>7 DEF Fits, At
  <2>2. up' = up \o Ack /\ armed' = FALSE /\ UNCHANGED <<gpc, login, over>>
    BY <1>3, <1>7 DEF FailVerify
  <2>3. up' = <<"ack">>
    <3>1. ~armed
      BY <1>1, <2>2 DEF Orderly, InputBreach, Calm
    <3> QED
      BY <1>4, <2>2, <3>1 DEF Ack, Touch
  <2>4. TalkersOK'
    BY <1>1, <2>2, NamesFrame DEF Situation, TalkersOK, TalkerOK
  <2>5. Mode' = Mode /\ Place' = Place
    BY <1>1, <2>2, ModeFrame
  <2>6. Company(Place)'
    BY <1>1, <1>2, <2>1, <2>2, <2>5, NamesFrame DEF Company, Starting, At
  <2>7. At("ack")'
    BY <1>1, <2>1 DEF At
  <2>8. gpc' # "none" /\ Mode'.turn = "core"
    <3>1. Mode.turn = "core" /\ gpc # "none"
      BY <1>1, <1>2
    <3>2. gpc' = gpc
      BY <2>2
    <3> QED
      BY <2>5, <3>1, <3>2
  <2> QED
    BY <2>1, <2>3, <2>4, <2>6, <2>7, <2>8 DEF Talks, Upward
<1>8. CASE w = "ok"
  <2>1. At("closing") /\ down' = <<>>
    BY <1>1, <1>5, <1>6, <1>8 DEF Fits, At
  <2>2. gpc' = "gone" /\ UNCHANGED <<up, login, over>>
    BY <1>3, <1>8 DEF FailVerify
  <2>3. TalkersOK'
    BY <1>1, <2>2, NamesFrame DEF Situation, TalkersOK, TalkerOK
  <2> QED
    BY <1>1, <1>4, <2>1, <2>2, <2>3 DEF Talks, Gone, At
<1>9. CASE w \in {"auth", "fail"}
  <2>1. gpc = "fail"
    BY <1>1, <1>4, <1>9 DEF Hears
  <2>2. At("wait") /\ down' = <<>>
    BY <1>1, <1>5, <1>6, <1>9, <2>1 DEF Fits, At
  <2>3. Greets(FALSE)
    BY <1>3, <1>9, <2>1 DEF FailVerify
  <2> QED
    BY <1>1, <1>4, <2>2, <2>3, DoesGreets
<1>10. CASE w = "chtokAuth"
  <2>1. gpc = "fail" /\ gpc' = "dialog" /\ over' = Renewal("classic") /\ UNCHANGED <<up, login>>
    BY <1>3, <1>10 DEF FailVerify
  <2>2. login = NoTalker
    BY <2>1 DEF Situation, TalkersOK
  <2>3. /\ over'.state = "busy" /\ over'.asked = "no" /\ ~over'.counting
        /\ over'.plugin = "classic" /\ over'.ctx = "renew" /\ over'.running /\ ~over'.failed
    BY <2>1 DEF Renewal
  <2>4. over' # NoTalker
    BY <2>3, NoTalkerIs
  <2>5. TalkersOK'
    BY <1>1, <2>1, <2>2, <2>3, <2>4, NamesFrame, NoTalkerIs DEF TalkersOK, TalkerOK
  <2>6. Mode' = [in |-> "renewAuto", turn |-> "core"]
    BY <1>1, <2>1, <2>2, <2>3, <2>4, NamesFrame DEF Mode, Place, Top
  <2>7. Then(m, w) = [in |-> "renewAuto", turn |-> "core"]
    BY <1>2, <1>10, <2>1 DEF Then, Goes, Turn, Quiet
  <2>8. Fits(e)'
    BY <1>1, <1>5, <2>1, NamesFrame, FitsFrame
  <2>9. PICK n \in Modes : n = Then(m, w)
    BY <1>4
  <2> QED
    BY <1>1, <1>4, <1>5, <2>1, <2>5, <2>6, <2>7, <2>8, <2>9, ReadsOn DEF Talks
<1> QED
  BY <1>1, <1>4, <1>7, <1>8, <1>9, <1>10 DEF Hears

\* The dialog that is shown, and its talker.
LEMMA PlaceIs ==
  ASSUME TalkersOK, GreeterTyped, gpc = "dialog"
  PROVE  /\ Top \in Talkers /\ Top.state \in {"idle", "prompting", "busy"} /\ TalkerOK(Top)
         /\ Top.plugin = (IF Place = "renewAuto" THEN "classic" ELSE Plugin)
         /\ \/ /\ over = NoTalker /\ login # NoTalker /\ Top = login /\ over.ctx = "login"
               /\ Place = IF AutoLogsIn THEN "auto" ELSE "login"
            \/ over # NoTalker /\ Top = over /\ over.ctx = "shutdown" /\ Place = "shutdown"
            \/ /\ over # NoTalker /\ Top = over /\ over.ctx = "renew"
               /\ Place = IF login = NoTalker THEN "renewAuto" ELSE "renew"
<1>1. login \in Talkers /\ over \in Talkers /\ Top \in Talkers
  BY TopTyped DEF GreeterTyped
<1>2. over.ctx \in {"login", "renew", "shutdown"} /\ Top.state \in {"none", "idle", "prompting", "busy"}
  BY <1>1 DEF Talkers
<1>3. CASE over = NoTalker
  <2>1. over.ctx = "login" /\ Top = login /\ login # NoTalker
    BY <1>3, NoTalkerIs DEF Top, TalkersOK
  <2>2. Top.state # "none" /\ TalkerOK(Top) /\ Top.plugin = Plugin
    BY <2>1 DEF TalkersOK, TalkerOK
  <2>3. Place = IF AutoLogsIn THEN "auto" ELSE "login"
    BY <2>1 DEF Place
  <2> QED
    BY <1>1, <1>2, <1>3, <2>1, <2>2, <2>3
<1>4. CASE over # NoTalker
  <2>1. over.ctx # "login" /\ Top = over
    BY <1>4 DEF Top, TalkersOK
  <2>2. Top.state # "none" /\ TalkerOK(Top)
    BY <1>4, <2>1 DEF TalkersOK, TalkerOK
  <2>3. CASE over.ctx = "shutdown"
    <3>1. Place = "shutdown"
      BY <2>3 DEF Place
    <3>2. Top.plugin = Plugin
      BY <2>1, <2>3 DEF TalkersOK
    <3> QED
      BY <1>1, <1>2, <1>4, <2>1, <2>2, <2>3, <3>1, <3>2
  <2>4. CASE over.ctx = "renew"
    <3>1. Place = IF login = NoTalker THEN "renewAuto" ELSE "renew"
      BY <2>4 DEF Place
    <3>2. Top.plugin = IF login = NoTalker THEN "classic" ELSE Plugin
      BY <2>1, <2>4 DEF TalkersOK
    <3> QED
      BY <1>1, <1>2, <1>4, <2>1, <2>2, <2>4, <3>1, <3>2
  <2> QED
    BY <1>2, <2>1, <2>3, <2>4
<1> QED
  BY <1>3, <1>4

\* Its talker becomes t, and is shown.
LEMMA PutsIs ==
  ASSUME TalkersOK, GreeterTyped, gpc = "dialog", gpc' = "dialog", UNCHANGED conf,
         NEW r, Puts(r), r.t \in Talkers, r.t.state # "none", TalkerOK(r.t),
         r.t.ctx = Top.ctx, r.t.plugin = Top.plugin,
         over # NoTalker => ~r.t.counting /\ (r.t.reads \/ r.t.state = "busy" => r.t.running),
         r.t.ctx = "renew" /\ r.t.plugin = "generic" => r.t.state # "idle"
  PROVE  /\ TalkersOK' /\ ((login = NoTalker) <=> (login' = NoTalker))
         /\ Place' = IF over # NoTalker THEN Place
                     ELSE IF r.t.state = "busy" /\ ~r.t.running THEN "auto" ELSE "login"
         /\ Mode'.turn = IF r.t.state = "prompting" THEN "prompt"
                         ELSE IF r.t.state = "idle" /\ Place \notin {"renew", "renewAuto"} THEN "idle"
                         ELSE "core"
<1>1. r.t # NoTalker /\ NoTalker' = NoTalker /\ Plugin' = Plugin /\ Timed' = Timed
  BY NoTalkerIs, NamesFrame
<1>2. CASE over = NoTalker
  <2>1. login' = r.t /\ over' = NoTalker /\ login # NoTalker /\ Top = login
    BY <1>2, PlaceIs DEF Puts
  <2>2. over.ctx = "login" /\ Place \notin {"renew", "renewAuto"}
    BY <1>2, PlaceIs
  <2>3. TalkersOK'
    BY <1>1, <2>1, <2>2, NoTalkerIs DEF TalkersOK, TalkerOK
  <2>4. Place' = IF r.t.state = "busy" /\ ~r.t.running THEN "auto" ELSE "login"
    BY <1>1, <2>1, <2>2, NoTalkerIs DEF Place, AutoLogsIn
  <2>5. Mode'.turn = IF r.t.state = "prompting" THEN "prompt"
                     ELSE IF r.t.state = "idle" THEN "idle" ELSE "core"
    BY <1>1, <2>1, <2>2, NoTalkerIs DEF Mode, Top
  <2> QED
    BY <1>1, <1>2, <2>1, <2>2, <2>3, <2>4, <2>5
<1>3. CASE over # NoTalker
  <2>1. over' = r.t /\ login' = login /\ Top = over /\ over.ctx = r.t.ctx
    BY <1>3, PlaceIs DEF Puts
  <2>2. over.ctx \in {"shutdown", "renew"} /\ (Place \in {"renew", "renewAuto"} <=> over.ctx = "renew")
    BY <1>3, PlaceIs
  <2>3. TalkersOK'
    <3>1. over.state # "none"
      BY <1>3 DEF TalkersOK, TalkerOK
    <3>2. r.t.plugin = (IF r.t.ctx = "renew" /\ login = NoTalker THEN "classic" ELSE Plugin)
      BY <2>1 DEF TalkersOK
    <3> QED
      BY <1>1, <1>3, <2>1, <2>2, <3>1, <3>2 DEF TalkersOK, TalkerOK
  <2>4. Place' = Place
    BY <1>1, <2>1, <2>2 DEF Place
  <2>5. Mode'.turn = IF r.t.state = "prompting" THEN "prompt"
                     ELSE IF r.t.state = "idle" /\ over.ctx # "renew" THEN "idle" ELSE "core"
    BY <1>1, <2>1 DEF Mode, Top
  <2> QED
    BY <1>1, <1>3, <2>1, <2>2, <2>3, <2>4, <2>5
<1> QED
  BY <1>2, <1>3

\* It has read a word, and is what core takes it to be.
LEMMA Follows ==
  ASSUME UNCHANGED <<conf, core>>, (login = NoTalker) <=> (login' = NoTalker),
         NEW m \in Modes, NEW e \in Modes, Run(conf, m, Tail(down), e), Fits(e),
         Tail(down) \in Seq(Words), Place' = m.in, Mode'.turn = m.turn, up' = <<>>,
         down' = Tail(down)
  PROVE  Talks'
<1>1. Mode' = m
  BY DEF Mode, Modes
<1>2. Fits(e)'
  BY FitsFrame
<1> QED
  BY <1>1, <1>2, ReadsOn DEF Talks

\* core waits for a command, or can be made to: what the greeter has sent before one.
Heeds(pre) == \/ pre = <<>> /\ core.pc \in {"wait", "confirm"}
              \/ pre = <<"interact">> /\ At("wait")
              \/ pre = <<"null">> /\ At("answer") /\ core.ask # "noDelay"

\* The greeter sends a command, or none.
LEMMA Sends ==
  ASSUME UNCHANGED <<conf, core>>, GreeterTyped', TalkersOK', NEW pre, Heeds(pre),
         NEW c \in Commandings, Commanded(c)', up' = pre \o c, down' = <<>>
  PROVE  Talks'
<1>1. /\ At("wait")' <=> At("wait")
      /\ At("answer")' <=> At("answer")
      /\ core' = core /\ CoreCaller' = CoreCaller /\ NoTalker' = NoTalker
  BY FieldsFrame
<1>2. CASE pre # <<>>
  BY <1>1, <1>2 DEF Heeds, Talks, Upward
<1>3. CASE pre = <<>> /\ c # <<>>
  <2>1. up' = c
    BY <1>3 DEF Commandings
  <2> QED
    BY <1>1, <1>3, <2>1 DEF Heeds, Talks, Upward
<1>4. CASE pre = <<>> /\ c = <<>>
  <2>1. up' = <<>>
    BY <1>4
  <2>2. core.pc \in {"wait", "confirm"} /\ CoreCaller = core.pc
    BY <1>4 DEF Heeds, CoreCaller, At
  <2>3. /\ Mode'.turn = "idle"
        /\ \/ CoreCaller = "wait" /\ login' # NoTalker
           \/ CoreCaller = "confirm" /\ login' = NoTalker
    BY <1>1, <1>4 DEF Commanded
  <2>4. gpc' = "dialog" /\ Top'.state = "idle" /\ over'.ctx # "renew"
    BY <2>3 DEF Mode
  <2>5. over'.ctx \in {"login", "renew", "shutdown"}
    BY DEF GreeterTyped, Talkers
  <2>6. CASE over'.ctx = "shutdown"
    <3>1. Mode'.in = "shutdown"
      BY <2>4, <2>6 DEF Mode, Place
    <3>2. PICK m \in Modes : m = Mode'
      BY <2>3, <3>1 DEF Mode, Modes, Places, Turns
    <3>3. Fits(m)'
      BY <1>1, <2>2, <2>3, <3>1, <3>2 DEF Fits, At
    <3> QED
      BY <2>1, <3>2, <3>3, Settles DEF Talks
  <2>7. CASE over'.ctx = "login"
    <3>1. over' = NoTalker /\ Top' = login' /\ login' # NoTalker
      BY <1>1, <2>4, <2>7 DEF TalkersOK, Top
    <3>2. Mode'.in = "login"
      BY <2>4, <2>7, <3>1 DEF Mode, Place, AutoLogsIn
    <3>3. PICK m \in Modes : m = Mode'
      BY <2>3, <3>2 DEF Mode, Modes, Places, Turns
    <3>4. Fits(m)'
      BY <1>1, <2>2, <2>3, <3>1, <3>2, <3>3 DEF Fits, At
    <3> QED
      BY <2>1, <3>3, <3>4, Settles DEF Talks
  <2> QED
    BY <2>4, <2>5, <2>6, <2>7
<1> QED
  BY <1>2, <1>3, <1>4

\* The talker of the dialog that is shown reads what it waits for.
LEMMA TalkerListens ==
  ASSUME Situation, gpc = "dialog", Top.reads, down # <<>>, NEW w, w = Head(down)
  PROVE  /\ up = <<>> /\ w \in Hears(conf, Place) /\ Tail(down) \in Seq(Words)
         /\ Top.state = "busy" \/ (Top.state = "idle" /\ Place \in {"renew", "renewAuto"})
         /\ ~Top.running <=> Place = "auto"
         /\ \E m \in Modes, e \in Modes :
              /\ m.in = Goes(Place, w) /\ m.turn = Turn(Place, w)
              /\ Run(conf, m, Tail(down), e) /\ Fits(e)
              /\ m.turn # "core" => Tail(down) = <<>> /\ e = m
<1>1. Place \in {"login", "auto", "shutdown", "renew", "renewAuto"} /\ Mode.in = Place
  BY PlaceIs DEF Situation, Mode
<1>2. ~Crossing
  BY <1>1 DEF Crossing
<1>3. /\ up = <<>> /\ Mode.turn = "core" /\ w \in Hears(conf, Place)
      /\ Tail(down) \in Seq(Words) /\ Then(Mode, w) \in Modes
      /\ \E e \in Modes : /\ Run(conf, Then(Mode, w), Tail(down), e) /\ Fits(e)
                          /\ Then(Mode, w).turn # "core" => Tail(down) = <<>> /\ e = Then(Mode, w)
  BY <1>2, Reads
<1>4. PICK m \in Modes : m = Then(Mode, w)
  BY <1>3
<1>5. m.in = Goes(Place, w) /\ m.turn = Turn(Place, w)
  BY <1>1, <1>4 DEF Then
<1>6. Top.state = "busy" \/ (Top.state = "idle" /\ Place \in {"renew", "renewAuto"})
  BY <1>1, <1>3, PlaceIs DEF Situation, Mode
<1>7. ~Top.running <=> Place = "auto"
  <2>1. CASE over = NoTalker
    BY <1>6, <2>1, PlaceIs DEF Situation, AutoLogsIn
  <2>2. CASE over # NoTalker
    BY <1>6, <2>2, PlaceIs DEF Situation, TalkersOK
  <2> QED
    BY <2>1, <2>2
<1> QED
  BY <1>3, <1>4, <1>5, <1>6, <1>7

LEMMA Concats ==
  /\ <<>> \o <<>> = <<>>
  /\ \A w : <<>> \o <<w>> = <<w>> /\ Append(<<>>, w) = <<w>>
<1>1. <<>> \o <<>> = <<>>
  BY ConcatEmptySeq, EmptySeq
<1>2. ASSUME NEW w PROVE <<>> \o <<w>> = <<w>> /\ Append(<<>>, w) = <<w>>
  <2>1. <<w>> \in Seq({w}) /\ <<>> \in Seq({w})
    OBVIOUS
  <2>2. <<>> \o <<w>> = <<w>>
    BY <2>1, ConcatEmptySeq, Zenon
  <2> QED
    BY <2>1, <2>2
<1> QED
  BY <1>1, <1>2

LEMMA Pair ==
  ASSUME NEW v, NEW w
  PROVE  <<v>> \o <<w>> = <<v, w>> /\ Append(<<v>>, w) = <<v, w>>
<1>1. <<v>> \in Seq({v, w}) /\ <<w>> \in Seq({v, w}) /\ <<v, w>> \in Seq({v, w})
      /\ Len(<<v>>) = 1 /\ Len(<<w>>) = 1 /\ Len(<<v, w>>) = 2
      /\ <<v>>[1] = v /\ <<w>>[1] = w /\ <<v, w>>[1] = v /\ <<v, w>>[2] = w
  OBVIOUS
<1>2. PICK s, t, u : s = <<v>> /\ t = <<w>> /\ u = <<v, w>>
  OBVIOUS
<1>3. /\ s \o t \in Seq({v, w}) /\ Len(s \o t) = 2
      /\ (s \o t)[1] = v /\ (s \o t)[2] = w
  <2>1. s \in Seq({v, w}) /\ t \in Seq({v, w}) /\ Len(s) = 1 /\ Len(t) = 1 /\ s[1] = v /\ t[1] = w
    BY <1>1, <1>2
  <2>2. /\ s \o t \in Seq({v, w}) /\ Len(s \o t) = Len(s) + Len(t)
        /\ \A i \in 1 .. Len(s) + Len(t) : (s \o t)[i] = IF i <= Len(s) THEN s[i] ELSE t[i - Len(s)]
    BY <2>1, ConcatProperties
  <2> QED
    BY <2>1, <2>2
<1>4. u \in Seq({v, w}) /\ Len(u) = 2 /\ u[1] = v /\ u[2] = w
  BY <1>1, <1>2
<1>5. s \o t = u
  BY <1>3, <1>4, SeqEqual
<1>6. Append(s, w) = s \o <<w>>
  <2>1. s \in Seq({v, w}) /\ w \in {v, w}
    BY <1>1, <1>2
  <2> QED
    BY <2>1, AppendIsConcat
<1> QED
  BY <1>2, <1>5, <1>6, Zenon

LEMMA OneAlone ==
  ASSUME NEW w
  PROVE  <<w>> \o <<>> = <<w>>
<1>1. PICK s : s = <<w>>
  OBVIOUS
<1>2. s \in Seq({w})
  BY <1>1
<1>3. s \o <<>> = s
  BY <1>2, ConcatEmptySeq
<1> QED
  BY <1>1, <1>3, Zenon

\* A word for the talker.
Listens == /\ Orderly /\ Situation /\ gpc = "dialog" /\ Top.reads /\ down # <<>>
           /\ down' = Tail(down) /\ UNCHANGED <<conf, core>>

LEMMA ReadsPrompt ==
  ASSUME Listens, NEW w \in {"getUser", "getMore", "getNow"}, w = Head(down), Prompted(w),
         gpc' = gpc
  PROVE  TalkersOK' /\ Talks'
<1>1. /\ up = <<>> /\ w \in Hears(conf, Place) /\ Top.state \in {"busy", "idle"}
      /\ Tail(down) \in Seq(Words)
      /\ ~Top.running <=> Place = "auto"
  BY TalkerListens DEF Listens
<1>2. PICK m \in Modes, e \in Modes :
         /\ m.in = Goes(Place, w) /\ m.turn = Turn(Place, w)
         /\ Run(conf, m, Tail(down), e) /\ Fits(e)
         /\ m.turn # "core" => Tail(down) = <<>> /\ e = m
  BY TalkerListens DEF Listens
<1>3. Place \in {"login", "auto", "shutdown", "renew", "renewAuto"}
  BY PlaceIs DEF Listens, Situation
<1>4. /\ Place # "auto" /\ m.in = Place /\ m.turn = (IF w = "getNow" THEN "getNow" ELSE "prompt")
      /\ w = "getNow" => Plugin = "classic"
  BY <1>1, <1>2, <1>3 DEF Hears, Goes, Turn, Quiet, Plugin
<1>5. Tail(down) = <<>> /\ At("answer") /\ Company(Place)
  BY <1>2, <1>3, <1>4 DEF Fits
<1> DEFINE t == [Top EXCEPT !.state = "prompting",
                            !.asked = IF w = "getUser" THEN "user" ELSE "more"]
<1>6. /\ Top \in Talkers /\ TalkerOK(Top)
      /\ Top.plugin = (IF Place = "renewAuto" THEN "classic" ELSE Plugin)
  BY PlaceIs DEF Listens, Situation
<1>7. /\ t \in Talkers /\ t.state = "prompting" /\ t.asked # "no" /\ t.running /\ t.reads
      /\ t.ctx = Top.ctx /\ t.plugin = Top.plugin /\ t.counting = Top.counting
      /\ t.failed = Top.failed
  BY <1>1, <1>4, <1>6, TalkersAre DEF Listens
<1>8. ~t.counting /\ ~t.failed
  BY <1>1, <1>4, <1>6, <1>7 DEF TalkerOK
<1>9. \/ Puts([t |-> t, out |-> <<>>]) /\ ~(w = "getNow" /\ Top.plugin = "classic")
      \/ Puts(Returned([t |-> t, out |-> <<>>], "text"))
  BY DEF Prompted
<1> HIDE DEF t
<1>10. CASE Puts([t |-> t, out |-> <<>>]) /\ ~(w = "getNow" /\ Top.plugin = "classic")
  <2>1. PICK r : r = [t |-> t, out |-> <<>>]
    OBVIOUS
  <2>2. TalkerOK(r.t) /\ r.t = t /\ r.t # NoTalker
    BY <1>7, <1>8, <2>1, NoTalkerIs DEF TalkerOK
  <2>3. /\ TalkersOK' /\ ((login = NoTalker) <=> (login' = NoTalker))
        /\ Place' = IF over # NoTalker THEN Place ELSE "login"
        /\ Mode'.turn = "prompt"
    BY <1>7, <1>8, <1>10, <2>1, <2>2, PutsIs DEF Listens, Situation
  <2>4. Place' = Place
    BY <1>4, <2>3, PlaceIs DEF Listens, Situation
  <2>5. m.turn = "prompt"
    BY <1>4, <1>6, <1>10
  <2>6. up' = <<>>
    <3>1. up' = up \o r.out
      BY <1>10, <2>1, Zenon DEF Puts
    <3>2. r.out = <<>>
      BY <2>1
    <3> QED
      BY <1>1, <3>1, <3>2, Concats, Zenon
  <2>7. Talks'
    BY <1>1, <1>2, <1>4, <2>3, <2>4, <2>5, <2>6, Follows DEF Listens
  <2> QED
    BY <2>3, <2>7
<1>11. CASE Puts(Returned([t |-> t, out |-> <<>>], "text"))
  <2>1. PICK r : r = Returned([t |-> t, out |-> <<>>], "text")
    OBVIOUS
  <2>2. ASSUME NEW out, r = Returned([t |-> t, out |-> out], "text")
        PROVE  /\ r.t \in Talkers /\ r.t.state = "busy" /\ r.t.asked # "no" /\ r.t.running
               /\ r.t.ctx = Top.ctx /\ r.t.plugin = Top.plugin /\ ~r.t.counting /\ ~r.t.failed
               /\ r.out = Append(out, "text")
    BY <1>7, <1>8, <2>2, TextIs
  <2>3. /\ r.t \in Talkers /\ r.t.state = "busy" /\ r.t.asked # "no" /\ r.t.running
        /\ r.t.ctx = Top.ctx /\ r.t.plugin = Top.plugin /\ ~r.t.counting /\ ~r.t.failed
        /\ r.out = Append(<<>>, "text")
    BY <2>1, <2>2, Zenon
  <2>4. TalkerOK(r.t)
    BY <2>3 DEF TalkerOK
  <2>5. /\ TalkersOK' /\ ((login = NoTalker) <=> (login' = NoTalker))
        /\ Place' = IF over # NoTalker THEN Place ELSE "login"
        /\ Mode'.turn = "core"
    BY <1>11, <2>1, <2>3, <2>4, PutsIs DEF Listens, Situation
  <2>6. Place' = Place
    BY <1>4, <2>5, PlaceIs DEF Listens, Situation
  <2>7. up' = <<"text">>
    BY <1>1, <1>11, <2>1, <2>3 DEF Puts
  <2>8. Company(Place)' /\ At("answer")' /\ gpc' = "dialog"
    <3>1. PICK p : p = Place
      OBVIOUS
    <3>2. Company(p)'
      BY <1>5, <2>5, <3>1, CompanyFrame DEF Listens
    <3>3. Company(Place)'
      BY <2>6, <3>1, <3>2 DEF Company
    <3> QED
      BY <1>5, <3>3, FieldsFrame DEF Listens
  <2>9. Talks'
    BY <1>5, <2>5, <2>7, <2>8 DEF Listens, Talks, Upward
  <2> QED
    BY <2>5, <2>9
<1> QED
  BY <1>9, <1>10, <1>11

\* Core is busy, or has done what it was to do.
Busied == [Top EXCEPT !.state = "busy"]
Done == [Top EXCEPT !.state = "idle", !.running = FALSE, !.reads = FALSE, !.asked = "no"]

LEMMA ReaderIs ==
  ASSUME Listens
  PROVE  /\ Busied \in Talkers /\ Busied.state = "busy" /\ Busied.running = Top.running
         /\ Busied.reads = Top.reads /\ Busied.failed = Top.failed /\ Busied.asked = Top.asked
         /\ Busied.counting = FALSE /\ Busied.plugin = Top.plugin /\ Busied.ctx = Top.ctx
         /\ Done \in Talkers /\ Done.state = "idle" /\ ~Done.running /\ ~Done.reads
         /\ Done.asked = "no" /\ Done.failed = Top.failed /\ Done.counting = FALSE
         /\ Done.plugin = Top.plugin /\ Done.ctx = Top.ctx
         /\ Top \in Talkers /\ Top.counting = FALSE
<1>1. /\ Top \in Talkers /\ TalkerOK(Top)
      /\ \/ over = NoTalker /\ Top = login
         \/ over # NoTalker /\ Top = over
  BY PlaceIs DEF Listens, Situation
<1>2. Top.counting \in BOOLEAN
  BY <1>1 DEF Talkers
<1>3. PICK w : w = Head(down)
  OBVIOUS
<1>4. Top.state = "busy" \/ (Top.state = "idle" /\ Place \in {"renew", "renewAuto"})
  BY <1>3, TalkerListens DEF Listens
<1>5. ~Top.counting
  <2>1. CASE Top.state = "busy"
    BY <1>1, <2>1 DEF TalkerOK
  <2>2. CASE Place \in {"renew", "renewAuto"}
    <3>1. over # NoTalker /\ Top = over
      BY <2>2, PlaceIs DEF Listens, Situation
    <3> QED
      BY <3>1 DEF Listens, Situation, TalkersOK
  <2> QED
    BY <1>4, <2>1, <2>2
<1>6. /\ Busied \in Talkers /\ Busied.state = "busy" /\ Busied.running = Top.running
      /\ Busied.reads = Top.reads /\ Busied.failed = Top.failed /\ Busied.asked = Top.asked
      /\ Busied.counting = Top.counting /\ Busied.plugin = Top.plugin /\ Busied.ctx = Top.ctx
  BY <1>1, TalkersAre DEF Busied
<1> DEFINE u == [Top EXCEPT !.state = "idle", !.running = FALSE]
<1>7. /\ u \in Talkers /\ u.state = "idle" /\ ~u.running /\ u.failed = Top.failed
      /\ u.counting = Top.counting /\ u.plugin = Top.plugin /\ u.ctx = Top.ctx
  BY <1>1, TalkersAre
<1>8. Done = [u EXCEPT !.reads = FALSE, !.asked = "no"]
  BY DEF Done
<1> HIDE DEF u
<1>9. /\ Done \in Talkers /\ Done.state = "idle" /\ ~Done.running /\ ~Done.reads
      /\ Done.asked = "no" /\ Done.failed = Top.failed /\ Done.counting = Top.counting
      /\ Done.plugin = Top.plugin /\ Done.ctx = Top.ctx
  BY <1>7, <1>8, TalkersAre
<1> QED
  BY <1>1, <1>2, <1>5, <1>6, <1>9

\* The talker of the dialog goes on, core being busy in its opinion.
LEMMA BusyPut ==
  ASSUME Listens, gpc' = "dialog", NEW r, Puts(r), r.t \in Talkers, r.t.state = "busy",
         r.t.running = Top.running, r.t.reads = Top.reads, r.t.failed = Top.failed,
         r.t.counting = FALSE, r.t.plugin = Top.plugin, r.t.ctx = Top.ctx
  PROVE  /\ TalkersOK' /\ ((login = NoTalker) <=> (login' = NoTalker))
         /\ Place' = Place /\ Mode'.turn = "core" /\ up' = r.out
<1>1. PICK w : w = Head(down)
  OBVIOUS
<1>2. up = <<>> /\ (~Top.running <=> Place = "auto")
  BY <1>1, TalkerListens DEF Listens
<1>3. /\ Top \in Talkers /\ TalkerOK(Top)
      /\ \/ /\ over = NoTalker /\ login # NoTalker /\ Top = login /\ over.ctx = "login"
            /\ Place = IF AutoLogsIn THEN "auto" ELSE "login"
         \/ over # NoTalker /\ Top = over
  BY PlaceIs DEF Listens, Situation
<1>4. TalkerOK(r.t)
  BY <1>3 DEF TalkerOK
<1>5. over # NoTalker => ~r.t.counting /\ (r.t.reads \/ r.t.state = "busy" => r.t.running)
  <2>1. over # NoTalker => Place # "auto"
    BY PlaceIs DEF Listens, Situation
  <2> QED
    BY <1>2, <2>1
<1>6. /\ TalkersOK' /\ ((login = NoTalker) <=> (login' = NoTalker))
      /\ Place' = IF over # NoTalker THEN Place
                  ELSE IF r.t.state = "busy" /\ ~r.t.running THEN "auto" ELSE "login"
      /\ Mode'.turn = IF r.t.state = "prompting" THEN "prompt"
                      ELSE IF r.t.state = "idle" /\ Place \notin {"renew", "renewAuto"} THEN "idle"
                      ELSE "core"
  BY <1>4, <1>5, PutsIs DEF Listens, Situation
<1>7. Place' = Place
  BY <1>2, <1>3, <1>6
<1>8. up' = r.out
  <2>1. up' = up \o r.out
    BY Zenon DEF Puts
  <2> QED
    BY <1>2, <2>1
<1> QED
  BY <1>6, <1>7, <1>8

LEMMA ReadsMsg ==
  ASSUME Listens, Head(down) = "msg", gpc' = gpc, armed' = FALSE,
         Puts([t |-> Busied, out |-> Ack])
  PROVE  TalkersOK' /\ Talks'
<1>1. PICK w : w = "msg" /\ w = Head(down)
  OBVIOUS
<1>2. w \in Hears(conf, Place)
  BY <1>1, TalkerListens DEF Listens
<1>3. PICK m \in Modes, e \in Modes :
         /\ m.in = Goes(Place, w) /\ m.turn = Turn(Place, w)
         /\ Run(conf, m, Tail(down), e) /\ Fits(e)
         /\ m.turn # "core" => Tail(down) = <<>> /\ e = m
  BY <1>1, TalkerListens DEF Listens
<1>4. Place \in {"login", "auto", "shutdown", "renew", "renewAuto"}
  BY PlaceIs DEF Listens, Situation
<1>5. m.in = Place /\ m.turn = "msg"
  BY <1>1, <1>3, <1>4 DEF Goes, Turn, Quiet
<1>6. Tail(down) = <<>> /\ At("ack") /\ Company(Place)
  BY <1>3, <1>4, <1>5 DEF Fits
<1>7. PICK r : r = [t |-> Busied, out |-> Ack]
  OBVIOUS
<1>8. /\ TalkersOK' /\ ((login = NoTalker) <=> (login' = NoTalker))
      /\ Place' = Place /\ Mode'.turn = "core" /\ up' = r.out
  BY <1>7, ReaderIs, BusyPut DEF Listens
<1>9. up' = <<"ack">>
  <2>1. ~armed
    BY DEF Listens, Orderly, InputBreach, Calm
  <2> QED
    BY <1>7, <1>8, <2>1 DEF Ack, Touch
<1>10. Company(Place)' /\ At("ack")' /\ gpc' = "dialog"
  <2>1. PICK p : p = Place
    OBVIOUS
  <2>2. Company(p)'
    BY <1>6, <1>8, <2>1, CompanyFrame DEF Listens
  <2>3. Company(Place)'
    BY <1>8, <2>1, <2>2 DEF Company
  <2> QED
    BY <1>6, <2>3, FieldsFrame DEF Listens
<1> QED
  BY <1>6, <1>8, <1>9, <1>10 DEF Listens, Talks, Upward

\* Words that only tell it what core does next.
LEMMA ReadsQuiet ==
  ASSUME Listens, gpc' = gpc, Head(down) \in {"putUser", "preOk"},
         NEW r, Puts(r), r.t \in Talkers, r.t.state = "busy",
         r.t.running = Top.running, r.t.reads = Top.reads, r.t.failed = Top.failed,
         r.t.counting = FALSE, r.t.plugin = Top.plugin, r.t.ctx = Top.ctx, r.out = <<>>
  PROVE  TalkersOK' /\ Talks'
<1>1. PICK w : w \in {"putUser", "preOk"} /\ w = Head(down)
  OBVIOUS
<1>2. w \in Hears(conf, Place) /\ Tail(down) \in Seq(Words)
  BY <1>1, TalkerListens DEF Listens
<1>3. PICK m \in Modes, e \in Modes :
         /\ m.in = Goes(Place, w) /\ m.turn = Turn(Place, w)
         /\ Run(conf, m, Tail(down), e) /\ Fits(e)
  BY <1>1, TalkerListens DEF Listens
<1>4. Place \in {"login", "auto", "shutdown", "renew", "renewAuto"}
  BY PlaceIs DEF Listens, Situation
<1>5. m.in = Place /\ m.turn = "core"
  BY <1>1, <1>3, <1>4 DEF Goes, Turn, Quiet
<1>6. /\ TalkersOK' /\ ((login = NoTalker) <=> (login' = NoTalker))
      /\ Place' = Place /\ Mode'.turn = "core" /\ up' = <<>>
  BY BusyPut DEF Listens
<1>7. Talks'
  BY <1>2, <1>3, <1>5, <1>6, Follows DEF Listens
<1> QED
  BY <1>6, <1>7

\* The password is to be renewed.
LEMMA ReadsRenew ==
  ASSUME Listens, gpc' = gpc, Head(down) \in {"chtok", "chtokAuth"}, over = NoTalker,
         login' = Done, over' = Renewal(Plugin), up' = up
  PROVE  TalkersOK' /\ Talks'
<1>1. PICK w : w \in {"chtok", "chtokAuth"} /\ w = Head(down)
  OBVIOUS
<1>2. w \in Hears(conf, Place) /\ Tail(down) \in Seq(Words) /\ up = <<>>
  BY <1>1, TalkerListens DEF Listens
<1>3. PICK m \in Modes, e \in Modes :
         /\ m.in = Goes(Place, w) /\ m.turn = Turn(Place, w)
         /\ Run(conf, m, Tail(down), e) /\ Fits(e)
  BY <1>1, TalkerListens DEF Listens
<1>4. Place \in {"login", "auto"} /\ login # NoTalker /\ Top = login
  BY PlaceIs DEF Listens, Situation
<1>5. m.in = "renew" /\ m.turn = "core"
  BY <1>1, <1>3, <1>4 DEF Goes, Turn, Quiet
<1>6. /\ over'.state = "busy" /\ over'.asked = "no" /\ ~over'.counting
      /\ over'.plugin = Plugin /\ over'.ctx = "renew" /\ over'.running /\ ~over'.failed
      /\ over' # NoTalker
  <2>1. /\ over'.state = "busy" /\ over'.asked = "no" /\ ~over'.counting
        /\ over'.plugin = Plugin /\ over'.ctx = "renew" /\ over'.running /\ ~over'.failed
    BY DEF Renewal
  <2> QED
    BY <2>1, NoTalkerIs
<1>7. /\ login'.state = "idle" /\ ~login'.running /\ ~login'.reads /\ login'.asked = "no"
      /\ ~login'.counting /\ login'.ctx = login.ctx /\ login'.plugin = login.plugin
      /\ login' # NoTalker
  BY <1>4, ReaderIs, NoTalkerIs
<1>8. NoTalker' = NoTalker /\ Plugin' = Plugin /\ Timed' = Timed /\ gpc' = "dialog"
  BY NamesFrame DEF Listens
<1>9. TalkersOK'
  <2>1. login.ctx = "login" /\ login.plugin = Plugin
    BY DEF Listens, Situation, TalkersOK
  <2>2. TalkerOK(login)' /\ TalkerOK(over)'
    BY <1>6, <1>7, <1>8 DEF TalkerOK
  <2> QED
    BY <1>6, <1>7, <1>8, <2>1, <2>2 DEF TalkersOK
<1>10. Place' = "renew" /\ Mode'.turn = "core"
  BY <1>6, <1>7, <1>8 DEF Mode, Place, Top
<1>11. Talks'
  BY <1>2, <1>3, <1>4, <1>5, <1>7, <1>10, Follows DEF Listens
<1> QED
  BY <1>9, <1>11

\* The login dialog is shown after the greeter has sent pre, and waits or verifies.
LEMMA LoginSends ==
  ASSUME UNCHANGED <<conf, core>>, GreeterTyped', TalkersOK', NEW pre, Heeds(pre),
         CoreCaller = "wait", down' = <<>>, gpc' = "dialog", over' = NoTalker,
         login' # NoTalker,
         \/ login'.state = "idle" /\ up' = pre \o <<>>
         \/ login'.state = "busy" /\ login'.running /\ up' = pre \o <<"verify">>
  PROVE  Talks'
<1>1. Mode' = [in |-> "login", turn |-> TurnOf(login')] /\ Place' = "login"
  BY LoginShown
<1>2. NoTalker' = NoTalker /\ Plugin' = Plugin /\ CoreCaller' = CoreCaller
  BY FieldsFrame
<1>3. CASE login'.state = "idle" /\ up' = pre \o <<>>
  <2>1. PICK c \in Commandings : c = <<>>
    BY DEF Commandings
  <2>2. Mode'.turn = "idle"
    BY <1>1, <1>3 DEF TurnOf
  <2>3. Commanded(c)'
    BY <1>2, <2>1, <2>2 DEF Commanded
  <2> QED
    BY <1>3, <2>1, <2>3, Sends
<1>4. CASE login'.state = "busy" /\ login'.running /\ up' = pre \o <<"verify">>
  <2>1. PICK c \in Commandings : c = <<"verify">>
    BY DEF Commandings
  <2>2. Mode' = [in |-> "login", turn |-> "core"]
    BY <1>1, <1>4 DEF TurnOf
  <2>3. Commanded(c)'
    BY <1>2, <2>1, <2>2 DEF Commanded
  <2> QED
    BY <1>4, <2>1, <2>3, Sends
<1> QED
  BY <1>3, <1>4

\* The same of a dialog that asks for a shutdown.
LEMMA ShutdownSends ==
  ASSUME UNCHANGED <<conf, core>>, GreeterTyped', TalkersOK', NEW pre, Heeds(pre),
         down' = <<>>, gpc' = "dialog", over' # NoTalker, over'.ctx = "shutdown",
         \/ CoreCaller = "wait" /\ login' # NoTalker
         \/ CoreCaller = "confirm" /\ login' = NoTalker,
         \/ over'.state = "idle" /\ up' = pre \o <<>>
         \/ over'.state = "busy" /\ up' = pre \o <<"verifyRoot">>
  PROVE  Talks'
<1>1. Mode' = [in |-> "shutdown", turn |-> TurnOf(over')] /\ Place' = "shutdown"
  BY ShutdownShown
<1>2. NoTalker' = NoTalker /\ Plugin' = Plugin /\ CoreCaller' = CoreCaller
  BY FieldsFrame
<1>3. CASE over'.state = "idle" /\ up' = pre \o <<>>
  <2>1. PICK c \in Commandings : c = <<>>
    BY DEF Commandings
  <2>2. Mode'.turn = "idle"
    BY <1>1, <1>3 DEF TurnOf
  <2>3. Commanded(c)'
    BY <1>2, <2>1, <2>2 DEF Commanded
  <2> QED
    BY <1>3, <2>1, <2>3, Sends
<1>4. CASE over'.state = "busy" /\ up' = pre \o <<"verifyRoot">>
  <2>1. PICK c \in Commandings : c = <<"verifyRoot">>
    BY DEF Commandings
  <2>2. Mode' = [in |-> "shutdown", turn |-> "core"]
    BY <1>1, <1>4 DEF TurnOf
  <2>3. Commanded(c)'
    BY <1>2, <2>1, <2>2 DEF Commanded
  <2> QED
    BY <1>4, <2>1, <2>3, Sends
<1> QED
  BY <1>3, <1>4

\* suspend() and resume().
LEMMA ResumedIs ==
  ASSUME NEW t \in Talkers, NEW out, NEW s, s = Resumed([t |-> t, out |-> out])
  PROVE  /\ s.t \in Talkers
         /\ s.t.running = t.running /\ s.t.reads /\ s.t.failed = t.failed
         /\ s.t.counting = t.counting /\ s.t.plugin = t.plugin /\ s.t.ctx = t.ctx
         /\ s.t.asked = IF t.running THEN "no" ELSE t.asked
         /\ s.t.state = IF t.running /\ Starts(t) THEN "busy" ELSE t.state
         /\ s.out = IF t.running /\ Starts(t)
                    THEN Append(out, IF t.ctx = "shutdown" THEN "verifyRoot" ELSE "verify")
                    ELSE out
<1> DEFINE u == [t EXCEPT !.reads = TRUE]
<1>1. /\ u \in Talkers /\ u.state = t.state /\ u.plugin = t.plugin /\ u.ctx = t.ctx
      /\ u.running = t.running /\ u.reads /\ u.failed = t.failed
      /\ u.counting = t.counting /\ u.asked = t.asked
  BY TalkersAre
<1>2. s = IF u.running THEN PluginStart([t |-> u, out |-> out]) ELSE [t |-> u, out |-> out]
  BY DEF Resumed
<1> HIDE DEF u
<1>3. CASE u.running
  <2>1. s = PluginStart([t |-> u, out |-> out])
    BY <1>2, <1>3
  <2>2. /\ s.t \in Talkers
        /\ s.t.running = u.running /\ s.t.reads = u.reads /\ s.t.failed = u.failed
        /\ s.t.counting = u.counting /\ s.t.plugin = u.plugin /\ s.t.ctx = u.ctx
        /\ s.t.asked = "no"
        /\ s.t.state = IF Starts(u) THEN "busy" ELSE u.state
        /\ s.out = IF Starts(u)
                   THEN Append(out, IF u.ctx = "shutdown" THEN "verifyRoot" ELSE "verify")
                   ELSE out
    BY <1>1, <2>1, PluginStartIs, ZenonT(60)
  <2>3. t.running /\ (Starts(u) <=> Starts(t))
    BY <1>1, <1>3 DEF Starts
  <2> QED
    BY <1>1, <2>2, <2>3
<1>4. CASE ~u.running
  <2>1. s = [t |-> u, out |-> out]
    BY <1>2, <1>4
  <2> QED
    BY <1>1, <1>4, <2>1
<1> QED
  BY <1>3, <1>4

LEMMA SuspendedIs ==
  ASSUME NEW t \in Talkers, NEW out, NEW s, s = Suspended([t |-> t, out |-> out])
  PROVE  /\ s.t \in Talkers
         /\ s.t.running = t.running /\ ~s.t.reads /\ s.t.failed = t.failed
         /\ s.t.counting = t.counting /\ s.t.plugin = t.plugin /\ s.t.ctx = t.ctx
         /\ s.t.asked = IF t.running THEN "no" ELSE t.asked
         /\ s.t.state = IF t.running /\ t.asked # "no" THEN "idle" ELSE t.state
         /\ s.out = IF t.running /\ t.asked # "no" THEN Append(out, "null") ELSE out
<1>1. PICK a : a = IF t.running THEN PluginAbort([t |-> t, out |-> out]) ELSE [t |-> t, out |-> out]
  OBVIOUS
<1>2. /\ a.t \in Talkers
      /\ a.t.running = t.running /\ a.t.reads = t.reads /\ a.t.failed = t.failed
      /\ a.t.counting = t.counting /\ a.t.plugin = t.plugin /\ a.t.ctx = t.ctx
      /\ a.t.asked = IF t.running THEN "no" ELSE t.asked
      /\ a.t.state = IF t.running /\ t.asked # "no" THEN "idle" ELSE t.state
      /\ a.out = IF t.running /\ t.asked # "no" THEN Append(out, "null") ELSE out
  <2>1. CASE t.running
    <3>1. a = PluginAbort([t |-> t, out |-> out])
      BY <1>1, <2>1
    <3>2. /\ a.t \in Talkers
          /\ a.t.running = t.running /\ a.t.reads = t.reads /\ a.t.failed = t.failed
          /\ a.t.counting = t.counting /\ a.t.plugin = t.plugin /\ a.t.ctx = t.ctx
          /\ a.t.asked = "no"
          /\ a.t.state = IF t.asked = "no" THEN t.state ELSE "idle"
          /\ a.out = IF t.asked = "no" THEN out ELSE Append(out, "null")
      BY <3>1, PluginAbortIs
    <3> QED
      BY <2>1, <3>2
  <2>2. CASE ~t.running
    BY <1>1, <2>2
  <2> QED
    BY <2>1, <2>2
<1>3. s = [t |-> [a.t EXCEPT !.reads = FALSE], out |-> a.out]
  BY <1>1 DEF Suspended
<1>4. PICK u : u = [a.t EXCEPT !.reads = FALSE]
  OBVIOUS
<1>5. /\ u \in Talkers /\ u.state = a.t.state /\ u.plugin = a.t.plugin /\ u.ctx = a.t.ctx
      /\ u.running = a.t.running /\ ~u.reads /\ u.failed = a.t.failed
      /\ u.counting = a.t.counting /\ u.asked = a.t.asked
  BY <1>2, <1>4, TalkersAre
<1>6. s.t = u /\ s.out = a.out
  <2>1. s = [t |-> u, out |-> a.out]
    BY <1>3, <1>4, Zenon
  <2> QED
    BY <2>1
<1>7. /\ u.running = t.running /\ u.failed = t.failed
      /\ u.counting = t.counting /\ u.plugin = t.plugin /\ u.ctx = t.ctx
      /\ u.asked = IF t.running THEN "no" ELSE t.asked
      /\ u.state = IF t.running /\ t.asked # "no" THEN "idle" ELSE t.state
  BY <1>2, <1>5
<1> QED
  BY <1>2, <1>5, <1>6, <1>7

\* core has returned from verify().
LEMMA CoreReturned ==
  ASSUME Listens, NEW w \in {"ok", "auth", "fail"}, w = Head(down)
  PROVE  /\ Place \in {"login", "auto", "shutdown"} =>
              /\ Tail(down) = <<>>
              /\ \/ At("wait") /\ login # NoTalker
                 \/ At("confirm") /\ login = NoTalker /\ Place = "shutdown"
         /\ w = "ok" /\ Place \in {"login", "auto", "renew"} =>
              Tail(down) = <<>> /\ At("wait") /\ core.verified = "user"
         /\ w = "ok" /\ Place = "renewAuto" => Tail(down) = <<>> /\ At("closing")
<1>1. PICK m \in Modes, e \in Modes :
         /\ m.in = Goes(Place, w) /\ m.turn = Turn(Place, w)
         /\ Run(conf, m, Tail(down), e) /\ Fits(e)
         /\ m.turn # "core" => Tail(down) = <<>> /\ e = m
  BY TalkerListens DEF Listens
<1>2. CASE Place \in {"login", "auto", "shutdown"} \/ (w = "ok" /\ Place \in {"renew", "renewAuto"})
  <2>1. m.in = Place /\ m.turn = w /\ w # "core"
    BY <1>1, <1>2 DEF Goes, Turn, Quiet
  <2>2. Tail(down) = <<>> /\ Fits(m)
    BY <1>1, <2>1
  <2> QED
    BY <1>2, <2>1, <2>2, PlaceIs DEF Fits, At, Listens, Situation
<1> QED
  BY <1>2

\* The login dialog has done its work.
LEMMA LoginEnds ==
  ASSUME Listens, Head(down) = "ok", Place \in {"login", "auto", "renew"}, NEW r,
         r.t \in Talkers, TalkerOK(r.t), r.t.ctx = "login", r.t.plugin = Plugin, LoginOk(r)
  PROVE  TalkersOK' /\ Talks'
<1>1. PICK w \in {"ok", "auth", "fail"} : w = "ok" /\ w = Head(down)
  OBVIOUS
<1>2. Tail(down) = <<>> /\ At("wait") /\ core.verified = "user"
  BY <1>1, CoreReturned
<1>3. up = <<>>
  BY <1>1, TalkerListens DEF Listens
<1>4. gpc' = "final" /\ login' = r.t /\ over' = NoTalker
  BY DEF LoginOk
<1>5. NoTalker' = NoTalker /\ Plugin' = Plugin /\ Timed' = Timed /\ At("wait")' /\ core' = core
  BY <1>2, FieldsFrame DEF Listens
<1>6. TalkersOK'
  BY <1>4, <1>5, NoTalkerIs DEF TalkersOK, TalkerOK
<1>7. PICK c \in Commandings : c \in {<<"ready">>, <<"putDmrc", "ready">>} /\ up' = c /\ c # <<>>
  <2>1. PICK put \in {<<>>, <<"putDmrc">>} : up' = up \o put \o <<"ready">>
    BY DEF LoginOk
  <2>2. up \o put = put
    BY <1>3, Concats
  <2>3. up' = put \o <<"ready">>
    BY <2>1, <2>2, Zenon
  <2>4. up' \in {<<"ready">>, <<"putDmrc", "ready">>}
    <3>1. CASE put = <<>>
      BY <2>3, <3>1, Concats
    <3>2. CASE put = <<"putDmrc">>
      <4>1. <<"putDmrc">> \o <<"ready">> = <<"putDmrc", "ready">>
        BY Pair
      <4>2. up' = <<"putDmrc">> \o <<"ready">>
        BY <2>3, <3>2, Zenon
      <4> QED
        BY <4>1, <4>2
    <3> QED
      BY <3>1, <3>2
  <2> QED
    BY <2>4 DEF Commandings
<1>8. Commanded(c)'
  BY <1>2, <1>4, <1>5, <1>7 DEF Commanded
<1>9. down' = <<>> /\ core'.pc \in {"wait", "confirm"}
  BY <1>2, <1>5 DEF Listens, At
<1> QED
  BY <1>6, <1>7, <1>8, <1>9 DEF Talks, Upward

LEMMA ReadsOk ==
  ASSUME Listens, Head(down) = "ok", GreeterTyped', TalkerOk
  PROVE  TalkersOK' /\ Talks'
<1>1. PICK w \in {"ok", "auth", "fail"} : w = "ok" /\ w = Head(down)
  OBVIOUS
<1>2. up = <<>>
  BY <1>1, TalkerListens DEF Listens
<1>3. /\ login \in Talkers /\ TalkerOK(login) /\ login.ctx = "login" /\ login.plugin = Plugin
      /\ over.state # "none" => login.state \in {"none", "idle"}
  BY DEF Listens, Situation, GreeterTyped, TalkersOK
<1>4. /\ NoTalker' = NoTalker /\ Plugin' = Plugin /\ Timed' = Timed /\ core' = core
      /\ (At("closing")' <=> At("closing")) /\ CoreCaller' = CoreCaller
  BY FieldsFrame DEF Listens
<1>5. CASE over.ctx = "shutdown"
  <2>1. Place = "shutdown" /\ over # NoTalker /\ ShutdownClosed(<<>>) /\ over' = NoTalker
    BY <1>5, PlaceIs, NoTalkerIs DEF Listens, Situation, TalkerOk, ShutdownClosed
  <2>2. /\ Tail(down) = <<>>
        /\ \/ At("wait") /\ login # NoTalker
           \/ At("confirm") /\ login = NoTalker
    BY <1>1, <2>1, CoreReturned
  <2>3. CASE login = NoTalker
    <3>1. gpc' = "gone" /\ up' = up \o Append(<<>>, "ready") /\ login' = login
      BY <2>1, <2>3 DEF ShutdownClosed
    <3>2. TalkersOK'
      <4>1. login' = NoTalker /\ over' = NoTalker /\ gpc' = "gone"
        BY <2>1, <2>3, <3>1
      <4> QED
        BY <1>4, <4>1, NoTalkerIs DEF TalkersOK, TalkerOK
    <3>3. PICK c \in Commandings : c = <<"ready">>
      BY DEF Commandings
    <3>4. CoreCaller = "confirm" /\ core.pc = "confirm"
      BY <2>2, <2>3 DEF CoreCaller, At
    <3>5. Commanded(c)'
      BY <1>4, <3>1, <3>3, <3>4 DEF Commanded
    <3>6. up' = c /\ c # <<>> /\ core'.pc = "confirm" /\ down' = <<>>
      BY <1>2, <1>4, <2>2, <3>1, <3>3, <3>4 DEF Listens
    <3> QED
      BY <3>2, <3>5, <3>6 DEF Talks, Upward
  <2>4. CASE login # NoTalker
    <3>1. login.state = "idle"
      BY <1>3, <2>1, <2>4 DEF TalkerOK, TalkersOK, Listens, Situation
    <3>2. PICK s : s = Resumed([t |-> login, out |-> <<>>])
      OBVIOUS
    <3>3. login' = s.t /\ up' = up \o s.out /\ gpc' = gpc
      BY <2>1, <2>4, <3>2 DEF ShutdownClosed
    <3>4. ASSUME NEW out, s = Resumed([t |-> login, out |-> out])
          PROVE  /\ s.t \in Talkers /\ s.t.running = login.running /\ s.t.reads
                 /\ s.t.failed = login.failed /\ s.t.counting = login.counting
                 /\ s.t.plugin = Plugin /\ s.t.ctx = "login"
                 /\ s.t.asked = IF login.running THEN "no" ELSE login.asked
                 /\ \/ s.t.state = "idle" /\ s.out = out
                    \/ s.t.state = "busy" /\ login.running /\ s.out = Append(out, "verify")
      <4>1. /\ s.t \in Talkers
            /\ s.t.running = login.running /\ s.t.reads /\ s.t.failed = login.failed
            /\ s.t.counting = login.counting /\ s.t.plugin = login.plugin /\ s.t.ctx = login.ctx
            /\ s.t.asked = IF login.running THEN "no" ELSE login.asked
            /\ s.t.state = IF login.running /\ Starts(login) THEN "busy" ELSE login.state
            /\ s.out = IF login.running /\ Starts(login)
                       THEN Append(out, IF login.ctx = "shutdown" THEN "verifyRoot" ELSE "verify")
                       ELSE out
        BY <1>3, <3>4, ResumedIs
      <4>2. CASE login.running /\ Starts(login)
        BY <1>3, <4>1, <4>2
      <4>3. CASE ~(login.running /\ Starts(login))
        BY <1>3, <3>1, <4>1, <4>3
      <4> QED
        BY <4>2, <4>3
    <3>5. /\ s.t \in Talkers /\ s.t.running = login.running /\ s.t.reads
          /\ s.t.failed = login.failed /\ s.t.counting = login.counting
          /\ s.t.plugin = Plugin /\ s.t.ctx = "login"
          /\ s.t.asked = IF login.running THEN "no" ELSE login.asked
          /\ \/ s.t.state = "idle" /\ s.out = <<>>
             \/ s.t.state = "busy" /\ login.running /\ s.out = Append(<<>>, "verify")
      BY <3>2, <3>4, Zenon
    <3>6. TalkerOK(s.t) /\ s.t # NoTalker
      BY <1>3, <3>1, <3>5, NoTalkerIs DEF TalkerOK
    <3>7. TalkersOK'
      <4>1. /\ over' = NoTalker /\ login' # NoTalker /\ TalkerOK(login') /\ gpc' = "dialog"
            /\ login'.ctx = "login" /\ login'.plugin = Plugin
        BY <2>1, <3>3, <3>5, <3>6 DEF Listens
      <4> QED
        BY <1>4, <4>1, NoTalkerIs DEF TalkersOK, TalkerOK
    <3>8. \/ login'.state = "idle" /\ up' = <<>>
          \/ login'.state = "busy" /\ login'.running /\ up' = <<"verify">>
      <4>1. CASE s.t.state = "idle" /\ s.out = <<>>
        BY <1>2, <3>3, <4>1
      <4>2. CASE s.t.state = "busy" /\ login.running /\ s.out = Append(<<>>, "verify")
        BY <1>2, <3>3, <3>5, <4>2
      <4> QED
        BY <3>5, <4>1, <4>2
    <3>9. gpc' = "dialog" /\ down' = <<>> /\ At("wait")
      BY <2>2, <2>4, <3>3 DEF Listens
    <3> QED
      BY <2>1, <3>3, <3>5, <3>6, <3>7, <3>8, <3>9, LoginWaits DEF Listens
  <2> QED
    BY <2>3, <2>4
<1>6. CASE over.ctx # "shutdown" /\ login = NoTalker
  <2>1. Place = "renewAuto"
    BY <1>6, PlaceIs DEF Listens, Situation
  <2>2. Tail(down) = <<>> /\ At("closing")
    BY <1>1, <2>1, CoreReturned
  <2>3. gpc' = "gone" /\ over' = NoTalker /\ up' = up /\ login' = login
    BY <1>6 DEF TalkerOk
  <2>4. TalkersOK'
    BY <1>3, <1>4, <1>6, <2>3, NoTalkerIs DEF TalkersOK, TalkerOK
  <2>5. Gone'
    BY <1>2, <1>4, <2>2, <2>3 DEF Gone, Listens, At
  <2> QED
    BY <2>4, <2>5 DEF Talks
<1>7. CASE over.ctx # "shutdown" /\ login # NoTalker
  <2>1. Place \in {"login", "auto", "renew"}
    BY <1>7, PlaceIs DEF Listens, Situation
  <2>2. PICK u : u = [login EXCEPT !.state = "idle", !.running = FALSE, !.reads = FALSE, !.asked = "no"]
    OBVIOUS
  <2>3. /\ u \in Talkers /\ u.state = "idle" /\ ~u.running /\ u.asked = "no" /\ u.ctx = "login"
        /\ u.plugin = Plugin /\ u.counting = login.counting /\ u.failed = login.failed
    <3> DEFINE v == [login EXCEPT !.state = "idle", !.running = FALSE]
    <3>1. /\ v \in Talkers /\ v.state = "idle" /\ ~v.running /\ v.failed = login.failed
          /\ v.counting = login.counting /\ v.plugin = login.plugin /\ v.ctx = login.ctx
      BY <1>3, TalkersAre
    <3>2. u = [v EXCEPT !.reads = FALSE, !.asked = "no"]
      BY <2>2
    <3> HIDE DEF v
    <3> QED
      BY <1>3, <3>1, <3>2, TalkersAre
  <2>4. TalkerOK(u)
    BY <1>3, <2>3 DEF TalkerOK
  <2>5. PICK r : r = [t |-> u]
    OBVIOUS
  <2>6. LoginOk(r)
    BY <1>7, <2>2, <2>5, Zenon DEF TalkerOk
  <2> QED
    BY <1>1, <2>1, <2>3, <2>4, <2>5, <2>6, LoginEnds
<1> QED
  BY <1>5, <1>6, <1>7

\* The talker has r.t made of it after a failure, when a dialog may verify again.
LEMMA FailurePut ==
  ASSUME Listens, gpc' = gpc, GreeterTyped', NEW w \in {"auth", "fail"}, w = Head(down),
         NEW r, Puts(r), r.t \in Talkers, TalkerOK(r.t), r.t.ctx = Top.ctx,
         r.t.plugin = Top.plugin, r.t.counting = FALSE,
         r.t.reads => r.t.running, r.t.state = "busy" => r.t.running,
         \/ r.t.state = "idle" /\ r.out = <<>>
         \/ /\ r.t.state = "busy" /\ r.t.plugin = "generic"
            /\ r.out = <<IF r.t.ctx = "shutdown" THEN "verifyRoot" ELSE "verify">>,
         Place = "renew" => Plugin = "classic"
  PROVE  TalkersOK' /\ Talks'
<1>1. up = <<>> /\ Tail(down) \in Seq(Words) /\ w \in Hears(conf, Place)
  BY TalkerListens DEF Listens
<1>2. /\ Top.plugin = (IF Place = "renewAuto" THEN "classic" ELSE Plugin)
      /\ \/ /\ over = NoTalker /\ login # NoTalker /\ Top = login /\ over.ctx = "login"
            /\ Place \in {"login", "auto"}
         \/ over # NoTalker /\ Top = over /\ over.ctx = "shutdown" /\ Place = "shutdown"
         \/ /\ over # NoTalker /\ Top = over /\ over.ctx = "renew"
            /\ Place \in {"renewAuto", "renew"}
  BY PlaceIs DEF Listens, Situation
<1>3. Place \in {"renew", "renewAuto"} => r.t.plugin = "classic" /\ r.t.state = "idle"
  BY <1>2
<1>4. r.t.ctx = "renew" => Place \in {"renew", "renewAuto"}
  <2>1. login.ctx = "login"
    BY DEF Listens, Situation, TalkersOK
  <2> QED
    BY <1>2, <2>1
<1>5. /\ TalkersOK' /\ ((login = NoTalker) <=> (login' = NoTalker))
      /\ Place' = IF over # NoTalker THEN Place
                  ELSE IF r.t.state = "busy" /\ ~r.t.running THEN "auto" ELSE "login"
      /\ Mode'.turn = IF r.t.state = "prompting" THEN "prompt"
                      ELSE IF r.t.state = "idle" /\ Place \notin {"renew", "renewAuto"} THEN "idle"
                      ELSE "core"
  BY <1>3, <1>4, PutsIs DEF Listens, Situation
<1>6. up' = r.out
  <2>1. up' = up \o r.out
    BY Zenon DEF Puts
  <2> QED
    BY <1>1, <2>1
<1>7. CASE over = NoTalker
  <2>1. down' = <<>> /\ At("wait") /\ login' = r.t /\ over' = NoTalker /\ Top = login
    BY <1>2, <1>7, CoreReturned DEF Puts, Listens
  <2>2. r.t.ctx = "login" /\ r.t # NoTalker
    BY <2>1, NoTalkerIs DEF Listens, Situation, TalkersOK
  <2> QED
    BY <1>5, <1>6, <2>1, <2>2, LoginWaits DEF Listens
<1>8. CASE over # NoTalker /\ over.ctx = "shutdown"
  <2>1. down' = <<>> /\ over' = r.t /\ login' = login /\ r.t.ctx = "shutdown"
    BY <1>2, <1>8, CoreReturned DEF Puts, Listens
  <2>2. \/ At("wait") /\ login' # NoTalker
        \/ At("confirm") /\ login' = NoTalker
    BY <1>2, <1>8, <2>1, CoreReturned
  <2>3. r.t # NoTalker
    BY <2>1, NoTalkerIs
  <2> QED
    BY <1>5, <1>6, <2>1, <2>2, <2>3, ShutdownWaits DEF Listens
<1>9. CASE over # NoTalker /\ over.ctx = "renew"
  <2>1. Place \in {"renew", "renewAuto"} /\ Place' = Place /\ Mode'.turn = "core" /\ up' = <<>>
    BY <1>2, <1>3, <1>5, <1>6, <1>9
  <2>2. PICK m \in Modes, e \in Modes :
           /\ m.in = Goes(Place, w) /\ m.turn = Turn(Place, w)
           /\ Run(conf, m, Tail(down), e) /\ Fits(e)
    BY TalkerListens DEF Listens
  <2>3. m.in = Place /\ m.turn = "core"
    BY <2>1, <2>2 DEF Goes, Turn
  <2>4. Talks'
    BY <1>1, <1>5, <2>1, <2>2, <2>3, Follows DEF Listens
  <2> QED
    BY <1>5, <2>4
<1> QED
  BY <1>2, <1>7, <1>8, <1>9

\* A failure; the greeter may have to ask for the session of the user first.
LEMMA ReadsAuth ==
  ASSUME Listens, Head(down) = "auth", GreeterTyped', NEW r, r = [t |-> [Done EXCEPT !.failed = TRUE], out |-> <<>>],
         \/ over = NoTalker /\ Loads(r, "status")
         \/ Puts(r) /\ gpc' = gpc
  PROVE  TalkersOK' /\ Talks'
<1>1. PICK w \in {"ok", "auth", "fail"} : w \in {"auth", "fail"} /\ w = Head(down)
  OBVIOUS
<1>2. /\ r.t \in Talkers /\ r.t.state = "idle" /\ ~r.t.running /\ ~r.t.reads
      /\ r.t.asked = "no" /\ r.t.counting = FALSE /\ r.t.plugin = Top.plugin /\ r.t.ctx = Top.ctx
      /\ r.out = <<>>
  <2>1. PICK u : u = [Done EXCEPT !.failed = TRUE]
    OBVIOUS
  <2>2. /\ u \in Talkers /\ u.state = "idle" /\ ~u.running /\ ~u.reads
        /\ u.asked = "no" /\ u.counting = FALSE /\ u.plugin = Top.plugin /\ u.ctx = Top.ctx
    BY <2>1, ReaderIs, TalkersAre
  <2>3. r.t = u /\ r.out = <<>>
    <3>1. r = [t |-> u, out |-> <<>>]
      BY <2>1, Zenon
    <3> QED
      BY <3>1
  <2> QED
    BY <2>2, <2>3
<1>3. TalkerOK(r.t)
  BY <1>2 DEF TalkerOK
<1>4. CASE Puts(r) /\ gpc' = gpc
  <2>1. "auth" \in Hears(conf, Place)
    BY TalkerListens DEF Listens
  <2>2. Place = "renew" => Plugin = "classic"
    BY <2>1 DEF Hears, Plugin
  <2> QED
    BY <1>1, <1>2, <1>3, <1>4, <2>2, FailurePut
<1>5. CASE over = NoTalker /\ Loads(r, "status")
  <2>1. Place \in {"login", "auto"} /\ Top = login
    BY <1>5, PlaceIs DEF Listens, Situation
  <2>2. down' = <<>> /\ At("wait") /\ up = <<>>
    BY <1>1, <2>1, CoreReturned, TalkerListens DEF Listens
  <2>3. login' = r.t /\ over' = over /\ up' = up \o Append(r.out, "readDmrc") /\ gpc' = "status"
    BY <1>2, <1>5 DEF Loads
  <2>4. up' = <<"readDmrc">>
    BY <1>2, <2>2, <2>3
  <2>5. /\ NoTalker' = NoTalker /\ Plugin' = Plugin /\ Timed' = Timed /\ core' = core
        /\ CoreCaller' = CoreCaller
    BY FieldsFrame DEF Listens
  <2>6. r.t.ctx = "login" /\ r.t.plugin = Plugin
    BY <1>2, <2>1 DEF Listens, Situation, TalkersOK
  <2>7. TalkersOK'
    BY <1>2, <1>3, <1>5, <2>3, <2>5, <2>6, NoTalkerIs DEF TalkersOK, TalkerOK
  <2>8. PICK c \in Commandings : c = <<"readDmrc">>
    BY DEF Commandings
  <2>9. Place' = "status" /\ CoreCaller = "wait" /\ core.pc = "wait"
    BY <2>2, <2>3 DEF Place, CoreCaller, At
  <2>10. Commanded(c)'
    BY <2>5, <2>8, <2>9 DEF Commanded
  <2> QED
    BY <2>2, <2>4, <2>5, <2>7, <2>8, <2>9, <2>10 DEF Talks, Upward
<1> QED
  BY <1>4, <1>5

LEMMA ReadsFail ==
  ASSUME Listens, Head(down) = "fail", GreeterTyped', gpc' = gpc,
         NEW r, r = Retried([t |-> Done, out |-> <<>>]), Puts(r)
  PROVE  TalkersOK' /\ Talks'
<1>1. PICK w : w \in {"auth", "fail"} /\ w = Head(down)
  OBVIOUS
<1>2. ASSUME NEW out, r = Retried([t |-> Done, out |-> out])
      PROVE  /\ r.t \in Talkers
             /\ r.t.running /\ r.t.reads /\ ~r.t.failed /\ ~r.t.counting
             /\ r.t.plugin = Top.plugin /\ r.t.ctx = Top.ctx /\ r.t.asked = "no"
             /\ \/ r.t.state = "idle" /\ r.out = out
                \/ /\ r.t.state = "busy" /\ r.t.plugin = "generic"
                   /\ r.out = Append(out, IF r.t.ctx = "shutdown" THEN "verifyRoot" ELSE "verify")
  <2>1. /\ r.t \in Talkers
        /\ r.t.running /\ r.t.reads /\ ~r.t.failed /\ ~r.t.counting
        /\ r.t.plugin = Done.plugin /\ r.t.ctx = Done.ctx /\ r.t.asked = "no"
        /\ r.t.state = IF Starts(Done) THEN "busy" ELSE Done.state
        /\ r.out = IF Starts(Done)
                   THEN Append(out, IF Done.ctx = "shutdown" THEN "verifyRoot" ELSE "verify")
                   ELSE out
    BY <1>2, ReaderIs, RetriedIs
  <2>2. Done.plugin = Top.plugin /\ Done.ctx = Top.ctx /\ Done.state = "idle"
    BY ReaderIs
  <2>3. CASE Starts(Done)
    BY <2>1, <2>2, <2>3 DEF Starts
  <2>4. CASE ~Starts(Done)
    BY <2>1, <2>2, <2>4
  <2> QED
    BY <2>3, <2>4
<1>3. /\ r.t \in Talkers
      /\ r.t.running /\ r.t.reads /\ ~r.t.failed /\ ~r.t.counting
      /\ r.t.plugin = Top.plugin /\ r.t.ctx = Top.ctx /\ r.t.asked = "no"
      /\ \/ r.t.state = "idle" /\ r.out = <<>>
         \/ /\ r.t.state = "busy" /\ r.t.plugin = "generic"
            /\ r.out = Append(<<>>, IF r.t.ctx = "shutdown" THEN "verifyRoot" ELSE "verify")
  BY <1>2, Zenon
<1>4. \/ r.t.state = "idle" /\ r.out = <<>>
      \/ /\ r.t.state = "busy" /\ r.t.plugin = "generic"
         /\ r.out = <<IF r.t.ctx = "shutdown" THEN "verifyRoot" ELSE "verify">>
  BY <1>3, Concats, Zenon
<1>5. TalkerOK(r.t) /\ r.t.counting = FALSE
  BY <1>3 DEF TalkerOK, Talkers
<1>6. Place = "renew" => Plugin = "classic"
  <2> SUFFICES ASSUME Place = "renew", Plugin # "classic" PROVE FALSE
    OBVIOUS
  <2>1. over # NoTalker /\ Top = over /\ over.ctx = "renew" /\ Top.plugin = Plugin
    BY PlaceIs DEF Listens, Situation
  <2>2. Plugin = "generic"
    BY DialogueAssumption DEF Listens, Situation, Plugin
  <2>3. r.t.state = "busy"
    BY <2>1, <2>2, ReaderIs, RetriedIs DEF Starts
  <2>4. over'.ctx = "renew"
    BY <1>3, <2>1 DEF Puts
  <2>5. r.out = <<"verify">>
    BY <1>3, <1>4, <2>1, <2>3
  <2>6. up' = up \o <<"verify">>
    BY <2>5, Zenon DEF Puts
  <2>7. up = <<>>
    BY TalkerListens DEF Listens
  <2>8. up' = Append(up, "verify")
    BY <2>6, <2>7
  <2> QED
    BY <2>4, <2>8 DEF Listens, Orderly, ContBreach
<1> QED
  BY <1>1, <1>3, <1>4, <1>5, <1>6, FailurePut

LEMMA DoesTalkerReads ==
  ASSUME Orderly, Situation, GreeterTyped', TalkerReads
  PROVE  TalkersOK' /\ Talks'
<1>1. Listens
  BY DEF Listens, TalkerReads, coreVars
<1>2. PICK w : w = Head(down)
  OBVIOUS
<1>3. PICK busy : busy = [t |-> Busied, out |-> <<>>]
  OBVIOUS
<1>4. PICK done : done = [t |-> Done, out |-> <<>>]
  OBVIOUS
<1>5. busy.t = Busied /\ busy.out = <<>> /\ done.t = Done
  BY <1>3, <1>4
<1>6. CASE w \in {"getUser", "getMore", "getNow"}
  <2>1. Prompted(w) /\ gpc' = gpc
    BY <1>2, <1>6 DEF TalkerReads
  <2> QED
    BY <1>1, <1>2, <1>6, <2>1, ReadsPrompt
<1>7. CASE w = "msg"
  <2>1. Puts([busy EXCEPT !.out = Ack]) /\ gpc' = gpc /\ armed' = FALSE
    BY <1>2, <1>3, <1>7 DEF TalkerReads, Busied
  <2>2. [busy EXCEPT !.out = Ack] = [t |-> Busied, out |-> Ack]
    BY <1>3
  <2>3. Puts([t |-> Busied, out |-> Ack])
    BY <2>1, <2>2, Zenon
  <2> QED
    BY <1>1, <1>2, <1>7, <2>1, <2>3, ReadsMsg
<1>8. CASE w = "putUser"
  <2>1. Puts(busy) /\ gpc' = gpc
    <3>1. \/ Loads(busy, "status")
          \/ Puts(busy) /\ gpc' = gpc
      BY <1>2, <1>3, <1>8 DEF TalkerReads, Busied
    <3>2. busy.t.state # "idle"
      BY <1>1, <1>5, ReaderIs
    <3> QED
      BY <3>1, <3>2, Zenon DEF Loads
  <2> QED
    BY <1>1, <1>2, <1>5, <1>8, <2>1, ReaderIs, ReadsQuiet
<1>9. CASE w = "preOk"
  <2>1. PICK asked : asked = IF Top.plugin = "generic" THEN "no" ELSE Top.asked
    OBVIOUS
  <2>2. Puts([busy EXCEPT !.t.asked = asked]) /\ gpc' = gpc
    BY <1>2, <1>3, <1>9, <2>1 DEF TalkerReads, Busied
  <2>3. PICK u : u = [Busied EXCEPT !.asked = asked]
    OBVIOUS
  <2>4. PICK r : r = [t |-> u, out |-> <<>>]
    OBVIOUS
  <2>5. Puts(r)
    <3>1. [busy EXCEPT !.t.asked = asked] = [t |-> u, out |-> <<>>]
      BY <1>3, <2>3
    <3> QED
      BY <2>2, <2>4, <3>1, Zenon
  <2>6. asked \in {"no", "user", "more"}
    BY <1>1, <2>1, ReaderIs DEF Talkers
  <2>7. /\ u \in Talkers /\ u.state = "busy" /\ u.running = Top.running
        /\ u.reads = Top.reads /\ u.failed = Top.failed
        /\ u.counting = FALSE /\ u.plugin = Top.plugin /\ u.ctx = Top.ctx
    BY <1>1, <2>3, <2>6, ReaderIs, TalkersAre
  <2>8. r.t = u /\ r.out = <<>>
    BY <2>4
  <2> QED
    BY <1>1, <1>2, <1>9, <2>2, <2>5, <2>7, <2>8, ReadsQuiet
<1>10. CASE w \in {"chtok", "chtokAuth"}
  <2>1. over = NoTalker /\ login' = done.t /\ over' = Renewal(Plugin) /\ up' = up /\ gpc' = gpc
    BY <1>2, <1>4, <1>10 DEF TalkerReads, Done
  <2> QED
    BY <1>1, <1>2, <1>5, <1>10, <2>1, ReadsRenew
<1>11. CASE w = "ok"
  <2>1. TalkerOk
    BY <1>2, <1>11 DEF TalkerReads
  <2> QED
    BY <1>1, <1>2, <1>11, <2>1, ReadsOk
<1>12. CASE w = "auth"
  <2>1. PICK r : r = [t |-> [Done EXCEPT !.failed = TRUE], out |-> <<>>]
    OBVIOUS
  <2>2. \/ over = NoTalker /\ Loads(r, "status")
        \/ Puts(r) /\ gpc' = gpc
    BY <1>2, <1>12, <2>1 DEF TalkerReads, Done
  <2> QED
    BY <1>1, <1>2, <1>12, <2>1, <2>2, ReadsAuth
<1>13. CASE w = "fail"
  <2>1. PICK r : r = Retried([t |-> Done, out |-> <<>>])
    OBVIOUS
  <2>2. Puts(r) /\ gpc' = gpc
    BY <1>2, <1>13, <2>1 DEF TalkerReads, Done
  <2> QED
    BY <1>1, <1>2, <1>13, <2>1, <2>2, ReadsFail
<1>14. \/ w \in {"getUser", "getMore", "getNow"} \/ w = "msg" \/ w = "putUser" \/ w = "preOk"
       \/ w \in {"chtok", "chtokAuth"} \/ w = "ok" \/ w = "auth" \/ w = "fail"
  BY <1>2 DEF TalkerReads
<1> QED
  BY <1>6, <1>7, <1>8, <1>9, <1>10, <1>11, <1>12, <1>13, <1>14

LEMMA HeedsIs ==
  ASSUME NEW pre, Heeds(pre)
  PROVE  /\ pre \in {<<>>, <<"interact">>, <<"null">>} /\ pre \o <<>> = pre
         /\ \A w : Append(pre, w) = pre \o <<w>>
<1>1. pre \in {<<>>, <<"interact">>, <<"null">>}
  BY DEF Heeds
<1>2. ASSUME NEW w PROVE Append(pre, w) = pre \o <<w>>
  <2>1. PICK S : S = {w, "interact", "null"}
    OBVIOUS
  <2>2. w \in S /\ "interact" \in S /\ "null" \in S
    BY <2>1
  <2>3. <<>> \in Seq(S) /\ <<"interact">> \in Seq(S) /\ <<"null">> \in Seq(S)
    BY <2>2
  <2>4. pre \in Seq(S)
    BY <1>1, <2>3, Zenon
  <2> QED
    BY <2>2, <2>4, AppendIsConcat
<1>3. pre \in Seq({"interact", "null"})
  <2>1. /\ <<>> \in Seq({"interact", "null"}) /\ <<"interact">> \in Seq({"interact", "null"})
        /\ <<"null">> \in Seq({"interact", "null"})
    OBVIOUS
  <2> QED
    BY <1>1, <2>1, Zenon
<1>4. pre \o <<>> = pre
  BY <1>3, ConcatEmptySeq
<1> QED
  BY <1>1, <1>2, <1>4

\* The dialog that is shown waits for its user: core waits for a command, or is about to.
LEMMA IdleSpeaks ==
  ASSUME Situation, gpc = "dialog", Mode.turn = "idle"
  PROVE  /\ down = <<>> /\ Heeds(up)
         /\ \/ CoreCaller = "wait" /\ login # NoTalker
            \/ CoreCaller = "confirm" /\ login = NoTalker
<1>1. Place \in {"login", "auto", "shutdown", "renew", "renewAuto"} /\ Mode.in = Place
  BY PlaceIs DEF Situation, Mode
<1>2. CASE Downward
  <2>1. PICK m \in Modes : m = Mode
    BY ModeTyped DEF Situation
  <2>2. PICK e \in Modes : Run(conf, m, down, e) /\ Fits(e)
    BY <1>2, <2>1 DEF Downward
  <2>3. down = <<>> /\ e = m /\ up = <<>>
    BY <1>2, <2>1, <2>2, RunStop DEF Downward
  <2>4. \/ At("wait") /\ login # NoTalker
        \/ At("confirm") /\ login = NoTalker
    BY <1>1, <2>1, <2>2, <2>3 DEF Fits
  <2>5. CoreCaller = core.pc
    BY <2>4 DEF CoreCaller, At
  <2> QED
    BY <2>3, <2>4, <2>5 DEF Heeds, At
<1>3. CASE Upward
  <2>1. PICK c \in Commandings :
           /\ Commanded(c)
           /\ \/ core.pc \in {"wait", "confirm"} /\ up = c /\ c # <<>>
              \/ At("wait") /\ up = <<"interact">> \o c
              \/ At("answer") /\ core.ask # "noDelay" /\ up = <<"null">> \o c
    BY <1>3 DEF Upward
  <2>2. /\ c = <<>>
        /\ \/ CoreCaller = "wait" /\ login # NoTalker
           \/ CoreCaller = "confirm" /\ login = NoTalker
    BY <1>1, <2>1 DEF Commanded
  <2>3. /\ <<"interact">> \o <<>> = <<"interact">>
        /\ <<"null">> \o <<>> = <<"null">>
    BY OneAlone
  <2>4. \/ At("wait") /\ up = <<"interact">>
        \/ At("answer") /\ core.ask # "noDelay" /\ up = <<"null">>
    BY <2>1, <2>2, <2>3, Zenon
  <2>5. down = <<>>
    BY <1>3 DEF Upward
  <2> QED
    BY <2>2, <2>4, <2>5 DEF Heeds
<1>4. ~Crossing /\ ~Gone
  BY <1>1 DEF Crossing, Gone
<1> QED
  BY <1>2, <1>3, <1>4 DEF Situation, Talks

\* An automatic login becomes one whose dialog can be used.
Relabel(m) == IF m.in = "auto" THEN [in |-> "login", turn |-> m.turn] ELSE m

LEMMA RelabelThen ==
  ASSUME NEW c, NEW m \in Modes, NEW w \in Hears(c, m.in)
  PROVE  /\ Relabel(m) \in Modes /\ Relabel(m).turn = m.turn
         /\ w \in Hears(c, Relabel(m).in)
         /\ Then(Relabel(m), w) = Relabel(Then(m, w))
<1>1. CASE m.in = "auto"
  <2>1. Relabel(m) = [in |-> "login", turn |-> m.turn]
    BY <1>1 DEF Relabel
  <2>2. w \in {"msg", "chtokAuth", "ok", "auth", "fail"}
    BY <1>1 DEF Hears
  <2>3. Relabel(m) \in Modes
    BY <2>1 DEF Modes, Places
  <2>4. w \in Hears(c, "login")
    BY <2>2 DEF Hears
  <2>5. Then(Relabel(m), w) = Relabel(Then(m, w))
    BY <1>1, <2>1, <2>2 DEF Then, Relabel, Goes, Turn, Quiet
  <2> QED
    BY <2>1, <2>3, <2>4, <2>5
<1>2. CASE m.in # "auto"
  <2>1. Relabel(m) = m
    BY <1>2 DEF Relabel
  <2>2. Goes(m.in, w) # "auto"
    BY <1>2 DEF Goes
  <2>3. Relabel(Then(m, w)) = Then(m, w)
    BY <2>2 DEF Relabel, Then
  <2> QED
    BY <2>1, <2>3
<1> QED
  BY <1>1, <1>2

LEMMA RelabelRun ==
  ASSUME NEW c, NEW m \in Modes, NEW s \in Seq(Words), NEW n, Run(c, m, s, n)
  PROVE  Run(c, Relabel(m), s, Relabel(n))
<1>1. PICK f \in [0..Len(s) -> Modes] : IsRun(c, f, m, s, n)
  BY DEF Run
<1>2. Len(s) \in Nat
  OBVIOUS
<1> DEFINE g == [i \in 0..Len(s) |-> Relabel(f[i])]
<1>3. ASSUME NEW i \in 0..Len(s) PROVE g[i] = Relabel(f[i]) /\ f[i] \in Modes /\ g[i] \in Modes
  BY <1>1 DEF Relabel, Modes, Places
<1>4. g \in [0..Len(s) -> Modes]
  BY <1>3
<1>5. g[0] = Relabel(m) /\ g[Len(s)] = Relabel(n)
  BY <1>1, <1>2, <1>3 DEF IsRun
<1> HIDE DEF g
<1>6. ASSUME NEW i \in 1..Len(s)
      PROVE  g[i - 1].turn = "core" /\ s[i] \in Hears(c, g[i - 1].in) /\ g[i] = Then(g[i - 1], s[i])
  <2>1. i - 1 \in 0..Len(s) /\ i \in 0..Len(s)
    BY <1>2
  <2>2. f[i - 1].turn = "core" /\ s[i] \in Hears(c, f[i - 1].in) /\ f[i] = Then(f[i - 1], s[i])
    BY <1>1 DEF IsRun
  <2>3. PICK k \in Modes : k = f[i - 1]
    BY <2>1, <1>3
  <2>4. PICK w : w = s[i]
    OBVIOUS
  <2>5. /\ Relabel(k).turn = k.turn /\ w \in Hears(c, Relabel(k).in)
        /\ Then(Relabel(k), w) = Relabel(Then(k, w))
    BY <2>2, <2>3, <2>4, RelabelThen
  <2>6. g[i - 1] = Relabel(k) /\ g[i] = Relabel(Then(k, w))
    BY <1>3, <2>1, <2>2, <2>3, <2>4
  <2> QED
    BY <2>2, <2>3, <2>5, <2>6, <2>4
<1>7. ASSUME NEW i \in 0..Len(s) PROVE g[Len(s)].in \in From(g[i].in)
  <2>1. Len(s) \in 0..Len(s) /\ f[Len(s)].in \in From(f[i].in)
    BY <1>1, <1>2 DEF IsRun
  <2>2. PICK a \in Modes, b \in Modes : a = f[i] /\ b = f[Len(s)]
    BY <1>3, <2>1
  <2>3. Relabel(b).in \in From(Relabel(a).in)
    BY <2>1, <2>2 DEF From, Relabel, Modes, Places
  <2> QED
    BY <1>3, <2>1, <2>2, <2>3
<1>8. IsRun(c, g, Relabel(m), s, Relabel(n))
  BY <1>5, <1>6, <1>7 DEF IsRun
<1> QED
  BY <1>4, <1>8 DEF Run

LEMMA RelabelFits ==
  ASSUME UNCHANGED <<conf, core>>, login # NoTalker, login' # NoTalker, NEW e \in Modes, Fits(e)
  PROVE  Fits(Relabel(e))'
<1>1. Fits(Relabel(e))
  <2>1. CASE e.in = "auto"
    <3>1. Relabel(e).in = "login" /\ Relabel(e).turn = e.turn
      BY <2>1 DEF Relabel
    <3>2. Company("auto") => Company("login")
      BY DEF Company
    <3> QED
      BY <2>1, <3>1, <3>2 DEF Fits
  <2>2. CASE e.in # "auto"
    BY <2>2 DEF Relabel
  <2> QED
    BY <2>1, <2>2
<1>2. PICK d : d = Relabel(e)
  OBVIOUS
<1>3. NoTalker' = NoTalker
  BY NamesFrame
<1>4. Fits(d)'
  BY <1>1, <1>2, <1>3, FitsFrame
<1> QED
  BY <1>2, <1>4

LEMMA RelabelTalks ==
  ASSUME Situation, gpc = "dialog", gpc' = gpc, Place = "auto", Mode.turn = "core",
         login # NoTalker, login' # NoTalker, UNCHANGED <<conf, core, up, down>>,
         Place' = "login", Mode'.turn = "core"
  PROVE  Talks'
<1>1. Mode \in Modes /\ Mode.in = "auto" /\ Mode' = [in |-> "login", turn |-> "core"]
      /\ Mode = [in |-> "auto", turn |-> "core"]
  BY ModeTyped DEF Situation, Mode
<1>2. /\ NoTalker' = NoTalker /\ Plugin' = Plugin /\ CoreCaller' = CoreCaller
      /\ At("answer")' <=> At("answer")
      /\ At("ack")' <=> At("ack")
      /\ At("wait")' <=> At("wait")
  BY FieldsFrame
<1>3. CASE Downward
  <2>1. PICK m \in Modes : m = Mode
    BY <1>1
  <2>2. PICK e \in Modes : Run(conf, m, down, e) /\ Fits(e) /\ up = <<>> /\ down \in Seq(Words)
    BY <1>3, <2>1 DEF Downward
  <2>3. Run(conf, Relabel(m), down, Relabel(e))
    BY <2>2, RelabelRun
  <2>4. PICK d \in Modes : d = Relabel(e)
    BY DEF Relabel, Modes, Places
  <2>5. Fits(d)'
    BY <2>2, <2>4, RelabelFits DEF Fits
  <2>6. Relabel(m) = Mode'
    BY <1>1, <2>1 DEF Relabel
  <2>7. Run(conf', Mode', down', d) /\ up' = <<>> /\ down' \in Seq(Words)
    BY <2>2, <2>3, <2>4, <2>6
  <2> QED
    BY <2>5, <2>7 DEF Talks, Downward
<1>4. CASE Upward
  <2>1. CASE \E c \in Commandings :
               /\ Commanded(c)
               /\ \/ core.pc \in {"wait", "confirm"} /\ up = c /\ c # <<>>
                  \/ At("wait") /\ up = <<"interact">> \o c
                  \/ At("answer") /\ core.ask # "noDelay" /\ up = <<"null">> \o c
    <3>1. PICK c \in Commandings :
               /\ Commanded(c)
               /\ \/ core.pc \in {"wait", "confirm"} /\ up = c /\ c # <<>>
                  \/ At("wait") /\ up = <<"interact">> \o c
                  \/ At("answer") /\ core.ask # "noDelay" /\ up = <<"null">> \o c
      BY <2>1
    <3>2. c = <<"autoLogin">> /\ CoreCaller = "wait" /\ Plugin = "classic"
      BY <1>1, <3>1 DEF Commanded
    <3>3. Commanded(c)'
      BY <1>1, <1>2, <3>2 DEF Commanded
    <3> QED
      BY <1>2, <1>4, <3>1, <3>3 DEF Talks, Upward
  <2>2. CASE \/ At("answer") /\ up = <<"text">> /\ Company(Place)
             \/ At("ack") /\ up = <<"ack">> /\ Company(Place)
    <3>1. Company("login")
      BY <2>2 DEF Company
    <3>2. PICK p : p = "login"
      OBVIOUS
    <3>3. Company(p)'
      BY <1>2, <3>1, <3>2, CompanyFrame
    <3>4. Company(Place)'
      BY <3>2, <3>3 DEF Company
    <3> QED
      BY <1>2, <1>4, <2>2, <3>4 DEF Talks, Upward
  <2> QED
    BY <1>4, <2>1, <2>2 DEF Upward
<1>5. ~Crossing /\ ~Gone
  BY DEF Crossing, Gone
<1> QED
  BY <1>3, <1>4, <1>5 DEF Situation, Talks

\* While a password is renewed the greeter only answers.
LEMMA RenewStays ==
  ASSUME Situation, gpc = "dialog", gpc' = gpc, Place \in {"renew", "renewAuto"},
         UNCHANGED <<conf, core, down>>, up' = up \o <<>>, Mode' = Mode, Place' = Place,
         (login = NoTalker) <=> (login' = NoTalker), Mode.turn = "core"
  PROVE  Talks'
<1>1. Mode \in Modes /\ Mode.in = Place
  BY ModeTyped DEF Situation, Mode
<1>2. /\ NoTalker' = NoTalker /\ Plugin' = Plugin /\ CoreCaller' = CoreCaller
      /\ At("answer")' <=> At("answer")
      /\ At("ack")' <=> At("ack")
  BY FieldsFrame
<1>3. CASE Downward
  <2>1. PICK e \in Modes : Run(conf, Mode, down, e) /\ Fits(e) /\ up = <<>> /\ down \in Seq(Words)
    BY <1>3 DEF Downward
  <2>2. Fits(e)'
    BY <2>1, FitsFrame
  <2>3. up' = <<>>
    BY <2>1, Concats, Zenon
  <2>4. Run(conf', Mode', down', e) /\ down' \in Seq(Words)
    BY <2>1
  <2> QED
    BY <2>2, <2>3, <2>4 DEF Talks, Downward
<1>4. CASE Upward
  <2>1. ~\E c \in Commandings : Commanded(c)
    BY <1>1 DEF Commanded
  <2>2. /\ Company(Place) /\ down = <<>>
        /\ \/ At("answer") /\ up = <<"text">>
           \/ At("ack") /\ up = <<"ack">>
    BY <1>4, <2>1 DEF Upward
  <2>3. up' = up
    BY <2>2, OneAlone, Zenon
  <2>4. PICK p : p = Place
    OBVIOUS
  <2>5. Company(p)'
    BY <1>2, <2>2, <2>4, CompanyFrame
  <2>6. Company(Place)'
    BY <2>4, <2>5 DEF Company
  <2> QED
    BY <1>2, <2>2, <2>3, <2>6 DEF Talks, Upward
<1>5. ~Crossing /\ ~Gone
  BY DEF Crossing, Gone
<1> QED
  BY <1>3, <1>4, <1>5 DEF Situation, Talks

Replies == {"ready", "interact", "readDmrc", "getDmrc", "putDmrc", "verify", "verifyRoot",
            "autoLogin", "chooseHost", "text", "null", "ack"}

\* What the greeter says in the dialogue.
LEMMA UpTyped ==
  ASSUME Talks
  PROVE  up \in Seq(Replies)
<1>1. \A c \in Commandings : c \in Seq(Replies)
  <2>1. /\ <<>> \in Seq(Replies) /\ <<"verifyRoot">> \in Seq(Replies)
        /\ <<"verify">> \in Seq(Replies) /\ <<"autoLogin">> \in Seq(Replies)
        /\ <<"readDmrc">> \in Seq(Replies) /\ <<"readDmrc", "verify">> \in Seq(Replies)
        /\ <<"getDmrc">> \in Seq(Replies) /\ <<"chooseHost">> \in Seq(Replies)
        /\ <<"ready">> \in Seq(Replies) /\ <<"putDmrc", "ready">> \in Seq(Replies)
    BY DEF Replies
  <2> QED
    BY <2>1, Zenon DEF Commandings
<1>2. /\ <<"interact">> \in Seq(Replies) /\ <<"null">> \in Seq(Replies)
      /\ <<"text">> \in Seq(Replies) /\ <<"ack">> \in Seq(Replies)
      /\ <<"ready">> \in Seq(Replies) /\ <<"verify">> \in Seq(Replies)
      /\ <<>> \in Seq(Replies)
  BY DEF Replies
<1>3. \A c \in Commandings : <<"interact">> \o c \in Seq(Replies) /\ <<"null">> \o c \in Seq(Replies)
  <2>1. ASSUME NEW c \in Commandings, NEW s, s \in Seq(Replies) PROVE s \o c \in Seq(Replies)
    BY <1>1, <2>1, ConcatProperties
  <2> QED
    BY <1>2, <2>1, Zenon
<1> QED
  <2>1. CASE \E c \in Commandings :
               up = c \/ up = <<"interact">> \o c \/ up = <<"null">> \o c
    BY <1>1, <1>3, <2>1, Zenon
  <2>2. CASE up \in {<<>>, <<"text">>, <<"ack">>, <<"ready">>, <<"verify">>}
    BY <1>2, <2>2, Zenon
  <2>3. CASE Upward
    <3>1. \/ \E c \in Commandings :
               up = c \/ up = <<"interact">> \o c \/ up = <<"null">> \o c
          \/ up = <<"text">> \/ up = <<"ack">> \/ up = <<"ready">>
      BY <2>3, Zenon DEF Upward
    <3> QED
      BY <2>1, <2>2, <3>1, Zenon
  <2> QED
    BY <2>2, <2>3, Zenon DEF Talks, Downward, Crossing, Gone
LEMMA UpIs == ASSUME Talks PROVE up \o <<>> = up
BY UpTyped, ConcatEmptySeq

\* Two commands after what the greeter has sent.
LEMMA TwoWords ==
  ASSUME NEW pre, Heeds(pre), NEW v, NEW w
  PROVE  Append(Append(pre, v), w) = pre \o <<v, w>>
<1>1. PICK S : S = {v, w, "interact", "null"}
  OBVIOUS
<1>2. v \in S /\ w \in S /\ "interact" \in S /\ "null" \in S
  BY <1>1
<1>3. <<>> \in Seq(S) /\ <<"interact">> \in Seq(S) /\ <<"null">> \in Seq(S)
  BY <1>2
<1>4. pre \in Seq(S)
  <2>1. pre \in {<<>>, <<"interact">>, <<"null">>}
    BY HeedsIs
  <2> QED
    BY <1>3, <2>1, Zenon
<1>5. PICK s, t : s = <<v>> /\ t = <<w>>
  OBVIOUS
<1>6. s \in Seq(S) /\ t \in Seq(S)
  BY <1>2, <1>5
<1>7. Append(pre, v) = pre \o s /\ pre \o s \in Seq(S)
  <2>1. Append(pre, v) = pre \o <<v>>
    BY HeedsIs
  <2> QED
    BY <1>4, <1>5, <1>6, <2>1, ConcatProperties
<1>8. Append(pre \o s, w) = (pre \o s) \o t
  BY <1>2, <1>5, <1>7, AppendIsConcat
<1>9. (pre \o s) \o t = pre \o (s \o t)
  BY <1>4, <1>6, ConcatAssociative
<1>10. s \o t = <<v, w>>
  BY <1>5, Pair, Zenon
<1> QED
  BY <1>7, <1>8, <1>9, <1>10, Zenon

\* The login dialog is there, its talker t, and the greeter has sent pre; then it verifies
\* or waits.
LEMMA LoginBecomes ==
  ASSUME UNCHANGED <<conf, core>>, GreeterTyped', NEW pre, Heeds(pre), CoreCaller = "wait",
         down' = <<>>, gpc' = "dialog", over' = NoTalker, NEW t, login' = t, TalkerOK(t),
         t.ctx = "login", t.plugin = Plugin,
         \/ t.state = "idle" /\ up' = pre
         \/ t.state = "busy" /\ t.running /\ up' = Append(pre, "verify")
  PROVE  TalkersOK' /\ Talks'
<1>1. NoTalker' = NoTalker /\ Plugin' = Plugin /\ Timed' = Timed
  BY NamesFrame
<1>2. t # NoTalker
  BY NoTalkerIs
<1>3. TalkersOK'
  BY <1>1, <1>2, NoTalkerIs DEF TalkersOK, TalkerOK
<1>4. pre \o <<>> = pre /\ Append(pre, "verify") = pre \o <<"verify">>
  BY HeedsIs
<1>5. \/ login'.state = "idle" /\ up' = pre \o <<>>
      \/ login'.state = "busy" /\ login'.running /\ up' = pre \o <<"verify">>
  BY <1>4, Zenon
<1> QED
  BY <1>2, <1>3, <1>5, LoginSends

\* The same of a dialog that asks for a shutdown.
LEMMA ShutdownBecomes ==
  ASSUME UNCHANGED <<conf, core>>, GreeterTyped', NEW pre, Heeds(pre),
         down' = <<>>, gpc' = "dialog", NEW t, over' = t, TalkerOK(t), ~t.counting,
         t.ctx = "shutdown", t.plugin = Plugin, t.reads \/ t.state = "busy" => t.running,
         NEW l, login' = l, TalkerOK(l), l.ctx = "login", l.plugin = Plugin,
         l.state \in {"none", "idle"},
         \/ CoreCaller = "wait" /\ l # NoTalker
         \/ CoreCaller = "confirm" /\ l = NoTalker,
         \/ t.state = "idle" /\ up' = pre
         \/ t.state = "busy" /\ up' = Append(pre, "verifyRoot")
  PROVE  TalkersOK' /\ Talks'
<1>1. NoTalker' = NoTalker /\ Plugin' = Plugin /\ Timed' = Timed
  BY NamesFrame
<1>2. t # NoTalker
  BY NoTalkerIs
<1>3. TalkersOK'
  BY <1>1, <1>2, NoTalkerIs DEF TalkersOK, TalkerOK
<1>4. pre \o <<>> = pre /\ Append(pre, "verifyRoot") = pre \o <<"verifyRoot">>
  BY HeedsIs
<1>5. \/ over'.state = "idle" /\ up' = pre \o <<>>
      \/ over'.state = "busy" /\ up' = pre \o <<"verifyRoot">>
  BY <1>4, Zenon
<1> QED
  BY <1>2, <1>3, <1>5, ShutdownSends

LEMMA DoesRetryTimer ==
  ASSUME Situation, GreeterTyped', RetryTimer
  PROVE  TalkersOK' /\ Talks'
<1>1. gpc = "dialog" /\ gpc' = "dialog" /\ Top.failed /\ UNCHANGED <<conf, core, down>>
  BY DEF RetryTimer, coreVars
<1>2. PICK r : r = Retried([t |-> Top, out |-> <<>>]) /\ Puts(r)
  BY DEF RetryTimer
<1>3. /\ Top \in Talkers /\ Top.state \in {"idle", "prompting", "busy"} /\ TalkerOK(Top)
      /\ Top.plugin = (IF Place = "renewAuto" THEN "classic" ELSE Plugin)
      /\ \/ /\ over = NoTalker /\ login # NoTalker /\ Top = login /\ over.ctx = "login"
            /\ Place = IF AutoLogsIn THEN "auto" ELSE "login"
         \/ over # NoTalker /\ Top = over /\ over.ctx = "shutdown" /\ Place = "shutdown"
         \/ /\ over # NoTalker /\ Top = over /\ over.ctx = "renew"
            /\ Place = IF login = NoTalker THEN "renewAuto" ELSE "renew"
  BY <1>1, PlaceIs DEF Situation
<1>4. ~Top.running /\ Top.state \in {"idle", "busy"}
  BY <1>1, <1>3 DEF TalkerOK
<1>5. ASSUME NEW out, r = Retried([t |-> Top, out |-> out])
      PROVE  /\ r.t \in Talkers /\ r.t.running /\ r.t.reads /\ ~r.t.failed /\ ~r.t.counting
             /\ r.t.plugin = Top.plugin /\ r.t.ctx = Top.ctx /\ r.t.asked = "no"
             /\ r.t.state = IF Starts(Top) THEN "busy" ELSE Top.state
             /\ r.out = IF Starts(Top)
                        THEN Append(out, IF Top.ctx = "shutdown" THEN "verifyRoot" ELSE "verify")
                        ELSE out
  BY <1>3, <1>5, RetriedIs
<1>6. /\ r.t \in Talkers /\ r.t.running /\ r.t.reads /\ ~r.t.failed /\ ~r.t.counting
      /\ r.t.plugin = Top.plugin /\ r.t.ctx = Top.ctx /\ r.t.asked = "no"
      /\ r.t.state = IF Starts(Top) THEN "busy" ELSE Top.state
      /\ r.out = IF Starts(Top)
                 THEN Append(<<>>, IF Top.ctx = "shutdown" THEN "verifyRoot" ELSE "verify")
                 ELSE <<>>
  BY <1>2, <1>5, Zenon
<1>7. TalkerOK(r.t) /\ r.t # NoTalker
  BY <1>4, <1>6, NoTalkerIs DEF TalkerOK
<1>8. up' = up \o r.out
  BY <1>2, Zenon DEF Puts
<1>9. login.ctx = "login" /\ login.plugin = Plugin /\ TalkerOK(login)
  BY DEF Situation, TalkersOK
<1>10. CASE over = NoTalker /\ Top.state = "idle"
  <2>1. Mode.turn = "idle"
    BY <1>1, <1>3, <1>10 DEF Mode
  <2>2. down = <<>> /\ Heeds(up) /\ CoreCaller = "wait"
    BY <1>1, <1>3, <1>10, <2>1, IdleSpeaks
  <2>3. login' = r.t /\ over' = NoTalker /\ Top = login
    BY <1>2, <1>3, <1>10 DEF Puts
  <2>4. up \o <<>> = up /\ Append(up, "verify") = up \o <<"verify">>
    BY <2>2, HeedsIs
  <2>5. \/ r.t.state = "idle" /\ up' = up
        \/ r.t.state = "busy" /\ r.t.running /\ up' = Append(up, "verify")
    <3>1. CASE Starts(Top)
      <4>1. r.t.state = "busy" /\ r.out = Append(<<>>, "verify")
        BY <1>6, <1>9, <2>3, <3>1
      <4>2. up' = up \o <<"verify">>
        BY <1>8, <4>1, Concats, Zenon
      <4> QED
        BY <1>6, <2>4, <4>1, <4>2
    <3>2. CASE ~Starts(Top)
      <4>1. r.t.state = "idle" /\ r.out = <<>>
        BY <1>6, <1>10, <3>2
      <4> QED
        BY <1>8, <2>4, <4>1, Zenon
    <3> QED
      BY <3>1, <3>2
  <2> QED
    BY <1>1, <1>6, <1>7, <1>9, <2>2, <2>3, <2>5, LoginBecomes
<1>11. CASE over = NoTalker /\ Top.state = "busy"
  <2>1. Place = "auto" /\ Mode.turn = "core"
    BY <1>1, <1>3, <1>4, <1>11 DEF Mode, AutoLogsIn
  <2>2. r.t.state = "busy" /\ r.out = <<>>
    BY <1>6, <1>11 DEF Starts
  <2>3. /\ TalkersOK' /\ ((login = NoTalker) <=> (login' = NoTalker))
        /\ Place' = IF over # NoTalker THEN Place
                    ELSE IF r.t.state = "busy" /\ ~r.t.running THEN "auto" ELSE "login"
        /\ Mode'.turn = IF r.t.state = "prompting" THEN "prompt"
                        ELSE IF r.t.state = "idle" /\ Place \notin {"renew", "renewAuto"} THEN "idle"
                        ELSE "core"
    BY <1>1, <1>2, <1>6, <1>7, <1>11, <2>2, PutsIs DEF Situation
  <2>4. Place' = "login" /\ Mode'.turn = "core"
    BY <1>6, <1>11, <2>2, <2>3
  <2>5. up' = up
    BY <1>8, <2>2, UpIs, Zenon DEF Situation
  <2> QED
    BY <1>1, <1>3, <1>11, <2>1, <2>3, <2>4, <2>5, RelabelTalks
<1>12. CASE over # NoTalker /\ over.ctx = "shutdown"
  <2>1. Top = over /\ Place = "shutdown" /\ Top.state = "idle"
    <3>1. Top = over /\ Place = "shutdown"
      BY <1>3, <1>12
    <3>2. over.state # "busy"
      BY <1>4, <3>1 DEF Situation, TalkersOK
    <3> QED
      BY <1>4, <3>1, <3>2
  <2>2. Mode.turn = "idle"
    BY <1>1, <1>12, <2>1 DEF Mode
  <2>3. /\ down = <<>> /\ Heeds(up)
        /\ \/ CoreCaller = "wait" /\ login # NoTalker
           \/ CoreCaller = "confirm" /\ login = NoTalker
    BY <1>1, <2>2, IdleSpeaks
  <2>4. over' = r.t /\ login' = login
    BY <1>2, <1>12 DEF Puts
  <2>5. up \o <<>> = up /\ Append(up, "verifyRoot") = up \o <<"verifyRoot">>
    BY <2>3, HeedsIs
  <2>6. \/ r.t.state = "idle" /\ up' = up
        \/ r.t.state = "busy" /\ up' = Append(up, "verifyRoot")
    <3>1. CASE Starts(Top)
      <4>1. r.t.state = "busy" /\ r.out = Append(<<>>, "verifyRoot")
        BY <1>6, <1>12, <2>1, <3>1
      <4>2. up' = up \o <<"verifyRoot">>
        BY <1>8, <4>1, Concats, Zenon
      <4> QED
        BY <1>6, <2>5, <4>1, <4>2
    <3>2. CASE ~Starts(Top)
      <4>1. r.t.state = "idle" /\ r.out = <<>>
        BY <1>6, <2>1, <3>2
      <4> QED
        BY <1>8, <2>5, <4>1, Zenon
    <3> QED
      BY <3>1, <3>2
  <2>7. r.t.ctx = "shutdown" /\ r.t.plugin = Plugin /\ login.state \in {"none", "idle"}
    <3>1. over.state # "none"
      BY <2>1
    <3> QED
      BY <1>3, <1>6, <1>12, <2>1, <3>1 DEF Situation, TalkersOK
  <2> QED
    BY <1>1, <1>6, <1>7, <1>9, <2>3, <2>4, <2>6, <2>7, ShutdownBecomes
<1>13. CASE over # NoTalker /\ over.ctx = "renew"
  <2>1. Top = over /\ Place \in {"renew", "renewAuto"} /\ Top.state = "idle" /\ ~Starts(Top)
    <3>1. Top = over /\ Place \in {"renew", "renewAuto"}
      BY <1>3, <1>13
    <3>2. over.state # "busy"
      BY <1>4, <3>1 DEF Situation, TalkersOK
    <3>3. over.plugin # "generic"
      BY <1>4, <1>13, <3>1, <3>2 DEF Situation, TalkersOK
    <3> QED
      BY <1>4, <3>1, <3>2, <3>3 DEF Starts
  <2>2. r.t.state = "idle" /\ r.out = <<>>
    BY <1>6, <2>1
  <2>3. Top.plugin # "generic"
    BY <2>1 DEF Starts
  <2>4. /\ TalkersOK' /\ ((login = NoTalker) <=> (login' = NoTalker))
        /\ Place' = IF over # NoTalker THEN Place
                    ELSE IF r.t.state = "busy" /\ ~r.t.running THEN "auto" ELSE "login"
        /\ Mode'.turn = IF r.t.state = "prompting" THEN "prompt"
                        ELSE IF r.t.state = "idle" /\ Place \notin {"renew", "renewAuto"} THEN "idle"
                        ELSE "core"
    BY <1>1, <1>2, <1>6, <1>7, <2>2, <2>3, PutsIs DEF Situation
  <2>5. Place' = Place /\ Mode'.turn = "core"
    BY <1>13, <2>1, <2>2, <2>4
  <2>6. Mode.turn = "core" /\ Mode = [in |-> Place, turn |-> "core"]
    BY <1>13, <2>1 DEF Mode
  <2>7. Mode' = Mode
    BY <2>5, <2>6 DEF Mode
  <2>8. up' = up \o <<>>
    BY <1>8, <2>2, Zenon
  <2>9. Talks'
    BY <1>1, <2>1, <2>4, <2>5, <2>6, <2>7, <2>8, RenewStays
  <2> QED
    BY <2>4, <2>9
<1> QED
  BY <1>3, <1>4, <1>10, <1>11, <1>12, <1>13

-----------------------------------------------------------------------------
(* Users *)

\* The first input, if it is x that reports it.
QuietTouch(x) == x = <<>> \/ (x = <<"interact">> /\ up = <<>> /\ down = <<>> /\ At("wait"))

LEMMA Touched ==
  ASSUME Orderly, gpc = "dialog", NEW x \in {<<>>, Touch}, x # <<>> => ~armed'
  PROVE  QuietTouch(x)
BY DEF QuietTouch, Touch, Orderly, InputBreach, Calm

\* What the greeter has sent, and o that it sends now, come to pre.
Joins(o, pre) == Heeds(pre) /\ ((up = <<>> /\ o = pre) \/ (up = pre /\ o = <<>>))

LEMMA JoinsIs ==
  ASSUME NEW o, NEW pre, Joins(o, pre)
  PROVE  up \o o = pre /\ \A w : up \o Append(o, w) = Append(pre, w)
<1>1. Heeds(pre) /\ pre \in {<<>>, <<"interact">>, <<"null">>} /\ pre \o <<>> = pre
  BY HeedsIs DEF Joins
<1>2. CASE up = <<>> /\ o = pre
  <2>1. <<>> \o pre = pre
    BY <1>1, Concats, Zenon
  <2>2. ASSUME NEW w PROVE <<>> \o Append(pre, w) = Append(pre, w)
    BY <1>1
  <2> QED
    BY <1>2, <2>1, <2>2, Zenon
<1>3. CASE up = pre /\ o = <<>>
  <2>1. ASSUME NEW w PROVE pre \o Append(<<>>, w) = Append(pre, w)
    <3>1. Append(pre, w) = pre \o <<w>> /\ Append(<<>>, w) = <<w>>
      BY <1>1, HeedsIs, Concats, Zenon
    <3> QED
      BY <3>1, Zenon
  <2> QED
    BY <1>1, <1>3, <2>1, Zenon
<1> QED
  BY <1>2, <1>3 DEF Joins

JoinsMore(o, pre) == \A v, w : up \o Append(Append(o, v), w) = Append(Append(pre, v), w)

LEMMA JoinsTwo ==
  ASSUME NEW o, NEW pre, Joins(o, pre)
  PROVE  JoinsMore(o, pre)
<1>1. Heeds(pre) /\ pre \in {<<>>, <<"interact">>, <<"null">>}
  BY HeedsIs DEF Joins
<1>2. CASE up = <<>> /\ o = pre
  <2>1. ASSUME NEW v, NEW w PROVE <<>> \o Append(Append(pre, v), w) = Append(Append(pre, v), w)
    BY <1>1
  <2> QED
    BY <1>2, <2>1, Zenon DEF JoinsMore
<1>3. CASE up = pre /\ o = <<>>
  <2>1. ASSUME NEW v, NEW w PROVE pre \o Append(Append(<<>>, v), w) = Append(Append(pre, v), w)
    <3>1. Append(<<>>, v) = <<v>> /\ Append(<<v>>, w) = <<v, w>>
      BY Concats, Pair, Zenon
    <3>2. Append(Append(pre, v), w) = pre \o <<v, w>>
      BY <1>1, TwoWords
    <3> QED
      BY <3>1, <3>2, Zenon
  <2> QED
    BY <1>3, <2>1, Zenon DEF JoinsMore
<1> QED
  BY <1>2, <1>3 DEF Joins

\* The greeter may act when core waits: for the answer to a prompt, or for a command.
LEMMA MayActIs ==
  ASSUME Situation, MayAct, Mode.turn # "core"
  PROVE  /\ gpc = "dialog" /\ down = <<>> /\ Place # "auto"
         /\ \/ /\ Top.state = "prompting" /\ Mode.turn = "prompt" /\ up = <<>>
               /\ Heeds(<<"null">>) /\ At("answer") /\ Company(Place)
            \/ /\ Top.state = "idle" /\ Mode.turn = "idle" /\ Place \in {"login", "shutdown"}
               /\ Heeds(up)
         /\ \/ CoreCaller = "wait" /\ (login # NoTalker \/ Place = "renewAuto")
            \/ CoreCaller = "confirm" /\ login = NoTalker /\ Place = "shutdown"
<1>1. gpc = "dialog"
  BY DEF MayAct
<1>2. PICK m \in Modes : m = Mode
  BY ModeTyped DEF Situation
<1>3. /\ m.in = Place /\ Place \in {"login", "auto", "shutdown", "renew", "renewAuto"}
      /\ m.turn = IF Top.state = "prompting" THEN "prompt"
                  ELSE IF Top.state = "idle" /\ over.ctx # "renew" THEN "idle" ELSE "core"
  BY <1>1, <1>2, PlaceIs DEF Situation, Mode
<1>4. CASE Top.state = "prompting"
  <2>1. m.turn = "prompt"
    BY <1>3, <1>4
  <2>2. Downward
    <3>1. ~\E c \in Commandings : Commanded(c)
      <4>1. Mode.turn = "prompt" /\ Mode.in = Place
        BY <1>2, <1>3, <2>1
      <4>2. ASSUME NEW c, Commanded(c) PROVE FALSE
        BY <1>1, <1>3, <4>1, <4>2 DEF Commanded
      <4> QED
        BY <4>2
    <3>2. ~Upward
      BY <1>1, <1>2, <2>1, <3>1 DEF Upward
    <3> QED
      BY <1>1, <3>2 DEF Situation, Talks, Crossing, Gone, Place
  <2>3. PICK e \in Modes : Run(conf, m, down, e) /\ Fits(e) /\ up = <<>> /\ down \in Seq(Words)
    BY <1>2, <2>2 DEF Downward
  <2>4. down = <<>> /\ e = m
    BY <1>2, <2>1, <2>3, RunStop
  <2>5. At("answer") /\ Company(Place) /\ core.ask # "noDelay"
    BY <1>3, <2>1, <2>3, <2>4 DEF Fits
  <2>6. Heeds(<<"null">>)
    BY <2>5 DEF Heeds
  <2>7. Place # "auto"
    <3>1. Top.running
      BY <1>1, <1>4, PlaceIs DEF Situation, TalkerOK
    <3> QED
      BY <1>1, <1>4, <3>1, PlaceIs DEF Situation, AutoLogsIn
  <2>8. ~Starting
    BY <2>5 DEF Starting, At
  <2>9. \/ CoreCaller = "wait" /\ (login # NoTalker \/ Place = "renewAuto")
        \/ CoreCaller = "confirm" /\ login = NoTalker /\ Place = "shutdown"
    <3>1. CASE Place = "renew"
      <4>1. login # NoTalker /\ core.caller = "wait"
        BY <1>1, <2>5, <2>8, <3>1, PlaceIs DEF Situation, Company
      <4> QED
        BY <2>5, <4>1 DEF CoreCaller
    <3>2. CASE Place # "renew"
      BY <1>3, <2>5, <2>7, <2>8, <3>2 DEF Company, CoreCaller
    <3> QED
      BY <3>1, <3>2
  <2> QED
    BY <1>1, <1>2, <1>4, <2>1, <2>3, <2>4, <2>5, <2>6, <2>7, <2>9
<1>5. CASE Top.state = "idle" /\ over.ctx # "renew"
  <2>1. Mode.turn = "idle"
    BY <1>2, <1>3, <1>5
  <2>2. /\ down = <<>> /\ Heeds(up)
        /\ \/ CoreCaller = "wait" /\ login # NoTalker
           \/ CoreCaller = "confirm" /\ login = NoTalker
    BY <1>1, <2>1, IdleSpeaks
  <2>3. Place \in {"login", "shutdown"}
    BY <1>1, <1>5, PlaceIs DEF Situation, AutoLogsIn
  <2>4. CoreCaller = "confirm" /\ login = NoTalker => Place = "shutdown"
    BY <1>1, <1>5, PlaceIs DEF Situation
  <2> QED
    BY <1>1, <1>5, <2>1, <2>2, <2>3, <2>4
<1> QED
  BY <1>2, <1>3, <1>4, <1>5

\* At a prompt nothing reports the first input.
LEMMA PromptedIs ==
  ASSUME Situation, MayAct, Mode.turn # "core", Top.state = "prompting", NEW x, QuietTouch(x)
  PROVE  x = <<>> /\ up = <<>> /\ Joins(Append(x, "null"), <<"null">>)
<1>1. x = <<>> /\ up = <<>> /\ Heeds(<<"null">>)
  BY MayActIs DEF QuietTouch, At
<1>2. Append(<<>>, "null") = <<"null">>
  BY Concats
<1> QED
  BY <1>1, <1>2 DEF Joins

\* In an idle dialog it may.
LEMMA IdleIs ==
  ASSUME Situation, MayAct, Mode.turn # "core", Top.state = "idle", NEW x, QuietTouch(x)
  PROVE  \E pre : Joins(x, pre)
<1>1. Heeds(up)
  BY MayActIs
<1>2. CASE x = <<>>
  BY <1>1, <1>2 DEF Joins
<1>3. CASE x # <<>>
  BY <1>3 DEF QuietTouch, Joins, Heeds
<1> QED
  BY <1>2, <1>3

\* The plugin of the dialog that is shown gives up a prompt, if there is one.
LEMMA GivesUp ==
  ASSUME Situation, MayAct, Mode.turn # "core", NEW x, QuietTouch(x),
         NEW s, s = PluginAbort([t |-> Top, out |-> x])
  PROVE  /\ \E pre : Joins(s.out, pre)
         /\ s.t \in Talkers /\ s.t.state = "idle" /\ s.t.asked = "no"
         /\ s.t.running = Top.running /\ s.t.reads = Top.reads /\ s.t.failed = Top.failed
         /\ s.t.counting = Top.counting /\ s.t.plugin = Top.plugin /\ s.t.ctx = Top.ctx
         /\ Top.asked = "no" => s.out = x
<1>1. Top \in Talkers /\ TalkerOK(Top)
  BY MayActIs, PlaceIs DEF Situation
<1>2. /\ s.t \in Talkers
      /\ s.t.running = Top.running /\ s.t.reads = Top.reads /\ s.t.failed = Top.failed
      /\ s.t.counting = Top.counting /\ s.t.plugin = Top.plugin /\ s.t.ctx = Top.ctx
      /\ s.t.asked = "no"
      /\ s.t.state = IF Top.asked = "no" THEN Top.state ELSE "idle"
      /\ s.out = IF Top.asked = "no" THEN x ELSE Append(x, "null")
  BY <1>1, PluginAbortIs
<1>3. CASE Top.state = "prompting"
  <2>1. Top.asked # "no" /\ Joins(Append(x, "null"), <<"null">>)
    BY <1>1, <1>3, PromptedIs DEF TalkerOK
  <2>2. s.t.state = "idle" /\ s.out = Append(x, "null")
    BY <1>2, <2>1
  <2> QED
    BY <1>2, <2>1, <2>2
<1>4. CASE Top.state = "idle"
  <2>1. Top.asked = "no" /\ \E pre : Joins(x, pre)
    BY <1>1, <1>4, IdleIs DEF TalkerOK
  <2>2. s.t.state = "idle" /\ s.out = x
    BY <1>2, <1>4, <2>1
  <2> QED
    BY <1>2, <2>1, <2>2
<1> QED
  BY <1>3, <1>4, MayActIs

LEMMA DoesActivity ==
  ASSUME Orderly, Situation, GreeterTyped', Mode.turn # "core", Activity
  PROVE  TalkersOK' /\ Talks'
<1>1. MayAct /\ Top.counting /\ UNCHANGED <<conf, core, down, gpc>>
  BY DEF Activity, coreVars
<1>2. PICK out, r : out = Touch /\ r = Retried([t |-> Top, out |-> out]) /\ Puts(r)
  BY DEF Activity
<1>3. gpc = "dialog" /\ down = <<>>
  BY <1>1, MayActIs
<1>4. over = NoTalker /\ login # NoTalker /\ Top = login /\ Top \in Talkers /\ TalkerOK(Top)
  BY <1>1, <1>3, PlaceIs DEF Situation, TalkersOK
<1>5. Top.state = "idle" /\ login.ctx = "login" /\ login.plugin = Plugin
  BY <1>1, <1>4 DEF TalkerOK, Situation, TalkersOK
<1>6. CoreCaller = "wait"
  BY <1>1, <1>4, <1>5, MayActIs
<1>7. QuietTouch(out)
  BY <1>2, <1>3, Touched DEF Activity
<1>8. PICK pre : Joins(out, pre)
  BY <1>1, <1>5, <1>7, IdleIs
<1>9. /\ r.t \in Talkers /\ r.t.running /\ r.t.reads /\ ~r.t.failed /\ ~r.t.counting
      /\ r.t.plugin = Top.plugin /\ r.t.ctx = Top.ctx /\ r.t.asked = "no"
      /\ r.t.state = IF Starts(Top) THEN "busy" ELSE Top.state
      /\ r.out = IF Starts(Top)
                 THEN Append(out, IF Top.ctx = "shutdown" THEN "verifyRoot" ELSE "verify")
                 ELSE out
  BY <1>2, <1>4, RetriedIs
<1>10. TalkerOK(r.t) /\ login' = r.t /\ over' = NoTalker /\ r.t.ctx = "login" /\ r.t.plugin = Plugin
  BY <1>2, <1>4, <1>5, <1>9 DEF TalkerOK, Puts
<1>11. up' = up \o r.out
  BY <1>2, Zenon DEF Puts
<1>12. \/ r.t.state = "idle" /\ up' = pre
       \/ r.t.state = "busy" /\ r.t.running /\ up' = Append(pre, "verify")
  <2>1. up \o out = pre /\ up \o Append(out, "verify") = Append(pre, "verify")
    BY <1>8, JoinsIs
  <2> QED
    BY <1>4, <1>5, <1>9, <1>11, <2>1
<1>13. Heeds(pre)
  BY <1>8 DEF Joins
<1> QED
  BY <1>1, <1>3, <1>6, <1>10, <1>12, <1>13, LoginBecomes

LEMMA DoesAutoLogin ==
  ASSUME Orderly, Situation, GreeterTyped', Mode.turn # "core", AutoLogin
  PROVE  TalkersOK' /\ Talks'
<1>1. MayAct /\ Top.counting /\ UNCHANGED <<conf, core, down, gpc>>
  BY DEF AutoLogin, coreVars
<1>2. gpc = "dialog" /\ down = <<>>
  BY <1>1, MayActIs
<1>3. over = NoTalker /\ login # NoTalker /\ Top = login /\ Top \in Talkers /\ TalkerOK(Top)
  BY <1>1, <1>2, PlaceIs DEF Situation, TalkersOK
<1>4. Top.state = "idle" /\ ~Top.running /\ Top.asked = "no" /\ Timed
      /\ login.ctx = "login" /\ login.plugin = Plugin
  BY <1>1, <1>3 DEF TalkerOK, Situation, TalkersOK
<1>5. Plugin = "classic"
  BY <1>4, DialogueAssumption DEF Situation, Plugin, Timed
<1>6. PICK u : u = [Top EXCEPT !.counting = FALSE, !.state = "busy", !.reads = TRUE]
  OBVIOUS
<1>7. PICK out \in {<<>>, Touch} : /\ Puts([t |-> u, out |-> Append(out, "autoLogin")])
                                  /\ armed' = (armed /\ out = <<>>)
  BY <1>6, Zenon DEF AutoLogin
<1>8. QuietTouch(out)
  <2>1. out # <<>> => ~armed'
    BY <1>7
  <2> QED
    BY <1>2, <1>7, <2>1, Touched
<1>9. PICK pre : Joins(out, pre)
  BY <1>1, <1>4, <1>8, IdleIs
<1>10. PICK r : r = [t |-> u, out |-> Append(out, "autoLogin")]
  OBVIOUS
<1>11. r.t = u /\ r.out = Append(out, "autoLogin") /\ Puts(r)
  BY <1>7, <1>10
<1>12. /\ u \in Talkers /\ u.state = "busy" /\ ~u.counting /\ ~u.running /\ u.asked = "no"
       /\ u.ctx = "login" /\ u.plugin = Plugin
  <2> DEFINE v == [Top EXCEPT !.counting = FALSE, !.state = "busy"]
  <2>1. /\ v \in Talkers /\ v.state = "busy" /\ ~v.counting /\ v.running = Top.running
        /\ v.asked = "no" /\ v.ctx = Top.ctx /\ v.plugin = Top.plugin
    BY <1>3, <1>4, TalkersAre
  <2>2. u = [v EXCEPT !.reads = TRUE]
    BY <1>6
  <2> HIDE DEF v
  <2> QED
    BY <1>3, <1>4, <2>1, <2>2, TalkersAre
<1>13. TalkerOK(u)
  BY <1>12 DEF TalkerOK
<1>14. r.t \in Talkers /\ TalkerOK(r.t) /\ r.t.state = "busy" /\ r.t.ctx = Top.ctx
       /\ r.t.plugin = Top.plugin /\ ~r.t.running /\ r.t.ctx = "login"
  BY <1>3, <1>4, <1>11, <1>12, <1>13
<1>15. /\ TalkersOK' /\ ((login = NoTalker) <=> (login' = NoTalker))
       /\ Place' = IF over # NoTalker THEN Place
                   ELSE IF r.t.state = "busy" /\ ~r.t.running THEN "auto" ELSE "login"
       /\ Mode'.turn = IF r.t.state = "prompting" THEN "prompt"
                       ELSE IF r.t.state = "idle" /\ Place \notin {"renew", "renewAuto"} THEN "idle"
                       ELSE "core"
  BY <1>1, <1>2, <1>3, <1>11, <1>14, PutsIs DEF Situation
<1>16. Place' = "auto" /\ Mode'.turn = "core" /\ Mode'.in = "auto"
  BY <1>3, <1>14, <1>15 DEF Mode
<1>17. Heeds(pre) /\ CoreCaller = "wait"
  BY <1>1, <1>3, <1>4, <1>9, MayActIs DEF Joins
<1>18. PICK c \in Commandings : c = <<"autoLogin">>
  BY DEF Commandings
<1>19. Commanded(c)'
  <2>1. Plugin' = Plugin /\ CoreCaller' = CoreCaller
    BY <1>1, FieldsFrame
  <2> QED
    BY <1>5, <1>16, <1>17, <1>18, <2>1 DEF Commanded
<1>20. up' = pre \o c
  <2>1. up' = up \o r.out
    BY <1>11, Zenon DEF Puts
  <2>2. up \o Append(out, "autoLogin") = Append(pre, "autoLogin")
    BY <1>9, JoinsIs, Zenon
  <2>3. Append(pre, "autoLogin") = pre \o <<"autoLogin">>
    BY <1>17, HeedsIs
  <2> QED
    BY <1>11, <1>18, <2>1, <2>2, <2>3, Zenon
<1>21. Talks'
  BY <1>1, <1>2, <1>15, <1>17, <1>19, <1>20, Sends
<1> QED
  BY <1>15, <1>21

\* A prompt is answered.
LEMMA Answers ==
  ASSUME Situation, MayAct, Mode.turn # "core", Top.asked # "no", QuietTouch(Touch),
         UNCHANGED <<conf, core, down, gpc>>,
         NEW r, r = Returned([t |-> Top, out |-> Touch], "text"), Puts(r)
  PROVE  TalkersOK' /\ Talks'
<1>1. gpc = "dialog" /\ down = <<>> /\ Place # "auto"
  BY MayActIs
<1>2. /\ Top \in Talkers /\ TalkerOK(Top)
      /\ \/ /\ over = NoTalker /\ login # NoTalker /\ Top = login /\ over.ctx = "login"
            /\ Place = IF AutoLogsIn THEN "auto" ELSE "login"
         \/ over # NoTalker /\ Top = over
  BY <1>1, PlaceIs DEF Situation
<1>3. Top.state = "prompting" /\ At("answer") /\ Company(Place) /\ Top.running
      /\ ~Top.counting /\ ~Top.failed
  BY <1>2, MayActIs DEF TalkerOK
<1>4. PICK out : out = Touch
  OBVIOUS
<1>5. out = <<>> /\ up = <<>>
  BY <1>3, <1>4, PromptedIs
<1>6. /\ r.t \in Talkers /\ r.t.running = Top.running /\ r.t.reads = Top.reads
      /\ r.t.failed = Top.failed /\ r.t.counting = Top.counting /\ r.t.plugin = Top.plugin
      /\ r.t.ctx = Top.ctx /\ r.t.asked = Top.asked /\ r.t.state = "busy"
      /\ r.out = Append(out, "text")
  BY <1>2, <1>4, TextIs
<1>7. TalkerOK(r.t) /\ r.t.running /\ ~r.t.counting
  BY <1>3, <1>6 DEF TalkerOK
<1>8. /\ TalkersOK' /\ ((login = NoTalker) <=> (login' = NoTalker))
      /\ Place' = IF over # NoTalker THEN Place
                  ELSE IF r.t.state = "busy" /\ ~r.t.running THEN "auto" ELSE "login"
      /\ Mode'.turn = IF r.t.state = "prompting" THEN "prompt"
                      ELSE IF r.t.state = "idle" /\ Place \notin {"renew", "renewAuto"} THEN "idle"
                      ELSE "core"
  BY <1>1, <1>6, <1>7, PutsIs DEF Situation
<1>9. Place' = Place /\ Mode'.turn = "core"
  BY <1>1, <1>2, <1>6, <1>7, <1>8
<1>10. up' = <<"text">>
  <2>1. up' = up \o r.out
    BY Zenon DEF Puts
  <2>2. up' = r.out
    BY <1>5, <1>6, <2>1
  <2> QED
    BY <1>6, <1>5, <2>2, Concats, Zenon
<1>11. Company(Place)' /\ At("answer")'
  <2>1. PICK p : p = Place
    OBVIOUS
  <2>2. Company(p)'
    BY <1>3, <1>8, <2>1, CompanyFrame
  <2>3. Company(Place)'
    BY <1>9, <2>1, <2>2 DEF Company
  <2> QED
    BY <1>3, <2>3, FieldsFrame
<1> QED
  BY <1>1, <1>8, <1>9, <1>10, <1>11 DEF Talks, Upward

LEMMA DoesAccept ==
  ASSUME Orderly, Situation, GreeterTyped', Mode.turn # "core", Accept
  PROVE  TalkersOK' /\ Talks'
<1>1. MayAct /\ Top.running /\ UNCHANGED <<conf, core, down, gpc>>
  BY DEF Accept, coreVars
<1>2. gpc = "dialog" /\ down = <<>>
  BY <1>1, MayActIs
<1>3. QuietTouch(Touch)
  BY <1>2, Touched DEF Accept
<1>4. /\ Top \in Talkers /\ TalkerOK(Top)
      /\ Top.plugin = (IF Place = "renewAuto" THEN "classic" ELSE Plugin)
      /\ \/ /\ over = NoTalker /\ login # NoTalker /\ Top = login /\ over.ctx = "login"
            /\ Place = IF AutoLogsIn THEN "auto" ELSE "login"
         \/ over # NoTalker /\ Top = over /\ over.ctx = "shutdown" /\ Place = "shutdown"
         \/ /\ over # NoTalker /\ Top = over /\ over.ctx = "renew"
            /\ Place = IF login = NoTalker THEN "renewAuto" ELSE "renew"
  BY <1>2, PlaceIs DEF Situation
<1>5. CASE Top.asked # "no"
  <2>1. PICK r : r = Returned([t |-> Top, out |-> Touch], "text") /\ Puts(r)
    BY <1>5 DEF Accept
  <2> QED
    BY <1>1, <1>5, <1>3, <2>1, Answers
<1>6. CASE Top.asked = "no"
  <2>1. Top.state = "idle" /\ Place \in {"login", "shutdown"} /\ ~Top.failed /\ ~Top.counting
    BY <1>1, <1>4, <1>6, MayActIs DEF TalkerOK
  <2>2. PICK out : out = Touch
    OBVIOUS
  <2>3. Puts(GplugStart([t |-> Top, out |-> out]))
    BY <1>6, <2>2 DEF Accept
  <2>4. PICK u : u = [Top EXCEPT !.state = "busy"]
    OBVIOUS
  <2>5. /\ u \in Talkers /\ u.state = "busy" /\ u.running = Top.running /\ u.reads = Top.reads
        /\ u.failed = Top.failed /\ u.counting = Top.counting /\ u.asked = Top.asked
        /\ u.plugin = Top.plugin /\ u.ctx = Top.ctx
    BY <1>4, <2>4, TalkersAre
  <2>6. TalkerOK(u) /\ u.running /\ ~u.counting
    BY <1>1, <2>1, <2>5 DEF TalkerOK
  <2>7. PICK r : r = GplugStart([t |-> Top, out |-> out])
    OBVIOUS
  <2>8. r = [t |-> u, out |-> Append(out, IF Top.ctx = "shutdown" THEN "verifyRoot" ELSE "verify")]
    BY <2>1, <2>4, <2>7 DEF GplugStart
  <2>9. r.t = u /\ r.out = Append(out, IF Top.ctx = "shutdown" THEN "verifyRoot" ELSE "verify")
    BY <2>8
  <2>10. up' = up \o r.out
    BY <2>3, <2>7, Zenon DEF Puts
  <2>11. login.ctx = "login" /\ login.plugin = Plugin /\ TalkerOK(login)
    BY DEF Situation, TalkersOK
  <2>12. PICK pre : Joins(out, pre) /\ Heeds(pre)
    BY <1>1, <1>3, <2>1, <2>2, IdleIs DEF Joins
  <2>13. \A w : up \o Append(out, w) = Append(pre, w)
    BY <2>12, JoinsIs
  <2>14. CASE over = NoTalker
    <3>1. login' = u /\ over' = NoTalker /\ Top = login
      BY <1>4, <2>3, <2>7, <2>9, <2>14 DEF Puts
    <3>2. CoreCaller = "wait"
      BY <1>1, <1>4, <2>14, MayActIs
    <3>3. up' = Append(pre, "verify") /\ u.ctx = "login" /\ u.plugin = Plugin
      BY <2>5, <2>9, <2>10, <2>11, <2>13, <3>1
    <3> QED
      BY <1>1, <1>2, <2>5, <2>6, <2>12, <3>1, <3>2, <3>3, LoginBecomes
  <2>15. CASE over # NoTalker
    <3>1. over' = u /\ login' = login /\ Top = over /\ Place = "shutdown" /\ over.ctx = "shutdown"
      BY <1>4, <2>1, <2>3, <2>7, <2>9, <2>15 DEF Puts
    <3>2. \/ CoreCaller = "wait" /\ login # NoTalker
          \/ CoreCaller = "confirm" /\ login = NoTalker
      BY <1>1, <3>1, MayActIs
    <3>3. up' = Append(pre, "verifyRoot") /\ u.ctx = "shutdown" /\ u.plugin = Plugin
      BY <1>4, <2>5, <2>9, <2>10, <2>13, <3>1
    <3>4. login.state \in {"none", "idle"}
      BY <2>1, <3>1 DEF Situation, TalkersOK
    <3> QED
      BY <1>1, <1>2, <2>5, <2>6, <2>11, <2>12, <3>1, <3>2, <3>3, <3>4, ShutdownBecomes
  <2> QED
    BY <2>14, <2>15
<1> QED
  BY <1>5, <1>6

\* Nothing of the dialogue changes.
LEMMA TalksFrame ==
  ASSUME TalkersOK, Talks, UNCHANGED <<conf, core, up, down, gpc, login, over>>
  PROVE  TalkersOK' /\ Talks'
<1>1. TalkersOK'
  BY NamesFrame DEF TalkersOK, TalkerOK
<1>2. /\ NoTalker' = NoTalker /\ Plugin' = Plugin /\ Timed' = Timed /\ CoreCaller' = CoreCaller
      /\ \A pc : At(pc)' <=> At(pc)
  BY FieldsFrame
<1>3. Mode' = Mode /\ Place' = Place
  BY ModeFrame
<1>4. CASE Downward
  <2>1. PICK e \in Modes : Run(conf, Mode, down, e) /\ Fits(e) /\ up = <<>> /\ down \in Seq(Words)
    BY <1>4 DEF Downward
  <2>2. Fits(e)'
    BY <2>1, FitsFrame
  <2>3. Run(conf', Mode', down', e) /\ up' = <<>> /\ down' \in Seq(Words)
    BY <1>3, <2>1
  <2> QED
    BY <1>1, <2>2, <2>3 DEF Talks, Downward
<1>5. CASE Upward
  <2>1. ASSUME NEW c, Commanded(c) PROVE Commanded(c)'
    BY <1>2, <1>3, <2>1 DEF Commanded
  <2>2. Company(Place) <=> Company(Place)'
    BY <1>2, <1>3 DEF Company, Starting, At
  <2> QED
    BY <1>1, <1>2, <1>3, <1>5, <2>1, <2>2 DEF Talks, Upward
<1>6. CASE Crossing \/ Gone
  BY <1>1, <1>2, <1>3, <1>6 DEF Talks, Crossing, Gone
<1> QED
  BY <1>4, <1>5, <1>6 DEF Talks

\* The session of the user is asked for; after that the talker may begin to verify.
LEMMA LoadBegins ==
  ASSUME UNCHANGED <<conf, core>>, GreeterTyped', NEW pre, Heeds(pre), CoreCaller = "wait",
         down' = <<>>, over' = NoTalker, NEW t, login' = t, TalkerOK(t), t.ctx = "login",
         t.plugin = Plugin,
         \/ t.state = "idle" /\ gpc' \in {"status", "onlyStatus"} /\ up' = pre \o <<"readDmrc">>
         \/ /\ t.state = "busy" /\ t.running /\ gpc' = "onlyStatus"
            /\ up' = pre \o <<"readDmrc", "verify">>
  PROVE  TalkersOK' /\ Talks'
<1>1. /\ NoTalker' = NoTalker /\ Plugin' = Plugin /\ Timed' = Timed /\ CoreCaller' = CoreCaller
  BY FieldsFrame
<1>2. TalkersOK'
  BY <1>1, NoTalkerIs DEF TalkersOK, TalkerOK
<1>3. CASE t.state = "idle" /\ gpc' \in {"status", "onlyStatus"} /\ up' = pre \o <<"readDmrc">>
  <2>1. PICK c \in Commandings : c = <<"readDmrc">>
    BY DEF Commandings
  <2>2. Place' \in {"status", "onlyStatus"}
    BY <1>3 DEF Place
  <2>3. Commanded(c)'
    BY <1>1, <2>1, <2>2 DEF Commanded
  <2> QED
    BY <1>2, <1>3, <2>1, <2>3, Sends
<1>4. CASE /\ t.state = "busy" /\ t.running /\ gpc' = "onlyStatus"
           /\ up' = pre \o <<"readDmrc", "verify">>
  <2>1. PICK c \in Commandings : c = <<"readDmrc", "verify">>
    BY DEF Commandings
  <2>2. Place' = "statusBusy"
    BY <1>4 DEF Place
  <2>3. Commanded(c)'
    BY <1>1, <2>1, <2>2 DEF Commanded
  <2> QED
    BY <1>2, <1>4, <2>1, <2>3, Sends
<1> QED
  BY <1>3, <1>4

LEMMA DoesEnterUser ==
  ASSUME Orderly, Situation, GreeterTyped', Mode.turn # "core", EnterUser
  PROVE  TalkersOK' /\ Talks'
<1>1. MayAct /\ Top.running /\ over = NoTalker /\ UNCHANGED <<conf, core, down>>
  BY DEF EnterUser, coreVars
<1>2. gpc = "dialog" /\ down = <<>>
  BY <1>1, MayActIs
<1>3. login # NoTalker /\ Top = login /\ login \in Talkers /\ TalkerOK(login)
      /\ login.ctx = "login" /\ login.plugin = Plugin
  BY <1>1, <1>2, PlaceIs DEF Situation, TalkersOK, GreeterTyped
<1>4. CoreCaller = "wait"
  BY <1>1, <1>3, MayActIs
<1>5. PICK out : out = Touch
  OBVIOUS
<1>6. QuietTouch(out)
  BY <1>2, <1>5, Touched DEF EnterUser
<1>7. PICK r : /\ r = IF login.asked = "more" THEN Returned([t |-> login, out |-> out], "null")
                                              ELSE [t |-> login, out |-> out]
               /\ Loads(r, "status")
  BY <1>3, <1>5 DEF EnterUser
<1>8. CASE login.asked = "more"
  <2>1. login.state = "prompting"
    BY <1>1, <1>3, <1>8, MayActIs DEF TalkerOK
  <2>2. r = Returned([t |-> login, out |-> out], "null")
    BY <1>7, <1>8
  <2>3. /\ r.t \in Talkers
        /\ r.t.running = login.running /\ r.t.failed = login.failed
        /\ r.t.counting = login.counting /\ r.t.plugin = login.plugin /\ r.t.ctx = login.ctx
        /\ r.t.asked = "no" /\ r.t.state = "idle" /\ r.out = Append(out, "null")
    BY <1>3, <2>2, NullIs
  <2>4. TalkerOK(r.t)
    BY <1>3, <2>1, <2>3 DEF TalkerOK
  <2>5. login' = r.t /\ over' = NoTalker /\ gpc' = "status" /\ up' = up \o Append(r.out, "readDmrc")
    BY <1>1, <1>7, <2>3 DEF Loads
  <2>6. PICK pre : pre = <<"null">>
    OBVIOUS
  <2>7. Joins(r.out, pre) /\ Heeds(pre)
    BY <1>1, <1>3, <1>6, <2>1, <2>3, <2>6, PromptedIs DEF Joins
  <2>8. up' = pre \o <<"readDmrc">>
    <3>1. up' = Append(pre, "readDmrc")
      BY <2>5, <2>7, JoinsIs
    <3>2. Append(pre, "readDmrc") = pre \o <<"readDmrc">>
      BY <2>7, HeedsIs
    <3> QED
      BY <3>1, <3>2, Zenon
  <2> QED
    BY <1>1, <1>2, <1>3, <1>4, <2>3, <2>4, <2>5, <2>7, <2>8, LoadBegins
<1>9. CASE login.asked # "more" /\ login.state = "idle"
  <2>1. r.t = login /\ r.out = out
    BY <1>7, <1>9
  <2>2. login' = login /\ over' = NoTalker /\ gpc' = "status" /\ up' = up \o Append(out, "readDmrc")
    BY <1>1, <1>7, <1>9, <2>1 DEF Loads
  <2>3. PICK pre : Joins(out, pre) /\ Heeds(pre)
    BY <1>1, <1>3, <1>9, <1>6, IdleIs DEF Joins
  <2>4. up' = pre \o <<"readDmrc">>
    <3>1. up' = Append(pre, "readDmrc")
      BY <2>2, <2>3, JoinsIs
    <3> QED
      BY <2>3, <3>1, HeedsIs
  <2> QED
    BY <1>1, <1>2, <1>3, <1>4, <1>9, <2>2, <2>3, <2>4, LoadBegins
<1>10. CASE login.asked # "more" /\ login.state # "idle"
  <2>1. r.t = login /\ r.out = out
    BY <1>7, <1>10
  <2>2. out = <<>>
    BY <1>1, <1>3, <1>10, <1>6, MayActIs, PromptedIs
  <2>3. login' = login /\ over' = over /\ gpc' = gpc /\ up' = up \o r.out
    BY <1>1, <1>7, <1>10, <2>1 DEF Loads, Puts
  <2>4. up' = up
    <3>1. up = <<>>
      BY <1>1, <1>3, <1>10, <1>6, MayActIs, PromptedIs
    <3> QED
      BY <2>1, <2>2, <2>3, <3>1, Concats, Zenon
  <2> QED
    BY <1>1, <2>3, <2>4, TalksFrame DEF Situation
<1> QED
  BY <1>8, <1>9, <1>10

\* What the user acts on.
LEMMA UserSees ==
  ASSUME Situation, MayAct, Mode.turn # "core"
  PROVE  /\ gpc = "dialog" /\ down = <<>> /\ TalkerOK(Top)
         /\ login \in Talkers /\ TalkerOK(login) /\ login.ctx = "login" /\ login.plugin = Plugin
         /\ over = NoTalker => /\ Top = login /\ login # NoTalker /\ CoreCaller = "wait"
                               /\ over.ctx = "login" /\ Place = "login"
         /\ over # NoTalker => Top = over /\ over.ctx \in {"renew", "shutdown"}
                               /\ login.state \in {"none", "idle"}
         /\ over.ctx = "renew" => over # NoTalker /\ CoreCaller = "wait" /\ Top.state = "prompting"
         /\ over.ctx = "shutdown" =>
              /\ over # NoTalker /\ Place = "shutdown" /\ ~over.counting /\ over.plugin = Plugin
              /\ over.reads => over.running
              /\ \/ CoreCaller = "wait" /\ login # NoTalker
                 \/ CoreCaller = "confirm" /\ login = NoTalker
<1>1. gpc = "dialog" /\ down = <<>> /\ Place # "auto"
  BY MayActIs
<1>2. /\ TalkerOK(Top)
      /\ \/ /\ over = NoTalker /\ login # NoTalker /\ Top = login /\ over.ctx = "login"
            /\ Place = IF AutoLogsIn THEN "auto" ELSE "login"
         \/ over # NoTalker /\ Top = over /\ over.ctx = "shutdown" /\ Place = "shutdown"
         \/ /\ over # NoTalker /\ Top = over /\ over.ctx = "renew"
            /\ Place = IF login = NoTalker THEN "renewAuto" ELSE "renew"
  BY <1>1, PlaceIs DEF Situation
<1>3. login \in Talkers /\ TalkerOK(login) /\ login.ctx = "login" /\ login.plugin = Plugin
  BY DEF Situation, TalkersOK, GreeterTyped
<1>4. /\ Top.state = "prompting" \/ Place \in {"login", "shutdown"}
      /\ \/ CoreCaller = "wait" /\ (login # NoTalker \/ Place = "renewAuto")
         \/ CoreCaller = "confirm" /\ login = NoTalker /\ Place = "shutdown"
  BY MayActIs
<1>5. CASE over = NoTalker
  BY <1>1, <1>2, <1>3, <1>4, <1>5
<1>6. CASE over # NoTalker
  <2>1. login.state \in {"none", "idle"} /\ ~over.counting
        /\ (over.ctx = "shutdown" => over.plugin = Plugin) /\ (over.reads => over.running)
    BY <1>2, <1>6 DEF Situation, TalkersOK, TalkerOK
  <2> QED
    BY <1>1, <1>2, <1>3, <1>4, <1>6, <2>1
<1> QED
  BY <1>5, <1>6

LEMMA DoesSwitchToChooser ==
  ASSUME Orderly, Situation, GreeterTyped', Mode.turn # "core", SwitchToChooser
  PROVE  TalkersOK' /\ Talks'
<1>1. MayAct /\ over = NoTalker /\ over' = over /\ UNCHANGED <<conf, core, down>>
      /\ gpc' = "command" /\ login' = NoTalker
  BY DEF SwitchToChooser, coreVars
<1>2. gpc = "dialog" /\ down = <<>> /\ Top = login /\ CoreCaller = "wait"
  BY <1>1, UserSees
<1>3. QuietTouch(Touch)
  BY <1>2, Touched DEF SwitchToChooser
<1>4. PICK s : s = PluginAbort([t |-> Top, out |-> Touch])
  OBVIOUS
<1>5. PICK pre : Joins(s.out, pre)
  BY <1>1, <1>4, <1>3, GivesUp
<1>6. Heeds(pre)
  BY <1>5 DEF Joins
<1>7. PICK c \in Commandings : c = <<"chooseHost">>
  BY DEF Commandings
<1>8. up' = pre \o c
  <2>1. up' = up \o Append(s.out, "chooseHost")
    BY <1>2, <1>4 DEF SwitchToChooser
  <2>2. up' = Append(pre, "chooseHost")
    BY <1>5, <2>1, JoinsIs
  <2>3. Append(pre, "chooseHost") = pre \o <<"chooseHost">>
    BY <1>6, HeedsIs
  <2> QED
    BY <1>7, <2>2, <2>3, Zenon
<1>9. NoTalker' = NoTalker /\ CoreCaller' = CoreCaller /\ Plugin' = Plugin
  BY <1>1, FieldsFrame
<1>10. TalkersOK'
  BY <1>1, <1>9, NoTalkerIs DEF TalkersOK, TalkerOK
<1>11. Commanded(c)'
  BY <1>1, <1>2, <1>7, <1>9 DEF Commanded
<1> QED
  BY <1>1, <1>2, <1>6, <1>8, <1>10, <1>11, Sends

LEMMA DoesOpenShutdown ==
  ASSUME Orderly, Situation, GreeterTyped', Mode.turn # "core", OpenShutdown
  PROVE  TalkersOK' /\ Talks'
<1>1. MayAct /\ over = NoTalker /\ ~login.counting /\ UNCHANGED <<conf, core, down, gpc>>
  BY DEF OpenShutdown, coreVars
<1>2. /\ gpc = "dialog" /\ down = <<>> /\ Top = login /\ CoreCaller = "wait"
      /\ login \in Talkers /\ TalkerOK(login) /\ login.ctx = "login" /\ login.plugin = Plugin
  BY <1>1, UserSees
<1>3. PICK x : x = Touch
  OBVIOUS
<1>4. QuietTouch(x)
  BY <1>2, <1>3, Touched DEF OpenShutdown
<1>5. PICK r : r = Suspended([t |-> login, out |-> x])
  OBVIOUS
<1>6. PICK shutdown \in ShutdownDialogs :
        login' = r.t /\ over' = shutdown.t /\ up' = up \o r.out \o shutdown.out
  BY <1>3, <1>5 DEF OpenShutdown
<1>7. /\ r.t \in Talkers
      /\ r.t.running = login.running /\ ~r.t.reads /\ r.t.failed = login.failed
      /\ r.t.counting = login.counting /\ r.t.plugin = login.plugin /\ r.t.ctx = login.ctx
      /\ r.t.asked = IF login.running THEN "no" ELSE login.asked
      /\ r.t.state = IF login.running /\ login.asked # "no" THEN "idle" ELSE login.state
      /\ r.out = IF login.running /\ login.asked # "no" THEN Append(x, "null") ELSE x
  BY <1>2, <1>5, SuspendedIs
<1>8. r.t.state = "idle" /\ r.t.asked = "no" /\ \E pre : Joins(r.out, pre)
  <2>1. CASE login.state = "prompting"
    <3>1. login.running /\ login.asked # "no" /\ Joins(Append(x, "null"), <<"null">>)
      BY <1>1, <1>2, <1>4, <2>1, PromptedIs DEF TalkerOK
    <3> QED
      BY <1>7, <3>1
  <2>2. CASE login.state = "idle"
    <3>1. login.asked = "no" /\ \E pre : Joins(x, pre)
      BY <1>1, <1>2, <1>4, <2>2, IdleIs DEF TalkerOK
    <3> QED
      BY <1>7, <2>2, <3>1
  <2> QED
    BY <1>1, <1>2, <2>1, <2>2, MayActIs
<1>9. PICK l : l = r.t
  OBVIOUS
<1>10. TalkerOK(l) /\ l.ctx = "login" /\ l.plugin = Plugin /\ l.state = "idle" /\ l # NoTalker
  BY <1>1, <1>2, <1>7, <1>8, <1>9, NoTalkerIs DEF TalkerOK
<1>11. /\ shutdown.t \in Talkers /\ shutdown.t # NoTalker /\ TalkerOK(shutdown.t)
       /\ shutdown.t.ctx = "shutdown" /\ shutdown.t.plugin = Plugin /\ ~shutdown.t.counting
       /\ shutdown.t.reads \/ shutdown.t.state = "busy" => shutdown.t.running
       /\ \/ shutdown.t.state = "idle" /\ shutdown.out = <<>>
          \/ shutdown.t.state = "busy" /\ shutdown.out = <<"verifyRoot">>
  BY ShutdownDialogIs, DialogueAssumption DEF Situation
<1>12. PICK t, q : t = shutdown.t /\ q = shutdown.out
  OBVIOUS
<1>13. PICK pre : Joins(r.out, pre)
  BY <1>8
<1>14. Heeds(pre)
  BY <1>13 DEF Joins
<1>15. up' = pre \o q
  <2>1. up' = up \o r.out \o q
    BY <1>6, <1>12
  <2>2. up \o r.out = pre
    BY <1>13, JoinsIs, Zenon
  <2> QED
    BY <2>1, <2>2, Zenon
<1>16. \/ t.state = "idle" /\ up' = pre
       \/ t.state = "busy" /\ up' = Append(pre, "verifyRoot")
  <2>1. pre \o <<>> = pre /\ Append(pre, "verifyRoot") = pre \o <<"verifyRoot">>
    BY <1>14, HeedsIs
  <2> QED
    BY <1>11, <1>12, <1>15, <2>1, Zenon
<1> QED
  BY <1>1, <1>2, <1>6, <1>8, <1>9, <1>10, <1>11, <1>12, <1>16, <1>14, ShutdownBecomes

LEMMA DoesForceToggled ==
  ASSUME Orderly, Situation, GreeterTyped', Mode.turn # "core", ForceToggled
  PROVE  TalkersOK' /\ Talks'
<1>1. MayAct /\ over.ctx = "shutdown" /\ UNCHANGED <<conf, core, down, gpc>>
  BY DEF ForceToggled, coreVars
<1>2. /\ gpc = "dialog" /\ down = <<>> /\ Top = over /\ over # NoTalker
      /\ TalkerOK(login) /\ login.ctx = "login" /\ login.plugin = Plugin
      /\ login.state \in {"none", "idle"} /\ TalkerOK(over) /\ ~over.counting
      /\ over.plugin = Plugin /\ over \in Talkers
      /\ \/ CoreCaller = "wait" /\ login # NoTalker
         \/ CoreCaller = "confirm" /\ login = NoTalker
  BY <1>1, UserSees DEF Situation, GreeterTyped
<1>3. PICK x : x = <<>> /\ QuietTouch(x)
  BY DEF QuietTouch
<1>4. PICK l : l = login
  OBVIOUS
<1>5. CASE over.running
  <2>1. PICK a : a = PluginAbort([t |-> over, out |-> x])
    OBVIOUS
  <2>2. PICK u : u = [a.t EXCEPT !.running = FALSE, !.reads = FALSE]
    OBVIOUS
  <2>3. Puts([t |-> u, out |-> a.out])
    BY <1>3, <1>5, <2>1, <2>2, Zenon DEF ForceToggled
  <2>4. over' = u /\ login' = l /\ up' = up \o a.out
    <3>1. PICK r : r = [t |-> u, out |-> a.out]
      OBVIOUS
    <3>2. r.t = u /\ r.out = a.out
      BY <3>1
    <3>3. Puts(r)
      BY <2>3, <3>1
    <3> QED
      BY <1>2, <1>4, <3>2, <3>3, Zenon DEF Puts
  <2>5. /\ a.t \in Talkers /\ a.t.state = "idle" /\ a.t.asked = "no"
        /\ ~a.t.failed /\ ~a.t.counting /\ a.t.plugin = Plugin /\ a.t.ctx = "shutdown"
    <3>1. ~over.failed
      BY <1>2, <1>5 DEF TalkerOK
    <3> QED
      BY <1>1, <1>2, <1>3, <2>1, <3>1, GivesUp
  <2>6. PICK pre : Joins(a.out, pre)
    BY <1>1, <1>2, <1>3, <2>1, GivesUp
  <2>7. Heeds(pre)
    BY <2>6 DEF Joins
  <2>8. /\ u \in Talkers /\ u.state = "idle" /\ u.asked = "no" /\ ~u.running /\ ~u.reads
        /\ ~u.failed /\ ~u.counting /\ u.plugin = Plugin /\ u.ctx = "shutdown"
    BY <2>2, <2>5, TalkersAre
  <2>9. TalkerOK(u)
    BY <2>8 DEF TalkerOK
  <2>10. up' = pre
    BY <2>4, <2>6, JoinsIs
  <2> QED
    BY <1>1, <1>2, <1>4, <2>4, <2>8, <2>9, <2>10, <2>7, ShutdownBecomes
<1>6. CASE ~over.running
  <2>1. PICK u : u = [over EXCEPT !.running = TRUE, !.reads = TRUE]
    OBVIOUS
  <2>2. PICK r : r = PluginStart([t |-> u, out |-> x])
    OBVIOUS
  <2>3. Puts(r)
    BY <1>3, <1>6, <2>1, <2>2, Zenon DEF ForceToggled
  <2>4. over' = r.t /\ login' = l /\ up' = up \o r.out
    BY <1>2, <1>4, <2>3, Zenon DEF Puts
  <2>5. over.state = "idle" /\ over.asked = "no"
    BY <1>1, <1>2, <1>6, MayActIs DEF TalkerOK
  <2>6. /\ u \in Talkers /\ u.state = "idle" /\ u.asked = "no" /\ u.running /\ u.reads
        /\ u.failed = over.failed /\ ~u.counting /\ u.plugin = Plugin /\ u.ctx = "shutdown"
    BY <1>1, <1>2, <2>1, <2>5, TalkersAre
  <2> u \in Talkers
    BY <2>6
  <2>7. /\ r.t \in Talkers
        /\ r.t.running = u.running /\ r.t.reads = u.reads /\ r.t.failed = u.failed
        /\ r.t.counting = u.counting /\ r.t.plugin = u.plugin /\ r.t.ctx = u.ctx
        /\ r.t.asked = "no"
        /\ r.t.state = IF Starts(u) THEN "busy" ELSE u.state
        /\ r.out = IF Starts(u)
                   THEN Append(x, IF u.ctx = "shutdown" THEN "verifyRoot" ELSE "verify")
                   ELSE x
    BY <2>2, PluginStartIs
  <2>8. ~r.t.failed
    BY <2>4, <2>6, <2>7 DEF Orderly, TwiceBreach
  <2>9. TalkerOK(r.t)
    BY <2>6, <2>7, <2>8 DEF TalkerOK
  <2>10. PICK pre : Joins(x, pre) /\ Heeds(pre)
    BY <1>1, <1>2, <1>3, <2>5, IdleIs DEF Joins
  <2>11. \/ r.t.state = "idle" /\ up' = pre
         \/ r.t.state = "busy" /\ up' = Append(pre, "verifyRoot")
    <3>1. up \o x = pre /\ up \o Append(x, "verifyRoot") = Append(pre, "verifyRoot")
      BY <2>10, JoinsIs
    <3> QED
      BY <2>4, <2>6, <2>7, <3>1
  <2> QED
    BY <1>1, <1>2, <1>4, <2>4, <2>6, <2>7, <2>9, <2>10, <2>11, ShutdownBecomes
<1> QED
  BY <1>5, <1>6

\* A dialog that asks for a shutdown takes the place of another one.
LEMMA DoesCloseShutdown ==
  ASSUME Orderly, Situation, GreeterTyped', Mode.turn # "core", CloseShutdown
  PROVE  TalkersOK' /\ Talks'
<1>1. MayAct /\ over.ctx = "shutdown" /\ UNCHANGED <<conf, core, down>>
  BY DEF CloseShutdown, coreVars
<1>2. /\ gpc = "dialog" /\ down = <<>> /\ Top = over /\ over # NoTalker
      /\ TalkerOK(login) /\ login.ctx = "login" /\ login.plugin = Plugin /\ login \in Talkers
      /\ login.state \in {"none", "idle"}
      /\ \/ CoreCaller = "wait" /\ login # NoTalker
         \/ CoreCaller = "confirm" /\ login = NoTalker
  BY <1>1, UserSees
<1>3. PICK x : x = <<>> /\ QuietTouch(x)
  BY DEF QuietTouch
<1>4. PICK a : a = PluginAbort([t |-> over, out |-> x])
  OBVIOUS
<1>5. PICK pre : Joins(a.out, pre)
  BY <1>1, <1>2, <1>3, <1>4, GivesUp
<1>6. Heeds(pre)
  BY <1>5 DEF Joins
<1>7. PICK out : out = a.out
  OBVIOUS
<1>8. /\ up \o out = pre /\ up \o Append(out, "verify") = Append(pre, "verify")
       /\ up \o Append(out, "ready") = Append(pre, "ready")
  BY <1>5, <1>7, JoinsIs
<1>9. /\ pre \in {<<>>, <<"interact">>, <<"null">>} /\ pre \o <<>> = pre
      /\ Append(pre, "verifyRoot") = pre \o <<"verifyRoot">>
      /\ Append(pre, "verify") = pre \o <<"verify">>
      /\ Append(pre, "ready") = pre \o <<"ready">>
  BY <1>6, HeedsIs
<1>10. CASE ShutdownClosed(out) /\ login = NoTalker
  <2>1. over' = NoTalker /\ gpc' = "gone" /\ login' = login /\ up' = up \o Append(out, "ready")
    BY <1>10 DEF ShutdownClosed
  <2>2. up' = Append(pre, "ready")
    BY <1>8, <2>1
  <2>3. PICK c \in Commandings : c = <<"ready">>
    BY DEF Commandings
  <2>4. up' = pre \o c
    BY <1>9, <2>2, <2>3, Zenon
  <2>5. NoTalker' = NoTalker /\ CoreCaller' = CoreCaller /\ Plugin' = Plugin
    BY <1>1, FieldsFrame
  <2>6. TalkersOK'
    BY <1>10, <2>1, <2>5, NoTalkerIs DEF TalkersOK, TalkerOK
  <2>7. Commanded(c)'
    BY <1>2, <1>10, <2>1, <2>3, <2>5 DEF Commanded
  <2> QED
    BY <1>1, <1>2, <1>6, <2>4, <2>6, <2>7, Sends
<1>11. CASE ShutdownClosed(out) /\ login # NoTalker
  <2>1. PICK r : r = Resumed([t |-> login, out |-> out])
    OBVIOUS
  <2>2. over' = NoTalker /\ gpc' = gpc /\ login' = r.t /\ up' = up \o r.out
    BY <1>11, <2>1 DEF ShutdownClosed
  <2>3. /\ r.t \in Talkers
        /\ r.t.running = login.running /\ r.t.reads /\ r.t.failed = login.failed
        /\ r.t.counting = login.counting /\ r.t.plugin = login.plugin /\ r.t.ctx = login.ctx
        /\ r.t.asked = IF login.running THEN "no" ELSE login.asked
        /\ r.t.state = IF login.running /\ Starts(login) THEN "busy" ELSE login.state
        /\ r.out = IF login.running /\ Starts(login)
                   THEN Append(out, IF login.ctx = "shutdown" THEN "verifyRoot" ELSE "verify")
                   ELSE out
    BY <1>2, <2>1, ResumedIs
  <2>4. login.state = "idle" /\ login.asked = "no"
    BY <1>2, <1>11 DEF TalkerOK
  <2>5. TalkerOK(r.t)
    BY <1>2, <2>3, <2>4 DEF TalkerOK
  <2>6. \/ r.t.state = "idle" /\ up' = pre
        \/ r.t.state = "busy" /\ r.t.running /\ up' = Append(pre, "verify")
    BY <1>2, <1>8, <2>2, <2>3, <2>4
  <2>7. r.t.ctx = "login" /\ r.t.plugin = Plugin /\ CoreCaller = "wait" /\ gpc' = "dialog"
    BY <1>2, <1>11, <2>2, <2>3
  <2> QED
    BY <1>1, <1>2, <1>6, <2>2, <2>5, <2>6, <2>7, LoginBecomes
<1>12. CASE ~ShutdownClosed(out)
  <2>1. PICK shutdown \in ShutdownDialogs :
          over' = shutdown.t /\ up' = up \o out \o shutdown.out /\ gpc' = gpc /\ login' = login
    BY <1>3, <1>4, <1>12, <1>7 DEF CloseShutdown
  <2>2. /\ shutdown.t \in Talkers /\ shutdown.t # NoTalker /\ TalkerOK(shutdown.t)
        /\ shutdown.t.ctx = "shutdown" /\ shutdown.t.plugin = Plugin /\ ~shutdown.t.counting
        /\ shutdown.t.reads \/ shutdown.t.state = "busy" => shutdown.t.running
        /\ \/ shutdown.t.state = "idle" /\ shutdown.out = <<>>
           \/ shutdown.t.state = "busy" /\ shutdown.out = <<"verifyRoot">>
    BY ShutdownDialogIs, DialogueAssumption DEF Situation
  <2>3. PICK l, t, q : l = login /\ t = shutdown.t /\ q = shutdown.out
    OBVIOUS
  <2>4. up' = pre \o q
    <3>1. up' = up \o out \o q
      BY <2>1, <2>3
    <3> QED
      BY <1>8, <3>1, Zenon
  <2>5. \/ t.state = "idle" /\ up' = pre
        \/ t.state = "busy" /\ up' = Append(pre, "verifyRoot")
    BY <1>9, <2>2, <2>3, <2>4, Zenon
  <2> QED
    BY <1>1, <1>2, <1>6, <2>1, <2>2, <2>3, <2>5, ShutdownBecomes
<1> QED
  BY <1>10, <1>11, <1>12

LEMMA DoesCancelRenewal ==
  ASSUME Orderly, Situation, GreeterTyped', Mode.turn # "core", CancelRenewal
  PROVE  TalkersOK' /\ Talks'
<1>1. MayAct /\ over.ctx = "renew" /\ UNCHANGED <<conf, core, down, gpc>> /\ over' = NoTalker
  BY DEF CancelRenewal, coreVars
<1>2. /\ gpc = "dialog" /\ down = <<>> /\ Top = over /\ over # NoTalker
      /\ TalkerOK(login) /\ login.ctx = "login" /\ login.plugin = Plugin /\ login \in Talkers
      /\ login.state \in {"none", "idle"} /\ CoreCaller = "wait"
  BY <1>1, UserSees
<1>3. PICK x : x = IF login = NoTalker THEN <<>> ELSE Touch
  OBVIOUS
<1>4. PICK a, out : a = PluginAbort([t |-> Top, out |-> x]) /\ out = a.out
  OBVIOUS
<1>5. PICK s, q : /\ s = IF login = NoTalker THEN Started(FALSE)
                                             ELSE Retried([t |-> login, out |-> <<>>])
                  /\ q = s.out
  OBVIOUS
<1>6. login' = s.t /\ up' = up \o out \o q /\ armed' = (login = NoTalker)
  BY <1>2, <1>3, <1>4, <1>5 DEF CancelRenewal
<1>7. QuietTouch(x)
  <2>1. CASE login = NoTalker
    BY <1>3, <2>1 DEF QuietTouch
  <2>2. CASE login # NoTalker
    BY <1>2, <1>3, <1>6, <2>2, Touched
  <2> QED
    BY <2>1, <2>2
<1>8. PICK pre : Joins(out, pre)
  BY <1>1, <1>4, <1>7, GivesUp
<1>9. Heeds(pre) /\ up' = pre \o q
  <2>1. up \o out = pre
    BY <1>8, JoinsIs
  <2> QED
    BY <1>6, <1>8, <2>1, Zenon DEF Joins
<1>10. /\ s.t \in Talkers /\ TalkerOK(s.t) /\ s.t.ctx = "login" /\ s.t.plugin = Plugin
       /\ \/ s.t.state = "idle" /\ q = <<>>
          \/ s.t.state = "busy" /\ s.t.running /\ q = <<"verify">>
  <2>1. CASE login = NoTalker
    BY <1>5, <2>1, StartedIs, DialogueAssumption DEF Situation
  <2>2. CASE login # NoTalker
    <3>1. PICK none : none = <<>>
      OBVIOUS
    <3>2. s = Retried([t |-> login, out |-> none])
      BY <1>5, <2>2, <3>1
    <3> login \in Talkers
      BY <1>2
    <3>3. /\ s.t \in Talkers
          /\ s.t.running /\ s.t.reads /\ ~s.t.failed /\ ~s.t.counting
          /\ s.t.plugin = login.plugin /\ s.t.ctx = login.ctx /\ s.t.asked = "no"
          /\ s.t.state = IF Starts(login) THEN "busy" ELSE login.state
          /\ s.out = IF Starts(login)
                     THEN Append(none, IF login.ctx = "shutdown" THEN "verifyRoot" ELSE "verify")
                     ELSE none
      BY <3>2, RetriedIs
    <3>4. login.state = "idle"
      BY <1>2, <2>2 DEF TalkerOK
    <3>5. TalkerOK(s.t) /\ s.t.ctx = "login" /\ s.t.plugin = Plugin
      BY <1>2, <3>3, <3>4 DEF TalkerOK
    <3>6. Append(none, "verify") = <<"verify">>
      BY <3>1, Concats
    <3> QED
      BY <1>2, <1>5, <3>1, <3>3, <3>4, <3>5, <3>6
  <2> QED
    BY <2>1, <2>2
<1>11. PICK t : t = s.t
  OBVIOUS
<1>12. \/ t.state = "idle" /\ up' = pre
       \/ t.state = "busy" /\ t.running /\ up' = Append(pre, "verify")
  <2>1. pre \o <<>> = pre /\ Append(pre, "verify") = pre \o <<"verify">>
    BY <1>9, HeedsIs
  <2> QED
    BY <1>9, <1>10, <1>11, <2>1, Zenon
<1>13. over' = NoTalker'
  BY <1>1, NamesFrame
<1> QED
  BY <1>1, <1>2, <1>6, <1>9, <1>10, <1>11, <1>12, <1>13, LoginBecomes

LEMMA DoesReject ==
  ASSUME Orderly, Situation, GreeterTyped', Mode.turn # "core", Reject
  PROVE  TalkersOK' /\ Talks'
<1> DEFINE A(x)    == IF Top.running THEN PluginAbort([t |-> login, out |-> x])
                                     ELSE [t |-> login, out |-> x]
           L(a)    == IF a.t.state = "idle" THEN Append(a.out, "readDmrc") ELSE a.out
           S(g, a) == IF g THEN [t |-> [a.t EXCEPT !.running = FALSE, !.reads = FALSE,
                                                   !.counting = TRUE], out |-> L(a)]
                      ELSE IF a.t.running THEN PluginStart([t |-> a.t, out |-> L(a)])
                      ELSE [t |-> a.t, out |-> L(a)]
<1>1. MayAct /\ ~login.counting /\ over' = over /\ UNCHANGED <<conf, core, down>>
  BY DEF Reject, coreVars
<1>2. PICK x \in {<<>>, Touch}, again \in Again :
        /\ over # NoTalker => again
        /\ login' = S(again, A(x)).t /\ up' = up \o S(again, A(x)).out
        /\ gpc' = IF A(x).t.state = "idle" THEN "onlyStatus" ELSE "dialog"
        /\ armed' = (armed /\ x = <<>>)
  BY Zenon DEF Reject
<1>3. PICK a, loaded, s :
        /\ a = IF Top.running THEN PluginAbort([t |-> login, out |-> x])
                              ELSE [t |-> login, out |-> x]
        /\ loaded = IF a.t.state = "idle" THEN Append(a.out, "readDmrc") ELSE a.out
        /\ s = IF again THEN [t |-> [a.t EXCEPT !.running = FALSE, !.reads = FALSE,
                                                !.counting = TRUE], out |-> loaded]
               ELSE IF a.t.running THEN PluginStart([t |-> a.t, out |-> loaded])
               ELSE [t |-> a.t, out |-> loaded]
        /\ login' = s.t /\ up' = up \o s.out
        /\ gpc' = IF a.t.state = "idle" THEN "onlyStatus" ELSE "dialog"
  BY <1>2, Zenon
<1> HIDE DEF A, L, S
<1>4. over = NoTalker
  <2> SUFFICES ASSUME over # NoTalker PROVE FALSE
    OBVIOUS
  <2>1. again /\ over.state # "none" /\ login \in Talkers
    BY <1>1, <1>2, UserSees DEF Situation, TalkersOK, TalkerOK
  <2>2. a.t \in Talkers
    <3>1. CASE Top.running
      BY <1>3, <2>1, <3>1, PluginAbortIs
    <3>2. CASE ~Top.running
      BY <1>3, <2>1, <3>2
    <3> QED
      BY <3>1, <3>2
  <2>3. login'.counting
    BY <1>3, <2>1, <2>2 DEF Talkers
  <2> QED
    BY <1>1, <2>1, <2>3 DEF Orderly, SuspendedBreach
<1>5. /\ gpc = "dialog" /\ down = <<>> /\ Top = login
      /\ login \in Talkers /\ TalkerOK(login) /\ login.ctx = "login" /\ login.plugin = Plugin
      /\ CoreCaller = "wait"
  BY <1>1, <1>4, UserSees
<1>6. QuietTouch(x)
  <2>1. x # <<>> => ~armed'
    BY <1>2
  <2> QED
    BY <1>5, <2>1, Touched
<1>7. /\ \E pre : Joins(a.out, pre)
      /\ a.t \in Talkers /\ a.t.state = "idle" /\ a.t.asked = "no"
      /\ a.t.running = login.running /\ a.t.failed = login.failed
      /\ ~a.t.counting /\ a.t.plugin = Plugin /\ a.t.ctx = "login"
  <2>1. CASE login.running
    <3>1. a = PluginAbort([t |-> Top, out |-> x])
      BY <1>3, <1>5, <2>1
    <3> QED
      BY <1>1, <1>5, <1>6, <3>1, GivesUp
  <2>2. CASE ~login.running
    <3>1. a.t = login /\ a.out = x
      BY <1>3, <1>5, <2>2
    <3>2. login.state = "idle" /\ login.asked = "no"
      BY <1>1, <1>5, <2>2, MayActIs DEF TalkerOK
    <3> QED
      BY <1>1, <1>5, <1>6, <3>1, <3>2, IdleIs
  <2> QED
    BY <2>1, <2>2
<1>8. PICK out, pre : out = a.out /\ Joins(out, pre)
  BY <1>7
<1>9. Heeds(pre) /\ loaded = Append(out, "readDmrc") /\ gpc' = "onlyStatus"
  BY <1>3, <1>7, <1>8 DEF Joins
<1>10. /\ up \o loaded = pre \o <<"readDmrc">>
       /\ up \o Append(loaded, "verify") = pre \o <<"readDmrc", "verify">>
  <2>1. /\ up \o Append(out, "readDmrc") = Append(pre, "readDmrc")
        /\ up \o Append(Append(out, "readDmrc"), "verify") = Append(Append(pre, "readDmrc"), "verify")
    <3>1. Joins(out, pre)
      BY <1>8, Zenon
    <3>2. \A w : up \o Append(out, w) = Append(pre, w)
      BY <3>1, JoinsIs
    <3>3. JoinsMore(out, pre)
      BY <3>1, JoinsTwo
    <3> QED
      BY <3>2, <3>3, Zenon DEF JoinsMore
  <2>2. /\ Append(pre, "readDmrc") = pre \o <<"readDmrc">>
        /\ Append(Append(pre, "readDmrc"), "verify") = pre \o <<"readDmrc", "verify">>
    BY <1>9, HeedsIs, TwoWords
  <2> QED
    BY <1>9, <2>1, <2>2, Zenon
<1>11. over' = NoTalker
  BY <1>1, <1>4
<1>12. CASE again
  <2>1. Timed
    BY <1>12 DEF Again
  <2>2. PICK u : u = [a.t EXCEPT !.running = FALSE, !.reads = FALSE, !.counting = TRUE]
    OBVIOUS
  <2>3. s = [t |-> u, out |-> loaded]
    BY <1>3, <1>12, <2>2, Zenon
  <2>4. s.t = u /\ s.out = loaded
    BY <2>3
  <2>5. /\ u \in Talkers /\ u.state = "idle" /\ u.asked = "no" /\ ~u.running
        /\ u.plugin = Plugin /\ u.ctx = "login"
    <3> DEFINE v == [a.t EXCEPT !.running = FALSE, !.reads = FALSE]
    <3>1. /\ v \in Talkers /\ v.state = "idle" /\ v.asked = "no" /\ ~v.running
          /\ v.plugin = Plugin /\ v.ctx = "login"
      BY <1>7, TalkersAre
    <3>2. u = [v EXCEPT !.counting = TRUE]
      BY <2>2
    <3> HIDE DEF v
    <3> QED
      BY <3>1, <3>2, TalkersAre
  <2>6. TalkerOK(u)
    BY <2>1, <2>5 DEF TalkerOK
  <2>7. login' = u /\ up' = pre \o <<"readDmrc">>
    BY <1>3, <1>10, <2>4
  <2>8. down' = <<>> /\ CoreCaller = "wait" /\ Heeds(pre) /\ gpc' = "onlyStatus"
    BY <1>1, <1>5, <1>9
  <2> QED
    BY <1>1, <1>11, <2>5, <2>6, <2>7, <2>8, LoadBegins
<1>13. CASE ~again /\ a.t.running
  <2>1. s = PluginStart([t |-> a.t, out |-> loaded])
    BY <1>3, <1>13
  <2> a.t \in Talkers
    BY <1>7
  <2>2. /\ s.t \in Talkers
        /\ s.t.running = a.t.running /\ s.t.reads = a.t.reads /\ s.t.failed = a.t.failed
        /\ s.t.counting = a.t.counting /\ s.t.plugin = a.t.plugin /\ s.t.ctx = a.t.ctx
        /\ s.t.asked = "no"
        /\ s.t.state = IF Starts(a.t) THEN "busy" ELSE a.t.state
        /\ s.out = IF Starts(a.t)
                   THEN Append(loaded, IF a.t.ctx = "shutdown" THEN "verifyRoot" ELSE "verify")
                   ELSE loaded
    BY <2>1, PluginStartIs
  <2>3. TalkerOK(s.t) /\ s.t.ctx = "login" /\ s.t.plugin = Plugin /\ s.t.running
    BY <1>5, <1>7, <1>13, <2>2 DEF TalkerOK
  <2>4. \/ s.t.state = "idle" /\ up' = pre \o <<"readDmrc">>
        \/ s.t.state = "busy" /\ up' = pre \o <<"readDmrc", "verify">>
    BY <1>3, <1>7, <1>10, <2>2
  <2>5. /\ down' = <<>> /\ CoreCaller = "wait" /\ Heeds(pre) /\ gpc' = "onlyStatus"
        /\ login' = s.t
    BY <1>1, <1>3, <1>5, <1>9
  <2> QED
    BY <1>1, <1>11, <2>3, <2>4, <2>5, LoadBegins
<1>14. CASE ~again /\ ~a.t.running
  <2>1. s.t = a.t /\ s.out = loaded
    <3>1. s = [t |-> a.t, out |-> loaded]
      BY <1>3, <1>14
    <3> QED
      BY <3>1
  <2>2. TalkerOK(s.t)
    BY <1>7, <1>14, <2>1 DEF TalkerOK
  <2>3. up' = pre \o <<"readDmrc">>
    BY <1>3, <1>10, <2>1
  <2>4. /\ down' = <<>> /\ CoreCaller = "wait" /\ Heeds(pre) /\ gpc' = "onlyStatus"
        /\ login' = s.t /\ s.t.state = "idle" /\ s.t.ctx = "login" /\ s.t.plugin = Plugin
    BY <1>1, <1>3, <1>5, <1>7, <1>9, <2>1
  <2> QED
    BY <1>1, <1>11, <2>2, <2>3, <2>4, LoadBegins
<1> QED
  BY <1>12, <1>13, <1>14

\* The first input that does nothing else: core waits for a command.
LEMMA DoesFirstInput ==
  ASSUME Orderly, Situation, GreeterTyped', Mode.turn # "core", FirstInput
  PROVE  TalkersOK' /\ Talks'
<1>1. MayAct /\ armed /\ ~armed' /\ up' = up \o Touch
      /\ UNCHANGED <<conf, core, down, gpc, login, over>>
  BY DEF FirstInput, coreVars
<1>2. /\ gpc = "dialog" /\ down = <<>>
      /\ TalkerOK(Top) /\ TalkerOK(login) /\ login.ctx = "login" /\ login.plugin = Plugin
      /\ over = NoTalker => Top = login /\ CoreCaller = "wait"
      /\ over # NoTalker => Top = over /\ login.state \in {"none", "idle"}
      /\ over.ctx = "shutdown" =>
           /\ ~over.counting /\ over.plugin = Plugin
           /\ \/ CoreCaller = "wait" /\ login # NoTalker
              \/ CoreCaller = "confirm" /\ login = NoTalker
  BY <1>1, UserSees
<1>3. PICK x : x = Touch /\ QuietTouch(x) /\ x # <<>>
  <2>1. Touch # <<>>
    BY <1>1 DEF Touch
  <2> QED
    BY <1>1, <1>2, <2>1, Touched
<1>4. Top.state = "idle" /\ Place \in {"login", "shutdown"}
  BY <1>1, <1>3, MayActIs, PromptedIs
<1>5. PICK pre : Joins(x, pre)
  BY <1>1, <1>3, <1>4, IdleIs
<1>6. Heeds(pre) /\ up' = pre
  <2>1. up \o x = pre
    BY <1>5, JoinsIs
  <2> QED
    BY <1>1, <1>3, <1>5, <2>1 DEF Joins
<1>7. PICK l, t : l = login /\ t = over
  OBVIOUS
<1>8. CASE over = NoTalker
  <2>1. over' = NoTalker
    BY <1>1, <1>8
  <2> QED
    BY <1>1, <1>2, <1>4, <1>6, <1>7, <1>8, <2>1, LoginBecomes
<1>9. CASE over # NoTalker
  <2>1. over.ctx = "shutdown" /\ (over.reads \/ over.state = "busy" => over.running)
    BY <1>2, <1>4, <1>9, PlaceIs DEF Situation, TalkersOK
  <2> QED
    BY <1>1, <1>2, <1>4, <1>6, <1>7, <1>9, <2>1, ShutdownBecomes
<1> QED
  BY <1>8, <1>9

-----------------------------------------------------------------------------
(* Users, while core is busy: they change nothing *)

\* What the greeter takes core for.
LEMMA BusyIs ==
  ASSUME Situation, gpc = "dialog", Mode.turn = "core"
  PROVE  /\ ~(Calm /\ At("wait"))
         /\ Top \in Talkers /\ TalkerOK(Top) /\ ~Top.counting
         /\ login \in Talkers /\ over \in Talkers
         /\ over = NoTalker => Top = login /\ login.state = "busy"
         /\ over.ctx = "shutdown" => Top = over /\ over # NoTalker /\ over.state = "busy"
                                     /\ over.running
         /\ over.ctx = "renew" => Top = over /\ over # NoTalker
         /\ Top.running \/ over.ctx # "renew" \/ ~over.failed => Busy
<1>1. /\ Top \in Talkers /\ Top.state \in {"idle", "prompting", "busy"} /\ TalkerOK(Top)
      /\ \/ over = NoTalker /\ Top = login /\ over.ctx = "login"
         \/ over # NoTalker /\ Top = over /\ over.ctx = "shutdown"
         \/ over # NoTalker /\ Top = over /\ over.ctx = "renew"
  BY PlaceIs DEF Situation
<1>2. Top.state = "busy" \/ (Top.state = "idle" /\ over.ctx = "renew")
  BY <1>1 DEF Mode
<1>3. login \in Talkers /\ over \in Talkers
  BY DEF Situation, GreeterTyped
<1>4. ~Top.counting /\ (over.ctx = "shutdown" => over.running)
  BY <1>1, <1>2 DEF Situation, TalkersOK, TalkerOK
<1>5. ~(Calm /\ At("wait"))
  <2> SUFFICES ASSUME Calm, At("wait") PROVE FALSE
    OBVIOUS
  <2>1. up = <<>> /\ down = <<>>
    BY DEF Calm
  <2>2. ~Crossing /\ ~Gone
    BY <2>1 DEF Crossing, Gone
  <2>3. ~Upward
    <3>1. \A c \in Commandings : <<"interact">> \o c # <<>>
      BY ConcatProperties DEF Commandings
    <3>2. ~\E c \in Commandings : Commanded(c) /\ c = <<>>
      BY DEF Commanded
    <3> QED
      BY <2>1, <3>1, <3>2 DEF Upward, At
  <2>4. PICK m \in Modes : m = Mode
    BY ModeTyped DEF Situation
  <2>5. PICK e \in Modes : Run(conf, m, <<>>, e) /\ Fits(e)
    BY <2>1, <2>2, <2>3, <2>4 DEF Situation, Talks, Downward
  <2>6. e = m
    BY <2>4, <2>5, RunEmpty
  <2> QED
    BY <2>4, <2>5, <2>6 DEF Fits, At
<1>6. Top.running \/ over.ctx # "renew" \/ ~over.failed => Busy
  BY <1>1, <1>2 DEF Busy, TalkerOK
<1> QED
  BY <1>1, <1>2, <1>3, <1>4, <1>5, <1>6

\* What a step may not do then.
LEMMA BusyMay ==
  ASSUME Orderly, Situation, gpc = "dialog", Mode.turn = "core", UNCHANGED <<core, down>>
  PROVE  /\ armed => armed'
         /\ Busy => /\ gpc' = gpc /\ over' = over /\ login'.counting = login.counting
                    /\ ~(Len(up') > Len(up))
<1>1. ~(Calm /\ At("wait"))
  BY BusyIs
<1> QED
  BY <1>1 DEF Orderly, InputBreach, BusyBreach

LEMMA Longer ==
  ASSUME Talks, NEW w \in Replies, NEW o \in {<<w>>, <<>> \o <<w>>, Append(<<>>, w)},
         up' = up \o o
  PROVE  Len(up') > Len(up)
<1>1. up \in Seq(Replies) /\ o = <<w>>
  BY UpTyped, Concats, Zenon
<1> QED
  BY <1>1, LenProperties, ConcatProperties

LEMMA BusyHoldsAccept ==
  ASSUME Orderly, Situation, gpc = "dialog", Mode.turn = "core", Accept
  PROVE  UNCHANGED <<conf, core, up, down, gpc, login, over>>
<1>1. Top.running /\ ~armed' /\ UNCHANGED <<conf, core, down, gpc>>
  BY DEF Accept, coreVars
<1>2. Busy /\ Top \in Talkers /\ Talks
  BY <1>1, BusyIs DEF Situation
<1>3. Touch = <<>>
  BY <1>1, BusyMay DEF Touch
<1>4. PICK r : /\ r = [t |-> Top, out |-> <<>>]
               /\ \/ Puts(GplugStart(r))
                  \/ Puts(Returned(r, "text"))
  BY <1>3 DEF Accept
<1>5. ~Puts(Returned(r, "text"))
  <2> SUFFICES ASSUME Puts(Returned(r, "text")) PROVE FALSE
    OBVIOUS
  <2>1. PICK s : s = Returned(r, "text") /\ Puts(s)
    OBVIOUS
  <2>2. s.out = Append(<<>>, "text")
    BY <1>2, <1>4, <2>1, TextIs
  <2>3. up' = up \o s.out
    BY <2>1 DEF Puts
  <2>4. Len(up') > Len(up)
    BY <1>2, <2>2, <2>3, Longer DEF Replies
  <2> QED
    BY <1>1, <1>2, <2>4, BusyMay
<1>6. CASE Top.state = "idle"
  <2>1. PICK w \in {"verify", "verifyRoot"} : GplugStart(r).out = Append(<<>>, w)
    BY <1>4, <1>6 DEF GplugStart
  <2>2. up' = up \o Append(<<>>, w)
    BY <1>4, <1>5, <2>1 DEF Puts
  <2>3. Len(up') > Len(up)
    BY <1>2, <2>2, Longer DEF Replies
  <2> QED
    BY <1>1, <1>2, <2>3, BusyMay
<1>7. CASE Top.state # "idle"
  <2>1. GplugStart(r) = r /\ r.t = Top /\ r.out = <<>>
    BY <1>4, <1>7 DEF GplugStart
  <2>2. Puts(r)
    BY <1>4, <1>5, <2>1
  <2>3. up' = up /\ login' = login /\ over' = over
    BY <1>2, <2>1, <2>2, UpIs DEF Puts, Top
  <2> QED
    BY <1>1, <2>3
<1> QED
  BY <1>6, <1>7

LEMMA BusyHoldsEnterUser ==
  ASSUME Orderly, Situation, gpc = "dialog", Mode.turn = "core", EnterUser
  PROVE  UNCHANGED <<conf, core, up, down, gpc, login, over>>
<1>1. over = NoTalker /\ ~armed' /\ UNCHANGED <<conf, core, down>>
  BY DEF EnterUser, coreVars
<1>2. over.ctx = "login" /\ Top = login /\ login.state = "busy" /\ login \in Talkers /\ Talks
  BY <1>1, BusyIs, NoTalkerIs DEF Situation
<1>3. Busy /\ Touch = <<>>
  BY <1>1, <1>2, BusyIs, BusyMay DEF Touch
<1>4. PICK r : /\ r = IF login.asked = "more" THEN Returned([t |-> login, out |-> <<>>], "null")
                                              ELSE [t |-> login, out |-> <<>>]
               /\ Loads(r, "status")
  BY <1>2, <1>3 DEF EnterUser
<1>5. login.asked # "more"
  <2> SUFFICES ASSUME login.asked = "more" PROVE FALSE
    OBVIOUS
  <2>1. r.t.state = "idle"
    BY <1>2, <1>4, NullIs
  <2>2. gpc' = "status"
    BY <1>4, <2>1 DEF Loads
  <2> QED
    BY <1>1, <1>3, <2>2, BusyMay
<1>6. r.t = login /\ r.out = <<>> /\ Puts(r) /\ gpc' = gpc
  BY <1>2, <1>4, <1>5 DEF Loads
<1> QED
  BY <1>1, <1>2, <1>6, UpIs DEF Puts

LEMMA BusyHoldsReject ==
  ASSUME Orderly, Situation, gpc = "dialog", Mode.turn = "core", Reject
  PROVE  UNCHANGED <<conf, core, up, down, gpc, login, over>>
<1> DEFINE A(x)    == IF Top.running THEN PluginAbort([t |-> login, out |-> x])
                                     ELSE [t |-> login, out |-> x]
           L(a)    == IF a.t.state = "idle" THEN Append(a.out, "readDmrc") ELSE a.out
           S(g, a) == IF g THEN [t |-> [a.t EXCEPT !.running = FALSE, !.reads = FALSE,
                                                   !.counting = TRUE], out |-> L(a)]
                      ELSE IF a.t.running THEN PluginStart([t |-> a.t, out |-> L(a)])
                      ELSE [t |-> a.t, out |-> L(a)]
<1>1. ~login.counting /\ over' = over /\ UNCHANGED <<conf, core, down>>
  BY DEF Reject, coreVars
<1>2. PICK x \in {<<>>, Touch}, again \in Again :
        /\ over # NoTalker => again
        /\ login' = S(again, A(x)).t /\ up' = up \o S(again, A(x)).out
        /\ gpc' = IF A(x).t.state = "idle" THEN "onlyStatus" ELSE "dialog"
        /\ armed' = (armed /\ x = <<>>)
  BY Zenon DEF Reject
<1>3. PICK a, loaded, s :
        /\ a = IF Top.running THEN PluginAbort([t |-> login, out |-> x])
                              ELSE [t |-> login, out |-> x]
        /\ loaded = IF a.t.state = "idle" THEN Append(a.out, "readDmrc") ELSE a.out
        /\ s = IF again THEN [t |-> [a.t EXCEPT !.running = FALSE, !.reads = FALSE,
                                                !.counting = TRUE], out |-> loaded]
               ELSE IF a.t.running THEN PluginStart([t |-> a.t, out |-> loaded])
               ELSE [t |-> a.t, out |-> loaded]
        /\ login' = s.t /\ up' = up \o s.out
        /\ gpc' = IF a.t.state = "idle" THEN "onlyStatus" ELSE "dialog"
  BY <1>2, Zenon
<1> HIDE DEF A, L, S
<1>4. x = <<>>
  <2>1. armed => armed'
    BY <1>1, BusyMay
  <2> QED
    BY <1>2, <2>1 DEF Touch
<1>5. login \in Talkers /\ a.t \in Talkers /\ (again => s.t.counting)
  <2>1. login \in Talkers
    BY BusyIs
  <2>2. a.t \in Talkers
    BY <1>3, <2>1, PluginAbortIs
  <2>3. ASSUME again PROVE s.t.counting
    <3>1. PICK u : u = [a.t EXCEPT !.running = FALSE, !.reads = FALSE, !.counting = TRUE]
      OBVIOUS
    <3>2. s = [t |-> u, out |-> loaded]
      BY <1>3, <2>3, <3>1, Zenon
    <3>3. u.counting
      BY <2>2, <3>1 DEF Talkers
    <3> QED
      BY <3>2, <3>3
  <2> QED
    BY <2>1, <2>2, <2>3
<1>6. over = NoTalker
  <2> SUFFICES ASSUME over # NoTalker PROVE FALSE
    OBVIOUS
  <2>1. over.state # "none"
    BY DEF Situation, TalkersOK, TalkerOK
  <2>2. login'.counting
    BY <1>3, <1>5, <1>2
  <2> QED
    BY <1>1, <2>1, <2>2 DEF Orderly, SuspendedBreach
<1>7. over.ctx = "login" /\ Top = login /\ login.state = "busy" /\ Busy /\ Talks
  BY <1>6, BusyIs, NoTalkerIs DEF Situation
<1>8. ~again /\ gpc' = "dialog" /\ a.t.state # "idle"
  BY <1>1, <1>3, <1>5, <1>7, BusyMay
<1>9. a.t = login /\ a.out = <<>> /\ (login.running => login.asked = "no")
  <2>1. CASE login.running
    <3>1. a = PluginAbort([t |-> login, out |-> x])
      BY <1>3, <1>7, <2>1
    <3>2. login.asked = "no"
      BY <1>5, <1>8, <3>1, PluginAbortIs
    <3>3. a = [t |-> login, out |-> x]
      BY <3>1, <3>2 DEF PluginAbort
    <3> QED
      BY <1>4, <3>2, <3>3
  <2>2. CASE ~login.running
    <3>1. a = [t |-> login, out |-> x]
      BY <1>3, <1>7, <2>2
    <3> QED
      BY <1>4, <2>2, <3>1
  <2> QED
    BY <2>1, <2>2
<1>10. loaded = <<>>
  BY <1>3, <1>8, <1>9
<1>11. s.t = login /\ s.out = <<>>
  <2>1. CASE login.running
    <3>1. s = PluginStart([t |-> login, out |-> <<>>])
      BY <1>3, <1>8, <1>9, <1>10, <2>1
    <3>2. [login EXCEPT !.asked = "no"] = login
      BY <1>5, <1>9, <2>1 DEF Talkers
    <3>3. s = [t |-> login, out |-> <<>>]
      BY <1>7, <3>1, <3>2 DEF PluginStart, GplugStart
    <3> QED
      BY <3>3
  <2>2. CASE ~login.running
    <3>1. s = [t |-> login, out |-> <<>>]
      BY <1>3, <1>8, <1>9, <1>10, <2>2
    <3> QED
      BY <3>1
  <2> QED
    BY <2>1, <2>2
<1> QED
  BY <1>1, <1>3, <1>7, <1>8, <1>11, UpIs

\* Anything else would break an assumption.
LEMMA BusyIsLeft ==
  ASSUME Orderly, Situation, gpc = "dialog", Mode.turn = "core",
         \/ FirstInput \/ Activity \/ AutoLogin \/ CancelRenewal \/ OpenShutdown
         \/ ForceToggled \/ CloseShutdown \/ SwitchToChooser
  PROVE  FALSE
<1>1. UNCHANGED <<conf, core, down>>
  BY DEF FirstInput, Activity, AutoLogin, CancelRenewal, OpenShutdown, ForceToggled,
         CloseShutdown, SwitchToChooser, coreVars
<1>2. CASE FirstInput
  BY <1>1, <1>2, BusyMay DEF FirstInput
<1>3. CASE Activity \/ AutoLogin
  BY <1>3, BusyIs DEF Activity, AutoLogin
<1>4. CASE CancelRenewal
  <2>1. over.ctx = "renew" /\ ~over.failed /\ over' = NoTalker
    BY <1>4 DEF CancelRenewal
  <2> QED
    BY <1>1, <2>1, BusyIs, BusyMay
<1>5. CASE OpenShutdown
  <2>1. PICK shutdown \in ShutdownDialogs : over = NoTalker /\ over' = shutdown.t
    BY <1>5 DEF OpenShutdown
  <2>2. shutdown.t # NoTalker /\ over.ctx = "login"
    BY <2>1, ShutdownDialogIs, DialogueAssumption, NoTalkerIs DEF Situation
  <2> QED
    BY <1>1, <2>1, <2>2, BusyIs, BusyMay
<1>6. CASE SwitchToChooser
  <2>1. gpc' = "command" /\ over.ctx = "login"
    BY <1>6, NoTalkerIs DEF SwitchToChooser
  <2> QED
    BY <1>1, <2>1, BusyIs, BusyMay
<1>7. CASE ForceToggled
  <2>1. over.ctx = "shutdown" /\ over # NoTalker /\ over.running /\ over \in Talkers /\ Busy
    BY <1>7, BusyIs DEF ForceToggled
  <2>2. PICK a : a = PluginAbort([t |-> over, out |-> <<>>])
    OBVIOUS
  <2>3. PICK u : u = [a.t EXCEPT !.running = FALSE, !.reads = FALSE]
    OBVIOUS
  <2>4. PICK r : r = [t |-> u, out |-> a.out] /\ Puts(r)
    BY <1>7, <2>1, <2>2, <2>3, Zenon DEF ForceToggled
  <2>5. a.t \in Talkers
    BY <2>1, <2>2, PluginAbortIs
  <2>6. ~u.running
    BY <2>3, <2>5 DEF Talkers
  <2>7. over' = u
    BY <2>1, <2>4 DEF Puts
  <2> QED
    BY <1>1, <2>1, <2>6, <2>7, BusyMay
<1>8. CASE CloseShutdown
  <2>1. /\ over.ctx = "shutdown" /\ over # NoTalker /\ over \in Talkers /\ over.state = "busy"
        /\ Busy /\ Talks
    BY <1>8, BusyIs DEF CloseShutdown, Situation
  <2>2. over' = over /\ ~(Len(up') > Len(up))
    BY <1>1, <2>1, BusyMay
  <2>3. PICK a : a = PluginAbort([t |-> over, out |-> <<>>])
    OBVIOUS
  <2>4. PICK shutdown \in ShutdownDialogs :
          over' = shutdown.t /\ up' = up \o a.out \o shutdown.out
    BY <1>8, <2>1, <2>2, <2>3 DEF CloseShutdown, ShutdownClosed
  <2>5. shutdown.out = <<"verifyRoot">>
    BY <2>1, <2>2, <2>4, ShutdownDialogIs, DialogueAssumption DEF Situation
  <2>6. a.out = <<>> \/ a.out = <<"null">>
    <3>1. CASE over.asked = "no"
      BY <2>3, <3>1 DEF PluginAbort
    <3>2. CASE over.asked # "no"
      <4>1. a = Returned([t |-> over, out |-> <<>>], "null")
        BY <2>3, <3>2 DEF PluginAbort
      <4>2. a.out = Append(<<>>, "null")
        BY <2>1, <4>1, NullIs
      <4> QED
        BY <4>2, Concats
    <3> QED
      BY <3>1, <3>2
  <2>7. up \in Seq(Replies)
    BY <2>1, UpTyped
  <2>8. Len(up') > Len(up)
    BY <2>4, <2>5, <2>6, <2>7 DEF Replies
  <2> QED
    BY <2>2, <2>8
<1> QED
  BY <1>2, <1>3, <1>4, <1>5, <1>6, <1>7, <1>8

\* What users do keeps what is said of the dialogue.
LEMMA UsersKeep ==
  ASSUME Orderly, Situation, GreeterTyped', Users
  PROVE  TalkersOK' /\ Talks'
<1>1. CASE GreeterExit
  BY <1>1, DoesGreeterExit
<1>2. CASE ~GreeterExit /\ Mode.turn # "core"
  BY <1>2, DoesFirstInput, DoesActivity, DoesAutoLogin, DoesAccept, DoesEnterUser, DoesReject,
     DoesCancelRenewal, DoesOpenShutdown, DoesForceToggled, DoesCloseShutdown,
     DoesSwitchToChooser DEF Users
<1>3. CASE ~GreeterExit /\ Mode.turn = "core"
  <2>1. gpc = "dialog"
    <3>1. CASE FirstInput \/ Activity \/ AutoLogin \/ Accept \/ EnterUser \/ Reject
      BY <3>1, Zenon DEF FirstInput, Activity, AutoLogin, Accept, EnterUser, Reject, MayAct
    <3>2. CASE CancelRenewal \/ OpenShutdown \/ ForceToggled \/ CloseShutdown \/ SwitchToChooser
      BY <3>2, Zenon
         DEF CancelRenewal, OpenShutdown, ForceToggled, CloseShutdown, SwitchToChooser, MayAct
    <3> QED
      BY <1>3, <3>1, <3>2 DEF Users
  <2>2. UNCHANGED <<conf, core, up, down, gpc, login, over>>
    BY <1>3, <2>1, BusyHoldsAccept, BusyHoldsEnterUser, BusyHoldsReject, BusyIsLeft DEF Users
  <2> QED
    BY <2>2, TalksFrame DEF Situation
<1> QED
  BY <1>1, <1>2, <1>3

LEMMA GreeterKeeps ==
  ASSUME Orderly, Situation, Greeter \/ Users
  PROVE  Situation'
<1>1. UNCHANGED <<conf, core>>
  BY GreeterLeaves
<1>2. GreeterTyped'
  BY GreeterStepsTyped, DialogueAssumption DEF Situation
<1>3. CoreTyped' /\ CoreOK' /\ conf' \in Configs
  BY <1>1, CoreFrame, CoreOKFrame DEF Situation
<1>4. CASE Greeter
  BY <1>2, <1>4, DoesGreeterReady, DoesReadCommand, DoesFailVerify, DoesReadStatus, DoesReadValue,
     DoesTalkerReads, DoesRetryTimer, <1>3 DEF Greeter, Situation
<1>5. CASE Users
  BY <1>2, <1>3, <1>5, UsersKeep DEF Situation
<1> QED
  BY <1>4, <1>5

\* The dialogue goes on as long as no chooser is shown.
LEMMA DialogueKeeps ==
  ASSUME Orderly, Situation, Core \/ Greeter \/ Users
  PROVE  Situation'
<1>1. CASE Core
  <2>1. conf' = conf
    BY <1>1, CoreLeaves
  <2>2. CoreTyped' /\ GreeterTyped'
    BY <1>1, CoreStepsTyped, CoreNext, CoreLeavesGreeter, DialogueAssumption
       DEF Core, CoreStep, Situation
  <2>3. TalkersOK' /\ CoreOK' /\ Talks'
    BY <1>1, CoreKeeps
  <2> QED
    BY <2>1, <2>2, <2>3 DEF Situation
<1> QED
  BY <1>1, GreeterKeeps

LEMMA DialogueBegins ==
  ASSUME DInit
  PROVE  Situation
<1>1. CoreTyped
  BY CoreValues DEF DInit, CoreTyped, Cores, CoresWith
<1>2. GreeterTyped /\ conf \in Configs
  BY NewTalkers, DialogueAssumption DEF DInit, GreeterTyped, Gpcs
<1>3. TalkersOK
  BY NoTalkerIs DEF DInit, TalkersOK, TalkerOK
<1>4. CoreOK
  BY DEF DInit, CoreOK, Starting, Verifying, At
<1>5. Talks
  <2>1. PICK m \in Modes : m = Mode
    BY <1>2, ModeTyped
  <2>2. m.in = "none" /\ m.turn = "core"
    BY <2>1 DEF DInit, Mode, Place
  <2>3. Fits(m)
    BY <2>2 DEF DInit, Fits, At
  <2>4. Run(conf, m, <<>>, m)
    BY RunEmpty
  <2>5. up = <<>> /\ down = <<>> /\ down \in Seq(Words)
    BY DEF DInit
  <2> QED
    BY <2>1, <2>3, <2>4, <2>5 DEF Talks, Downward
<1> QED
  BY <1>1, <1>2, <1>3, <1>4, <1>5 DEF Situation

-----------------------------------------------------------------------------
(* What the invariant says of the dialogue *)

\* What core may say to a greeter that is in a place is what that expects.
LEMMA ExpectsWhatItHears ==
  ASSUME TalkersOK, GreeterTyped, NEW w \in Hears(conf, Place)
  PROVE  w \in GreeterExpects
<1>1. over.ctx \in {"login", "renew", "shutdown"} /\ gpc \in Gpcs
  BY DEF GreeterTyped, Talkers
<1>2. CASE gpc = "dialog"
  <2>1. CASE over.ctx = "login"
    <3>1. over = NoTalker /\ Place \in {"login", "auto"}
      BY <1>2, <2>1 DEF TalkersOK, Place
    <3>2. w \in Prompts \cup {"msg", "putUser", "ok", "auth", "fail", "chtok", "chtokAuth"}
      BY <3>1 DEF Hears, Prompts
    <3> QED
      BY <1>2, <2>1, <3>1, <3>2 DEF GreeterExpects
  <2>2. CASE over.ctx = "shutdown"
    <3>1. Place = "shutdown"
      BY <1>2, <2>2 DEF Place
    <3>2. w \in Prompts \cup {"msg", "putUser", "ok", "auth", "fail"}
      BY <3>1 DEF Hears, Prompts
    <3> QED
      BY <1>2, <2>2, <3>2, NoTalkerIs DEF GreeterExpects
  <2>3. CASE over.ctx = "renew"
    <3>1. Place \in {"renew", "renewAuto"}
      BY <1>2, <2>3 DEF Place
    <3>2. w \in Prompts \cup {"msg", "preOk", "ok", "auth", "fail"}
      BY <3>1 DEF Hears, Prompts
    <3> QED
      BY <1>2, <2>3, <3>2, NoTalkerIs DEF GreeterExpects
  <2> QED
    BY <1>1, <2>1, <2>2, <2>3
<1>3. CASE gpc = "onlyStatus"
  <2>1. Place \in {"onlyStatus", "statusBusy"}
    BY <1>3 DEF Place
  <2> QED
    BY <1>3, <2>1 DEF Hears, GreeterExpects
<1>4. CASE gpc \notin {"dialog", "onlyStatus"}
  <2>1. Place = gpc
    BY <1>4 DEF Place
  <2>2. CASE gpc = "fail" \/ gpc = "final"
    <3>1. w \in {"msg", "ok", "auth", "fail"} \/ (gpc = "fail" /\ w = "chtokAuth")
      BY <2>1, <2>2 DEF Hears
    <3> QED
      BY <2>2, <3>1 DEF GreeterExpects
  <2>3. CASE gpc = "command"
    <3>1. w \in {"greet", "greetTimed", "errorGreet", "choose", "confShutdown"}
      BY <2>1, <2>3 DEF Hears
    <3> QED
      BY <2>3, <3>1 DEF GreeterExpects
  <2>4. CASE gpc \in {"status", "value"}
    BY <2>1, <2>4 DEF Hears, GreeterExpects
  <2>5. CASE gpc \in {"none", "boot", "gone", "chooserAck", "chooser"}
    BY <2>1, <2>5 DEF Hears
  <2> QED
    BY <1>1, <1>4, <2>2, <2>3, <2>4, <2>5 DEF Gpcs
<1> QED
  BY <1>2, <1>3, <1>4

LEMMA DialogueInStep == ASSUME Situation PROVE Understood
<1>1. ASSUME up # <<>>, ~At("ended") PROVE Head(up) \in CoreExpects
  <2>1. CASE Upward
    <3>1. CASE \E c \in Commandings :
                 /\ Commanded(c)
                 /\ \/ core.pc \in {"wait", "confirm"} /\ up = c /\ c # <<>>
                    \/ At("wait") /\ up = <<"interact">> \o c
                    \/ At("answer") /\ core.ask # "noDelay" /\ up = <<"null">> \o c
      <4>1. PICK c \in Commandings :
                 /\ Commanded(c)
                 /\ \/ core.pc \in {"wait", "confirm"} /\ up = c /\ c # <<>>
                    \/ At("wait") /\ up = <<"interact">> \o c
                    \/ At("answer") /\ core.ask # "noDelay" /\ up = <<"null">> \o c
        BY <3>1
      <4>2. CASE At("wait") /\ up = <<"interact">> \o c
        <5>1. Head(up) = "interact"
          BY <4>2, CommandsFollow
        <5> QED
          BY <4>2, <5>1 DEF CoreExpects, Commands, At
      <4>3. CASE At("answer") /\ up = <<"null">> \o c
        <5>1. Head(up) = "null"
          BY <4>3, CommandsFollow
        <5> QED
          BY <4>3, <5>1 DEF CoreExpects, At
      <4>4. CASE core.pc \in {"wait", "confirm"} /\ up = c /\ c # <<>>
        <5>1. CoreCaller = core.pc
          BY <4>4 DEF CoreCaller, At
        <5>2. CASE At("wait")
          <6>1. Head(up) \in Commands
            BY <4>4 DEF Commandings, Commands
          <6> QED
            BY <5>2, <6>1 DEF CoreExpects, At
        <5>3. CASE At("confirm")
          <6>1. c \in {<<"verifyRoot">>, <<"ready">>}
            BY <4>1, <4>4, <5>1, <5>3 DEF Commanded, At
          <6>2. Head(up) \in {"verifyRoot", "ready"}
            BY <4>4, <6>1
          <6> QED
            BY <5>3, <6>2 DEF CoreExpects, At
        <5> QED
          BY <4>4, <5>2, <5>3 DEF At
      <4> QED
        BY <4>1, <4>2, <4>3, <4>4
    <3>2. CASE At("answer") /\ up = <<"text">>
      BY <3>2 DEF CoreExpects, At
    <3>3. CASE At("ack") /\ up = <<"ack">>
      BY <3>3 DEF CoreExpects, At
    <3>4. CASE core.pc \in {"opening", "openingForError", "openingForShutdown", "prepare"}
               /\ up = <<"ready">>
      BY <3>4 DEF CoreExpects, At
    <3> QED
      BY <2>1, <3>1, <3>2, <3>3, <3>4 DEF Upward, At
  <2>2. CASE Crossing
    BY <2>2 DEF Crossing, CoreExpects, Commands, At
  <2> QED
    BY <1>1, <2>1, <2>2 DEF Situation, Talks, Downward, Gone
<1>2. ASSUME down # <<>> PROVE Head(down) \in GreeterExpects
  <2>1. CASE Crossing
    <3>1. gpc = "onlyStatus" /\ Head(down) = "status"
      BY <2>1 DEF Crossing, Place, Situation, GreeterTyped, Gpcs
    <3> QED
      BY <3>1 DEF GreeterExpects
  <2>2. CASE ~Crossing
    <3>1. PICK w : w = Head(down) /\ w \in Hears(conf, Place)
      BY <1>2, <2>2, Reads
    <3> QED
      BY <3>1, ExpectsWhatItHears DEF Situation
  <2> QED
    BY <2>1, <2>2
<1> QED
  BY <1>1, <1>2 DEF Understood

LEMMA DialogueMoves == ASSUME Situation PROVE Moves
<1> SUFFICES ASSUME Blocked
             PROVE  /\ At("answer") => gpc = "dialog" /\ Top.reads /\ Top.asked # "no"
                                       /\ Top.state = "prompting"
                    /\ At("wait") => gpc = "dialog" /\ Top.state = "idle" /\ over.ctx # "renew"
                    /\ At("confirm") => gpc = "dialog" /\ Top.state = "idle" /\ over.ctx = "shutdown"
                    /\ At("choosing") => gpc = "chooser"
                    /\ ~At("ack") /\ ~At("prepare")
                    /\ At("closing") => FALSE
  BY DEF Moves
<1>1. up = <<>> /\ down = <<>> /\ gpc # "gone"
  BY DEF Blocked
<1>2. CASE Gone
  BY <1>1, <1>2 DEF Gone, At
<1>3. CASE Downward
  <2>1. PICK m \in Modes : m = Mode
    BY ModeTyped DEF Situation
  <2>2. Fits(m)
    <3>1. PICK e \in Modes : Run(conf, m, <<>>, e) /\ Fits(e)
      BY <1>1, <1>3, <2>1 DEF Downward
    <3>2. e = m
      BY <3>1, RunEmpty
    <3> QED
      BY <3>1, <3>2
  <2>3. /\ m.in = Place
        /\ m.turn = IF gpc = "dialog" /\ Top.state = "prompting" THEN "prompt"
                    ELSE IF gpc = "dialog" /\ Top.state = "idle" /\ over.ctx # "renew" THEN "idle"
                    ELSE "core"
    BY <2>1 DEF Mode
  <2>4. At("answer") => m.turn = "prompt"
    BY <2>2, <2>3 DEF Fits, At
  <2>5. m.turn = "prompt" => gpc = "dialog" /\ Top.reads /\ Top.asked # "no" /\ Top.state = "prompting"
    <3>1. gpc = "dialog" => TalkerOK(Top)
      BY PlaceIs DEF Situation
    <3> QED
      BY <2>3, <3>1 DEF TalkerOK
  <2>6. At("wait") \/ At("confirm") => m.turn = "idle"
    BY <2>2, <2>3 DEF Fits, At
  <2>7. m.turn = "idle" => gpc = "dialog" /\ Top.state = "idle" /\ over.ctx # "renew"
    BY <2>3
  <2>8. At("confirm") => over.ctx = "shutdown"
    <3>1. ASSUME At("confirm") PROVE m.in = "shutdown"
      BY <2>2, <2>6, <3>1 DEF Fits, At
    <3> QED
      BY <2>3, <2>6, <2>7, <3>1, PlaceIs DEF Situation
  <2>9. ~At("ack") /\ ~At("prepare") /\ ~At("closing") /\ ~At("choosing")
    BY <2>2, <2>3 DEF Fits, At
  <2> QED
    BY <2>4, <2>5, <2>6, <2>7, <2>8, <2>9
<1>4. ~Upward /\ ~Crossing
  <2>1. ASSUME NEW c \in Commandings, NEW w PROVE <<w>> \o c # <<>>
    BY <2>1, CommandsFollow
  <2> QED
    BY <1>1, <2>1, Zenon DEF Upward, Crossing
<1> QED
  BY <1>2, <1>3, <1>4 DEF Situation, Talks

=============================================================================
