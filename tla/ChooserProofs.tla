--------------------------- MODULE ChooserProofs ----------------------------
(***************************************************************************)
(* While the chooser is shown both core and the greeter may speak at any   *)
(* time.  There the invariant says that the pipe to it holds whole         *)
(* messages, each about a host by the identifier it has in core, and that  *)
(* the pipe to core ends with the choice if the user has made one.  Course *)
(* is the invariant of the dialogue and the chooser together; the theorems *)
(* about both follow.  The last section is about the menu: Telling adds to *)
(* Course what the chooser will show when it has read what is under way.   *)
(***************************************************************************)
EXTENDS GreeterProofs, WellFoundedInduction

-----------------------------------------------------------------------------
(* The invariant while the chooser is shown.  What core says of hosts comes  *)
(* in messages of several words, so that the pipe is cut where they begin.   *)

Reports == {"addHost", "changeHost", "removeHost", "badHost", "exit"}
Size(w) == CASE w \in {"addHost", "changeHost"} -> 4 [] w = "removeHost" -> 2 [] OTHER -> 1
Spoken == Reports \cup {"async"} \cup Ids \cup Hosts \cup Statuses
Clicked == {"interact", "refresh", "register", "direct"}

\* If core has a host with this id, it is this one.
KnownAs(hosts, id, host) == \A h \in hosts : h.id = id => h.host = host

HostRecords == [id : Ids, host : Hosts, status : Statuses, alive : BOOLEAN]
Recorded(hosts) == /\ hosts \subseteq HostRecords /\ IsFiniteSet(hosts)
                   /\ \A h \in hosts : KnownAs(hosts, h.id, h.host)

\* From the k-th word on, d is messages that begin at the places in cuts.
Cut(d, k, cuts) ==
  /\ cuts \subseteq k..(Len(d) + 1) /\ k \in cuts
  /\ \A i \in cuts : i <= Len(d) => d[i] \in Reports /\ i + Size(d[i]) \in cuts
Framed(d, k) == d \in Seq(Spoken) /\ \E cuts \in SUBSET (k..(Len(d) + 1)) : Cut(d, k, cuts)

\* The user's choice is the last thing the chooser has sent.
Chosen == \E u \in Seq(Clicked), item \in menu :
            /\ menu = {item} /\ up = u \o <<"ready", item.id>>
            /\ KnownAs(core.hosts, item.id, item.host)

\* The chooser is being made, is shown, has gone, or gives way to a login dialog.
Choosing ==
  /\ At("choosing")
  /\ \/ /\ gpc = "chooserAck" /\ up = <<>> /\ down # <<>> /\ Head(down) = "async"
        /\ Framed(down, 2)
     \/ /\ gpc = "chooser" /\ up \in Seq(Clicked) /\ Framed(down, 1)
     \/ gpc = "gone" /\ (up \in Seq(Clicked) \/ Chosen)
     \/ gpc = "command" /\ down = <<>> /\ \E u \in Seq(Clicked) : up = u \o <<"greet">>

\* The chooser that is shown as core exits will be told so.
Ended == /\ At("ended")
         /\ \/ gpc \in {"gone", "none"}
            \/ /\ gpc = "chooser"
               /\ \E d \in Seq(Spoken) : down = Append(d, "exit") /\ Framed(d, 1)

\* Another greeter is to be opened; the pipe from core may hold what was left there.
Reopens == At("open") /\ gpc = "none" /\ up = <<>>

Course == /\ CoreTyped /\ GreeterTyped /\ conf \in Configs /\ TalkersOK /\ CoreOK
          /\ Recorded(core.hosts)
          /\ Talks \/ Choosing \/ Ended \/ Reopens

-----------------------------------------------------------------------------
(* Messages in the pipe *)

LEMMA SizeIs == ASSUME NEW w PROVE Size(w) \in {1, 2, 4}
BY DEF Size

LEMMA FramedEmpty == Framed(<<>>, 1) /\ Framed(<<"async">>, 2)
<1>1. Cut(<<>>, 1, {1}) /\ {1} \in SUBSET (1..(Len(<<>>) + 1)) /\ <<>> \in Seq(Spoken)
  BY DEF Cut
<1>2. Cut(<<"async">>, 2, {2}) /\ {2} \in SUBSET (2..(Len(<<"async">>) + 1))
  BY DEF Cut
<1>3. <<"async">> \in Seq(Spoken)
  BY DEF Spoken
<1> QED
  BY <1>1, <1>2, <1>3, Zenon DEF Framed

LEMMA FramedConcat ==
  ASSUME NEW d, NEW k \in Nat \ {0}, Framed(d, k), NEW s, Framed(s, 1)
  PROVE  Framed(d \o s, k)
<1>1. PICK cuts \in SUBSET (k..(Len(d) + 1)) : Cut(d, k, cuts)
  BY DEF Framed
<1>2. PICK more \in SUBSET (1..(Len(s) + 1)) : Cut(s, 1, more)
  BY DEF Framed
<1>3. d \in Seq(Spoken) /\ s \in Seq(Spoken)
  BY DEF Framed
<1>4. PICK e : e = d \o s
  OBVIOUS
<1>5. PICK m, n : m = Len(d) /\ n = Len(s)
  OBVIOUS
<1>6. /\ e \in Seq(Spoken) /\ Len(e) = m + n /\ m \in Nat /\ n \in Nat
      /\ \A i \in 1..(m + n) : e[i] = IF i <= m THEN d[i] ELSE s[i - m]
  BY <1>3, <1>4, <1>5, ConcatProperties, LenProperties
<1>7. k <= m + 1 /\ cuts \subseteq k..(m + 1) /\ more \subseteq 1..(n + 1) /\ k \in cuts /\ 1 \in more
  BY <1>1, <1>2, <1>5, <1>6 DEF Cut
<1> DEFINE all == cuts \cup {i \in (m + 1)..(m + n + 1) : i - m \in more}
<1>8. all \subseteq k..(m + n + 1) /\ k \in all
  <2>1. cuts \subseteq k..(m + n + 1)
    BY <1>6, <1>7
  <2>2. \A i \in (m + 1)..(m + n + 1) : i \in k..(m + n + 1)
    BY <1>6, <1>7
  <2> QED
    BY <1>7, <2>1, <2>2
<1>9. ASSUME NEW i \in cuts, i <= m
      PROVE  e[i] \in Reports /\ i + Size(e[i]) \in all
  <2>1. i \in 1..m /\ i \in Int /\ d[i] \in Reports /\ i + Size(d[i]) \in cuts
    BY <1>1, <1>5, <1>6, <1>7, <1>9 DEF Cut
  <2>2. e[i] = d[i]
    BY <1>6, <2>1
  <2> QED
    BY <2>1, <2>2
<1>10. ASSUME NEW i \in (m + 1)..(m + n), i - m \in more
       PROVE  e[i] \in Reports /\ i + Size(e[i]) \in all
  <2>1. PICK j : j = i - m
    OBVIOUS
  <2>2. j \in 1..n /\ i = m + j /\ j \in more
    BY <1>6, <1>10, <2>1
  <2>3. s[j] \in Reports /\ j + Size(s[j]) \in more
    BY <1>2, <1>5, <1>6, <2>2 DEF Cut
  <2>4. e[i] = s[j]
    BY <1>6, <2>2
  <2>5. PICK z : z = Size(s[j])
    OBVIOUS
  <2>6. z \in {1, 2, 4}
    BY <2>5, SizeIs
  <2>7. j + z \in 1..(n + 1)
    BY <1>7, <2>3, <2>5
  <2>8. i + z \in all
    <3>1. PICK x : x = i + z
      OBVIOUS
    <3>2. x \in (m + 1)..(m + n + 1) /\ x - m = j + z
      BY <1>6, <2>2, <2>6, <2>7, <3>1
    <3>3. j + z \in more
      BY <2>3, <2>5, Zenon
    <3>4. x - m \in more
      BY <3>2, <3>3, Zenon
    <3> QED
      BY <3>1, <3>2, <3>4, Zenon
  <2> QED
    BY <2>3, <2>4, <2>5, <2>8
<1>11. Cut(e, k, all)
  <2>1. ASSUME NEW i \in all, i <= Len(e) PROVE e[i] \in Reports /\ i + Size(e[i]) \in all
    <3>1. CASE i \in cuts /\ i <= m
      BY <1>9, <3>1
    <3>2. CASE i \in cuts /\ ~(i <= m)
      <4>1. i = m + 1 /\ i \in (m + 1)..(m + n) /\ i - m = 1
        BY <1>6, <1>7, <2>1, <3>2
      <4> QED
        BY <1>7, <1>10, <4>1
    <3>3. CASE i \notin cuts
      <4>1. i \in (m + 1)..(m + n) /\ i - m \in more
        BY <1>6, <2>1, <3>3
      <4> QED
        BY <1>10, <4>1
    <3> QED
      BY <3>1, <3>2, <3>3
  <2> QED
    BY <1>6, <1>8, <2>1 DEF Cut
<1> HIDE DEF all
<1>12. all \in SUBSET (k..(Len(e) + 1))
  BY <1>6, <1>8
<1> QED
  BY <1>4, <1>6, <1>11, <1>12 DEF Framed

\* What is left when some messages have been read.
LEMMA FramedRest ==
  ASSUME NEW d \in Seq(Spoken), NEW k \in Nat \ {0}, NEW cuts, Cut(d, k, cuts), NEW m \in cuts
  PROVE  Framed(SubSeq(d, m, Len(d)), 1)
<1>1. PICK n : n = Len(d)
  OBVIOUS
<1>2. n \in Nat /\ m \in 1..(n + 1) /\ cuts \subseteq k..(n + 1)
  BY <1>1, LenProperties DEF Cut
<1>3. PICK e : e = SubSeq(d, m, n)
  OBVIOUS
<1>4. /\ e \in Seq(Spoken) /\ Len(e) = n - m + 1
      /\ \A i \in 1..(n - m + 1) : e[i] = d[m + i - 1]
  <2>1. ASSUME NEW i \in m..n PROVE d[i] \in Spoken
    BY <1>1, <1>2, ElementOfSeq
  <2>2. /\ SubSeq(d, m, n) \in Seq(Spoken)
        /\ Len(SubSeq(d, m, n)) = IF m <= n THEN n - m + 1 ELSE 0
        /\ \A i \in 1..(n - m + 1) : SubSeq(d, m, n)[i] = d[m + i - 1]
    BY <1>1, <1>2, <2>1, SubSeqProperties
  <2> QED
    BY <1>2, <1>3, <2>2
<1> DEFINE rest == {i \in 1..(n - m + 2) : m + i - 1 \in cuts}
<1>5. rest \subseteq 1..(Len(e) + 1) /\ 1 \in rest
  BY <1>2, <1>4
<1>6. ASSUME NEW i \in rest, i <= Len(e) PROVE e[i] \in Reports /\ i + Size(e[i]) \in rest
  <2>1. PICK j : j = m + i - 1
    OBVIOUS
  <2>2. j \in cuts /\ j <= n /\ j \in Int /\ i \in 1..(n - m + 1) /\ i = j - m + 1
    BY <1>2, <1>4, <1>6, <2>1
  <2>3. d[j] \in Reports /\ j + Size(d[j]) \in cuts
    BY <1>1, <2>2 DEF Cut
  <2>4. e[i] = d[j]
    BY <1>4, <2>1, <2>2
  <2>5. PICK z : z = Size(d[j])
    OBVIOUS
  <2>6. z \in {1, 2, 4}
    BY <2>5, SizeIs
  <2>7. j + z \in k..(n + 1) /\ j + z \in cuts
    BY <1>2, <2>3, <2>5
  <2>8. i + z \in rest
    BY <1>2, <2>2, <2>6, <2>7
  <2> QED
    BY <2>3, <2>4, <2>5, <2>8
<1>7. Cut(e, 1, rest)
  BY <1>5, <1>6 DEF Cut
<1> HIDE DEF rest
<1>8. rest \in SUBSET (1..(Len(e) + 1))
  BY <1>5
<1> QED
  BY <1>1, <1>3, <1>4, <1>7, <1>8 DEF Framed

\* Hosts of which core knows no more than before.
LEMMA KnownStays ==
  ASSUME NEW H, NEW G, \A g \in G : \E h \in H : g.id = h.id /\ g.host = h.host,
         NEW x, NEW y, KnownAs(H, x, y)
  PROVE  KnownAs(G, x, y)
BY DEF KnownAs

\* Nothing of the dialogue goes on while the chooser is there.
LEMMA ChoosingAlone ==
  ASSUME Choosing
  PROVE  ~Core /\ ~Greeter /\ ~Users
<1>1. core.pc = "choosing" /\ gpc \in {"chooserAck", "chooser", "gone", "command"}
      /\ (gpc = "command" => down = <<>>)
  BY DEF Choosing, At
<1>2. ~Core
  BY <1>1 DEF Core, CoreStep, CoreStart, OpenGreeter, GreeterOpened, GreeterCommand, GreeterClosed,
     GreeterLost, Tell, Acknowledged, Answered, PamAsks, Pam, Account, Client, SessionEnds,
     PamMessage, AccountMessage, ClientMessage, At
<1>3. ~Greeter /\ ~Users
  BY <1>1 DEF Greeter, GreeterReady, ReadCommand, FailVerify, ReadStatus, ReadValue, TalkerReads,
     RetryTimer, Users, FirstInput, Activity, AutoLogin, Accept, EnterUser, Reject, CancelRenewal, OpenShutdown,
     ForceToggled, CloseShutdown, SwitchToChooser, GreeterExit, MayAct, At
<1> QED
  BY <1>2, <1>3

LEMMA EndedAlone ==
  ASSUME Ended
  PROVE  ~Core /\ ~Greeter /\ ~Users
<1>1. core.pc = "ended" /\ gpc \in {"chooser", "gone", "none"}
  BY DEF Ended, At
<1>2. gpc = "chooser" => down # <<>>
  <2>1. ASSUME gpc = "chooser" PROVE down # <<>>
    <3>1. PICK d \in Seq(Spoken) : down = Append(d, "exit")
      BY <2>1 DEF Ended
    <3> QED
      BY <3>1
  <2> QED
    BY <2>1
<1>3. ~Core
  BY <1>1 DEF Core, CoreStep, CoreStart, OpenGreeter, GreeterOpened, GreeterCommand, GreeterClosed,
     GreeterLost, Tell, Acknowledged, Answered, PamAsks, Pam, Account, Client, SessionEnds,
     PamMessage, AccountMessage, ClientMessage, At
<1>4. ~Greeter /\ ~Users
  BY <1>1, <1>2 DEF Greeter, GreeterReady, ReadCommand, FailVerify, ReadStatus, ReadValue,
     TalkerReads, RetryTimer, Users, FirstInput, Activity, AutoLogin, Accept, EnterUser, Reject, CancelRenewal,
     OpenShutdown, ForceToggled, CloseShutdown, SwitchToChooser, GreeterExit, MayAct, At, Calm
<1> QED
  BY <1>3, <1>4

\* Another greeter is opened, for another dialogue.
LEMMA OpensAgain ==
  ASSUME Course, Reopens, Core \/ Greeter \/ Users
  PROVE  CoreOK' /\ Talks'
<1>1. core.pc = "open" /\ gpc = "none" /\ up = <<>>
  BY DEF Reopens, At
<1>2. OpenGreeter
  BY <1>1 DEF Core, CoreStep, CoreStart, OpenGreeter, GreeterOpened, GreeterCommand,
     GreeterClosed, GreeterLost, Tell, Acknowledged, Answered, PamAsks, Pam, Account, Client,
     SessionEnds, PamMessage, AccountMessage, ClientMessage, At, Greeter, GreeterReady, ReadCommand,
     FailVerify, ReadStatus, ReadValue, TalkerReads, RetryTimer, Users, FirstInput, Activity, AutoLogin, Accept,
     EnterUser, Reject, CancelRenewal, OpenShutdown, ForceToggled, CloseShutdown, SwitchToChooser,
     GreeterExit, MayAct, Calm
<1>3. /\ gpc' = "boot" /\ up' = <<>> /\ down' = <<>> /\ UNCHANGED <<conf, login, over>>
      /\ core' = [core EXCEPT !.pc = "opening"]
  BY <1>1, <1>2 DEF OpenGreeter, At
<1>4. /\ core'.pc = "opening" /\ core'.phase = core.phase /\ core'.conv = core.conv
      /\ core'.nopass = core.nopass /\ core'.root = core.root
  BY <1>3 DEF Course, CoreTyped, Cores, CoresWith
<1>5. CoreOK'
  BY <1>1, <1>4 DEF Course, CoreOK, Verifying, Starting, At
<1>6. Talks'
  <2>1. PICK m : m = Mode'
    OBVIOUS
  <2>2. m = [in |-> "boot", turn |-> "core"]
    BY <1>3, <2>1 DEF Mode, Place
  <2>3. m \in Modes
    BY <2>2 DEF Modes, Places, Turns
  <2>4. Run(conf', m, down', m)
    BY <1>3, <2>3, RunEmpty
  <2>5. Fits(m)'
    BY <1>4, <2>2 DEF Fits, At
  <2>6. up' = <<>> /\ down' \in Seq(Words)
    BY <1>3
  <2> QED
    BY <2>1, <2>3, <2>4, <2>5, <2>6 DEF Talks, Downward
<1> QED
  BY <1>5, <1>6

\* What the steps of the chooser leave of core as it is.
LEMMA ChooserCoreIs ==
  ASSUME CoreTyped, ChooserCore \/ Network
  PROVE  /\ core'.phase = core.phase /\ core'.conv = core.conv /\ core'.nopass = core.nopass
         /\ core'.root = core.root
         /\ core.pc \in {"prepare", "choosing"}
         /\ core'.pc \in {"choosing", "ended", "open", "wait"}
<1>1. core.pc = "choosing" \/ (core.pc = "prepare" /\ core' = Repinged(core))
  BY DEF ChooserCore, ChooserReady, ChooserCommand, ChooserLost, Network, Ping, ReceivePacket, At
<1>2. \/ core' = core
      \/ core' = Repinged(core)
      \/ \E pc \in {"ended", "open", "wait"} :
           core' = [core EXCEPT !.pc = pc] \/ core' = [emptyHostnames(core) EXCEPT !.pc = pc]
      \/ \E c : core' = [core EXCEPT !.pc = "ended", !.chosen = c]
      \/ \E h : core' = [core EXCEPT !.hosts = h]
      \/ \E n : core' = [core EXCEPT !.pingTry = n]
      \/ \E r : core' = [core EXCEPT !.responded = r]
      \/ \E h, r : core' = [core EXCEPT !.hosts = h, !.responded = r]
  <2>1. CASE ChooserReady
    BY <2>1 DEF ChooserReady
  <2>2. CASE ChooserCommand
    BY <2>2 DEF ChooserCommand, Greet
  <2>3. CASE ChooserLost
    BY <2>3 DEF ChooserLost
  <2>4. CASE Ping
    BY <2>4, Zenon DEF Ping
  <2>5. CASE ReceivePacket
    BY <2>5, Zenon DEF ReceivePacket, AddHost, ChangeHost
  <2> QED
    BY <2>1, <2>2, <2>3, <2>4, <2>5 DEF ChooserCore, Network
<1>3. ASSUME NEW c, \/ c = Repinged(core)
                    \/ \E pc \in {"ended", "open", "wait"} :
                         c = [core EXCEPT !.pc = pc] \/ c = [emptyHostnames(core) EXCEPT !.pc = pc]
                    \/ \E x : c = [core EXCEPT !.pc = "ended", !.chosen = x]
      PROVE  /\ c.phase = core.phase /\ c.conv = core.conv /\ c.nopass = core.nopass
             /\ c.root = core.root /\ c.pc \in {"choosing", "ended", "open", "wait"}
  BY <1>3 DEF CoreTyped, Cores, CoresWith, Repinged, emptyHostnames
<1>4. ASSUME NEW c, \/ c = core
                    \/ \E h : c = [core EXCEPT !.hosts = h]
                    \/ \E n : c = [core EXCEPT !.pingTry = n]
                    \/ \E r : c = [core EXCEPT !.responded = r]
                    \/ \E h, r : c = [core EXCEPT !.hosts = h, !.responded = r]
      PROVE  /\ c.phase = core.phase /\ c.conv = core.conv /\ c.nopass = core.nopass
             /\ c.root = core.root /\ c.pc = core.pc
  BY <1>4 DEF CoreTyped, Cores, CoresWith
<1>5. CASE core' = Repinged(core)
  BY <1>1, <1>3, <1>5
<1>6. CASE core' # Repinged(core)
  <2>1. CASE \/ \E pc \in {"ended", "open", "wait"} :
                  core' = [core EXCEPT !.pc = pc] \/ core' = [emptyHostnames(core) EXCEPT !.pc = pc]
             \/ \E c : core' = [core EXCEPT !.pc = "ended", !.chosen = c]
    BY <1>1, <1>3, <1>6, <2>1
  <2>2. CASE \/ core' = core
             \/ \E h : core' = [core EXCEPT !.hosts = h]
             \/ \E n : core' = [core EXCEPT !.pingTry = n]
             \/ \E r : core' = [core EXCEPT !.responded = r]
             \/ \E h, r : core' = [core EXCEPT !.hosts = h, !.responded = r]
    BY <1>1, <1>4, <1>6, <2>2
  <2> QED
    BY <1>2, <1>6, <2>1, <2>2
<1> QED
  BY <1>5, <1>6

\* What becomes of the hosts.
LEMMA RecordedStays ==
  ASSUME NEW H, Recorded(H), NEW G, G \subseteq HostRecords, IsFiniteSet(G),
         \A g \in G : \E h \in H : g.id = h.id /\ g.host = h.host
  PROVE  Recorded(G)
<1>1. ASSUME NEW g \in G PROVE KnownAs(G, g.id, g.host)
  <2>1. PICK h \in H : g.id = h.id /\ g.host = h.host
    OBVIOUS
  <2>2. KnownAs(H, g.id, g.host)
    BY <2>1 DEF Recorded
  <2> QED
    BY <2>2, KnownStays
<1> QED
  BY <1>1 DEF Recorded

\* The hosts that are there were there, and the same.
Fewer(G, H) == \A g \in G : \E h \in H : g.id = h.id /\ g.host = h.host

LEMMA RepingedHosts ==
  ASSUME NEW H, Recorded(H), NEW G, G = {[h EXCEPT !.alive = FALSE] : h \in H}
  PROVE  Recorded(G) /\ Fewer(G, H)
<1>1. G \subseteq HostRecords /\ \A g \in G : \E h \in H : g.id = h.id /\ g.host = h.host
  BY DEF Recorded, HostRecords
<1>2. IsFiniteSet(G)
  <2> DEFINE f == [h \in H |-> [h EXCEPT !.alive = FALSE]]
  <2>1. f \in Surjection(H, G)
    BY DEF Surjection
  <2> QED
    BY <2>1, FS_Surjection DEF Recorded
<1>3. Recorded(G)
  BY <1>1, <1>2, RecordedStays
<1> QED
  BY <1>1, <1>3, Zenon DEF Fewer

LEMMA ChooserKeepsParts ==
  ASSUME Course, ChooserCore \/ Network \/ ChooserDlg \/ ChooserUser \/ ChooserExit
  PROVE  CoreTyped' /\ GreeterTyped' /\ conf' \in Configs /\ TalkersOK' /\ CoreOK'
<1>1. UNCHANGED <<conf, login, over, needLoad>>
  BY ChooserLeaves
<1>2. CoreTyped' /\ GreeterTyped' /\ conf' \in Configs
  BY <1>1, ChooserStepsTyped DEF Course
<1>3. TalkersOK'
  <2>1. gpc' = gpc \/ gpc' \in {"none", "chooser", "gone", "command"}
    BY DEF ChooserCore, ChooserReady, ChooserCommand, ChooserLost, Network, Ping, ReceivePacket,
       ChooserDlg, ChooserStart, ChooserReads, ChooserUser, Chooses, ChooserExit, greeterVars
  <2> QED
    BY <1>1, <2>1, NamesFrame DEF Course, TalkersOK, TalkerOK
<1>4. CoreOK'
  <2>1. CASE UNCHANGED core
    BY <1>1, <2>1, CoreOKFrame DEF Course
  <2>2. CASE ChooserCore \/ Network
    BY <2>2, ChooserCoreIs DEF Course, CoreOK, Verifying, Starting, At
  <2> QED
    BY <2>1, <2>2 DEF ChooserDlg, ChooserStart, ChooserReads, ChooserUser, Chooses, ChooserExit
<1> QED
  BY <1>2, <1>3, <1>4

\* While the dialogue goes on there is no chooser, but for one that core is to make.
LEMMA TalksWithoutChooser ==
  ASSUME Talks, GreeterTyped
  PROVE  /\ ~At("choosing") /\ gpc # "chooser"
         /\ gpc = "chooserAck" => At("prepare") /\ down = <<>>
         /\ At("prepare") /\ up # <<>> => up = <<"ready">> /\ down = <<>> /\ gpc = "chooserAck"
<1>1. CASE Downward
  <2>1. PICK m \in Modes : m = Mode
    BY ModeTyped
  <2>2. PICK e \in Modes : Run(conf, m, down, e) /\ Fits(e)
    BY <1>1, <2>1 DEF Downward
  <2>3. m.in = Place /\ e.in \in From(m.in) /\ up = <<>>
    BY <1>1, <2>1, <2>2, RunReaches DEF Mode, Downward
  <2>4. gpc \in {"chooser", "chooserAck"} => e.in = gpc
    BY <2>3 DEF Place, From
  <2>5. ~At("choosing") /\ e.in \notin {"chooser", "chooserAck"}
    BY <2>2 DEF Fits, Company, At
  <2> QED
    BY <2>3, <2>4, <2>5
<1>2. CASE Upward
  <2>1. CASE \E c \in Commandings :
               /\ Commanded(c)
               /\ \/ core.pc \in {"wait", "confirm"} /\ up = c /\ c # <<>>
                  \/ At("wait") /\ up = <<"interact">> \o c
                  \/ At("answer") /\ core.ask # "noDelay" /\ up = <<"null">> \o c
    <3>1. PICK c \in Commandings : Commanded(c)
      BY <2>1
    <3>2. gpc \notin {"chooser", "chooserAck"}
      BY <3>1 DEF Commanded, Mode, Place
    <3> QED
      BY <2>1, <3>2 DEF At
  <2>2. CASE core.pc \in {"answer", "ack"} /\ Company(Place)
    BY <2>2 DEF Company, Place, At
  <2>3. CASE core.pc \in {"opening", "openingForError", "openingForShutdown"} /\ gpc = "command"
    BY <2>3 DEF At
  <2>4. CASE At("prepare") /\ up = <<"ready">> /\ gpc = "chooserAck"
    BY <1>2, <2>4 DEF At, Upward
  <2> QED
    BY <1>2, <2>1, <2>2, <2>3, <2>4 DEF Upward, At
<1>3. CASE Crossing \/ Gone
  BY <1>3 DEF Crossing, Gone, At, Place
<1> QED
  BY <1>1, <1>2, <1>3 DEF Talks

\* core answers that the chooser is ready.
LEMMA DoesChooserReady ==
  ASSUME Course, Talks, ChooserCore \/ Network \/ ChooserDlg \/ ChooserUser \/ ChooserExit
  PROVE  Recorded(core.hosts)' /\ Choosing'
<1>1. GreeterTyped /\ ~At("choosing") /\ gpc # "chooser"
      /\ (gpc = "chooserAck" => At("prepare") /\ down = <<>>)
  BY TalksWithoutChooser DEF Course
<1>2. ChooserReady
  BY <1>1 DEF ChooserCore, ChooserCommand, ChooserLost, Network, Ping, ReceivePacket, ChooserDlg,
     ChooserStart, ChooserReads, ChooserUser, Chooses, ChooserExit, At
<1>3. /\ up = <<"ready">> /\ down = <<>> /\ gpc = "chooserAck"
  BY <1>2, TalksWithoutChooser DEF Course, ChooserReady
<1>4. up' = <<>> /\ down' = <<"async">> /\ gpc' = gpc /\ core' = Repinged(core)
  BY <1>2, <1>3 DEF ChooserReady, greeterVars
<1>5. PICK H, G : H = core.hosts /\ G = core'.hosts
  OBVIOUS
<1>6. core'.pc = "choosing" /\ G = {[h EXCEPT !.alive = FALSE] : h \in H}
  BY <1>4, <1>5 DEF Course, CoreTyped, Cores, CoresWith, Repinged
<1>7. Recorded(H)
  BY <1>5 DEF Course
<1>8. Recorded(G)
  BY <1>6, <1>7, RepingedHosts
<1>9. Framed(<<"async">>, 2)
  BY FramedEmpty
<1>10. Recorded(core.hosts)' /\ Framed(down, 2)'
  BY <1>4, <1>5, <1>8, <1>9
<1> QED
  BY <1>3, <1>4, <1>6, <1>10 DEF Choosing, At

\* What core says in one message.
LEMMA FramedWord ==
  ASSUME NEW w \in {"badHost", "exit"}
  PROVE  Framed(<<w>>, 1)
<1>1. Cut(<<w>>, 1, {1, 2})
  <2>1. Size(w) = 1 /\ w \in Reports /\ w \notin {"addHost", "changeHost"}
    BY DEF Size, Reports
  <2>2. ASSUME NEW i \in {1, 2}, i <= Len(<<w>>)
        PROVE  <<w>>[i] \in Reports /\ i + Size(<<w>>[i]) \in {1, 2}
    <3>1. i = 1 /\ <<w>>[i] = w
      BY <2>2
    <3>2. i + Size(<<w>>[i]) \in {1, 2}
      BY <2>1, <3>1
    <3> QED
      BY <2>1, <3>1, <3>2
  <2> QED
    BY <2>2 DEF Cut
<1>2. {1, 2} \in SUBSET (1..(Len(<<w>>) + 1)) /\ <<w>> \in Seq(Spoken)
  BY DEF Spoken, Reports
<1> QED
  BY <1>1, <1>2, Zenon DEF Framed

LEMMA FramedHost ==
  ASSUME NEW w \in {"addHost", "changeHost"}, NEW id \in Ids, NEW host \in Hosts,
         NEW status \in Statuses
  PROVE  Framed(<<w, id, host, status>>, 1)
<1>1. PICK d : d = <<w, id, host, status>>
  OBVIOUS
<1>2. /\ d \in Seq(Spoken) /\ Len(d) = 4 /\ d[1] = w
  BY <1>1 DEF Spoken, Reports
<1>3. Cut(d, 1, {1, 5})
  <2>1. Size(w) = 4 /\ w \in Reports
    BY DEF Size, Reports
  <2>2. ASSUME NEW i \in {1, 5}, i <= Len(d)
        PROVE  d[i] \in Reports /\ i + Size(d[i]) \in {1, 5}
    <3>1. i = 1 /\ d[i] = w
      BY <1>2, <2>2
    <3>2. i + Size(d[i]) \in {1, 5}
      BY <2>1, <3>1
    <3> QED
      BY <2>1, <3>1, <3>2
  <2> QED
    BY <1>2, <2>2 DEF Cut
<1>4. {1, 5} \in SUBSET (1..(Len(d) + 1))
  BY <1>2
<1> QED
  BY <1>1, <1>2, <1>3, <1>4, Zenon DEF Framed

\* The hosts that did not respond are dropped, in any order.
LEMMA FramedDropped ==
  ASSUME NEW n \in Nat, NEW order \in [1..n -> HostRecords]
  PROVE  Framed([k \in 1..(2 * n) |-> IF k % 2 = 1 THEN "removeHost" ELSE order[k \div 2].id], 1)
<1> DEFINE d == [k \in 1..(2 * n) |-> IF k % 2 = 1 THEN "removeHost" ELSE order[k \div 2].id]
           cuts == {j \in 1..(2 * n + 1) : j % 2 = 1}
<1>1. d \in Seq(Spoken) /\ Len(d) = 2 * n
  <2>1. ASSUME NEW k \in 1..(2 * n), k % 2 # 1 PROVE k \div 2 \in 1..n
    BY <2>1
  <2>2. ASSUME NEW k \in 1..(2 * n) PROVE d[k] \in Spoken
    BY <2>1, <2>2 DEF HostRecords, Spoken, Reports
  <2> QED
    BY <2>2
<1>2. ASSUME NEW i \in cuts, i <= 2 * n PROVE d[i] \in Reports /\ i + Size(d[i]) \in cuts
  <2>1. d[i] = "removeHost"
    BY <1>2
  <2>2. Size(d[i]) = 2
    BY <2>1 DEF Size
  <2>3. i + 2 \in cuts
    BY <1>2
  <2> QED
    BY <2>1, <2>2, <2>3 DEF Reports
<1>3. cuts \subseteq 1..(2 * n + 1) /\ 1 \in cuts
  OBVIOUS
<1> HIDE DEF d, cuts
<1>4. Cut(d, 1, cuts)
  BY <1>1, <1>2, <1>3 DEF Cut
<1>5. cuts \in SUBSET (1..(Len(d) + 1))
  BY <1>1, <1>3
<1>6. Framed(d, 1)
  BY <1>1, <1>4, <1>5, Zenon DEF Framed
<1> QED
  BY <1>6 DEF d

\* What each value that core gets means for its place and its hosts.
LEMMA CoreBecomes ==
  ASSUME Course
  PROVE  /\ Repinged(core).pc = "choosing" /\ Repinged(core).chosen = core.chosen
         /\ Repinged(core).hosts = {[h EXCEPT !.alive = FALSE] : h \in core.hosts}
         /\ \A pc : /\ [core EXCEPT !.pc = pc].pc = pc
                    /\ [core EXCEPT !.pc = pc].hosts = core.hosts
                    /\ [core EXCEPT !.pc = pc].chosen = core.chosen
                    /\ [emptyHostnames(core) EXCEPT !.pc = pc].pc = pc
                    /\ [emptyHostnames(core) EXCEPT !.pc = pc].hosts = {}
                    /\ [emptyHostnames(core) EXCEPT !.pc = pc].chosen = core.chosen
         /\ \A c : /\ [core EXCEPT !.pc = "ended", !.chosen = c].pc = "ended"
                   /\ [core EXCEPT !.pc = "ended", !.chosen = c].hosts = core.hosts
                   /\ [core EXCEPT !.pc = "ended", !.chosen = c].chosen = c
BY DEF Course, CoreTyped, Cores, CoresWith, Repinged, emptyHostnames

LEMMA FewerKeeps ==
  ASSUME NEW H, NEW G, Fewer(G, H), NEW x, NEW y, KnownAs(H, x, y)
  PROVE  KnownAs(G, x, y)
BY KnownStays DEF Fewer

\* What a command of the chooser makes of core and of what it says.
LEMMA CommandIs ==
  ASSUME Course, ChooserCommand
  PROVE  /\ Recorded(core'.hosts) /\ Fewer(core'.hosts, core.hosts)
         /\ gpc' = gpc /\ menu' = menu /\ UNCHANGED <<conf, login, over>>
         /\ At("choosing") /\ up # <<>>
         /\ \/ /\ Head(up) = "interact" /\ core'.pc = "choosing" /\ down' = down /\ up' = Tail(up)
               /\ core'.chosen = core.chosen
            \/ /\ Head(up) \in {"refresh", "register"} /\ core'.pc = "choosing" /\ up' = Tail(up)
               /\ \E bad \in {<<>>, <<"badHost">>} : down' = down \o bad
               /\ core'.chosen = core.chosen
            \/ /\ Head(up) = "direct" /\ up' = Tail(up)
               /\ \/ core'.pc = "choosing" /\ down' = Append(down, "badHost")
                  \/ core'.pc = "ended" /\ down' = Append(down, "exit")
               /\ core'.hosts = core.hosts /\ core'.chosen = core.chosen
            \/ /\ Head(up) = "ready" /\ core'.pc = "ended" /\ down' = down
               /\ \/ core'.chosen = core.chosen
                  \/ \E h \in core.hosts : h.id = up[2] /\ core'.chosen = h.host
            \/ /\ Head(up) = "greet" /\ core'.pc = "wait" /\ up' = Tail(up)
               /\ core'.chosen = core.chosen
               /\ \E cmd \in {"greet"} \cup (IF Timed THEN {"greetTimed"} ELSE {}) :
                    down' = Append(down, cmd)
<1>1. gpc' = gpc /\ menu' = menu /\ UNCHANGED <<conf, login, over>> /\ core.pc = "choosing"
      /\ up # <<>>
  BY DEF ChooserCommand, greeterVars, At
<1>2. Recorded(core.hosts) /\ Fewer(core.hosts, core.hosts)
  BY DEF Course, Fewer
<1>3. Recorded({}) /\ Fewer({}, core.hosts)
  BY FS_EmptySet DEF Recorded, Fewer
<1>4. Recorded(Repinged(core).hosts) /\ Fewer(Repinged(core).hosts, core.hosts)
  <2>1. PICK G : G = Repinged(core).hosts
    OBVIOUS
  <2>2. G = {[h EXCEPT !.alive = FALSE] : h \in core.hosts}
    BY <2>1, CoreBecomes
  <2>3. PICK H : H = core.hosts
    OBVIOUS
  <2>4. Recorded(H)
    BY <1>2, <2>3, Zenon
  <2>5. G = {[h EXCEPT !.alive = FALSE] : h \in H}
    BY <2>2, <2>3, Zenon
  <2>6. Recorded(G) /\ Fewer(G, H)
    BY <2>4, <2>5, RepingedHosts, Zenon
  <2> QED
    BY <2>1, <2>3, <2>6, Zenon
<1>5. CASE Head(up) = "interact" /\ up' = Tail(up) /\ UNCHANGED <<core, down>>
  BY <1>1, <1>2, <1>5 DEF At
<1>6. CASE Head(up) = "refresh" /\ up' = Tail(up) /\ core' = Repinged(core) /\ UNCHANGED down
  BY <1>1, <1>4, <1>6, CoreBecomes DEF At
<1>7. CASE /\ Head(up) = "register" /\ up' = Tail(up) /\ core' = Repinged(core)
           /\ \E bad \in {<<>>, <<"badHost">>} : down' = down \o bad
  <2>1. core'.pc = "choosing" /\ core'.chosen = core.chosen
    BY <1>7, CoreBecomes
  <2> QED
    BY <1>1, <1>4, <1>7, <2>1 DEF At
<1>8. CASE /\ Head(up) = "direct" /\ up' = Tail(up)
           /\ \/ down' = Append(down, "badHost") /\ UNCHANGED core
              \/ down' = Append(down, "exit") /\ core' = [core EXCEPT !.pc = "ended"]
  <2>1. CASE down' = Append(down, "badHost") /\ UNCHANGED core
    BY <1>1, <1>2, <1>8, <2>1 DEF At
  <2>2. CASE down' = Append(down, "exit") /\ core' = [core EXCEPT !.pc = "ended"]
    <3>1. core'.pc = "ended" /\ core'.hosts = core.hosts /\ core'.chosen = core.chosen
      BY <2>2, CoreBecomes
    <3> QED
      BY <1>1, <1>2, <1>8, <2>2, <3>1 DEF At
  <2> QED
    BY <1>8, <2>1, <2>2
<1>9. CASE /\ Head(up) = "ready"
           /\ LET found == ChooseHost(up[2]) IN
              /\ found = {} => core' = [core EXCEPT !.pc = "ended"]
              /\ found # {} => \E h \in found :
                   core' = [core EXCEPT !.pc = "ended", !.chosen = h.host]
           /\ UNCHANGED down
  <2>1. CASE core' = [core EXCEPT !.pc = "ended"]
    <3>1. core'.pc = "ended" /\ core'.hosts = core.hosts /\ core'.chosen = core.chosen
      BY <2>1, CoreBecomes
    <3> QED
      BY <1>1, <1>2, <1>9, <3>1 DEF At
  <2>2. CASE \E h \in ChooseHost(up[2]) : core' = [core EXCEPT !.pc = "ended", !.chosen = h.host]
    <3>1. PICK h \in core.hosts : h.id = up[2] /\ core' = [core EXCEPT !.pc = "ended", !.chosen = h.host]
      BY <2>2 DEF ChooseHost
    <3>2. core'.pc = "ended" /\ core'.hosts = core.hosts /\ core'.chosen = h.host
      BY <3>1, CoreBecomes
    <3> QED
      BY <1>1, <1>2, <1>9, <3>1, <3>2 DEF At
  <2> QED
    BY <1>9, <2>1, <2>2
<1>10. CASE Head(up) = "greet" /\ up' = Tail(up) /\ Greet(emptyHostnames(core))
  BY <1>1, <1>3, <1>10, CoreBecomes DEF At, Greet
<1> QED
  BY <1>5, <1>6, <1>7, <1>8, <1>9, <1>10 DEF ChooserCommand

\* What core reads of the user's commands when others, r, come last.
LEMMA LastWords ==
  ASSUME NEW u \in Seq(Clicked), NEW S, NEW r \in Seq(S), r # <<>>
  PROVE  /\ u # <<>> => /\ Head(u \o r) = Head(u) /\ Head(u) \in Clicked
                        /\ Tail(u \o r) = Tail(u) \o r /\ Tail(u) \in Seq(Clicked)
         /\ u = <<>> => u \o r = r
         /\ Head(u \o r) \in Clicked \cup {Head(r)}
         /\ u \o r # <<>>
<1> DEFINE all == Clicked \cup S
<1>1. u \in Seq(all) /\ r \in Seq(all)
  OBVIOUS
<1> HIDE DEF all
<1>2. ASSUME u # <<>>
      PROVE  /\ Head(u \o r) = Head(u) /\ Head(u) \in Clicked
             /\ Tail(u \o r) = Tail(u) \o r /\ Tail(u) \in Seq(Clicked)
  <2>1. u = <<Head(u)>> \o Tail(u) /\ Head(u) \in Clicked /\ Tail(u) \in Seq(Clicked)
    BY <1>2
  <2> DEFINE x == Head(u)
             t == Tail(u)
  <2>2. <<x>> \in Seq(all) /\ t \in Seq(all)
    BY <1>1, <2>1 DEF all
  <2> HIDE DEF x, t
  <2>3. (<<x>> \o t) \o r = <<x>> \o (t \o r)
    BY <1>1, <2>2, ConcatAssociative
  <2>4. t \o r \in Seq(all)
    BY <1>1, <2>2, ConcatProperties
  <2>5. Head(<<x>> \o (t \o r)) = x /\ Tail(<<x>> \o (t \o r)) = t \o r
    BY <2>2, <2>4
  <2> QED
    BY <2>1, <2>3, <2>5 DEF x, t
<1>3. <<>> \o r = r
  OBVIOUS
<1>4. u \o r # <<>>
  <2>1. Len(u \o r) = Len(u) + Len(r) /\ Len(u) \in Nat /\ Len(r) \in Nat /\ Len(r) # 0
    BY <1>1, ConcatProperties, LenProperties, EmptySeq
  <2> QED
    BY <2>1
<1>5. Head(u \o r) \in Clicked \cup {Head(r)}
  BY <1>2, <1>3
<1> QED
  BY <1>2, <1>3, <1>4, <1>5, Zenon

\* A command of a user whose choice is still to be read is not it.
LEMMA ChosenWaits ==
  ASSUME NEW u \in Seq(Clicked), NEW id
  PROVE  /\ u # <<>> => /\ Head(u \o <<"ready", id>>) = Head(u) /\ Head(u) \in Clicked
                        /\ Tail(u \o <<"ready", id>>) = Tail(u) \o <<"ready", id>>
                        /\ Tail(u) \in Seq(Clicked)
         /\ u = <<>> => /\ u \o <<"ready", id>> = <<"ready", id>>
                        /\ Head(<<"ready", id>>) = "ready" /\ <<"ready", id>>[2] = id
         /\ Head(u \o <<"ready", id>>) \in Clicked \cup {"ready"}
         /\ u \o <<"ready", id>> # <<>>
<1>1. PICK r : r = <<"ready", id>>
  OBVIOUS
<1>2. r \in Seq({"ready", id}) /\ r # <<>> /\ Head(r) = "ready" /\ r[2] = id
  BY <1>1
<1>3. /\ u # <<>> => /\ Head(u \o r) = Head(u) /\ Head(u) \in Clicked
                     /\ Tail(u \o r) = Tail(u) \o r /\ Tail(u) \in Seq(Clicked)
      /\ u = <<>> => u \o r = r
      /\ Head(u \o r) \in Clicked \cup {Head(r)}
      /\ u \o r # <<>>
  <2>1. PICK S : S = {"ready", id}
    OBVIOUS
  <2>2. r \in Seq(S) /\ r # <<>>
    BY <1>2, <2>1
  <2> QED
    BY <2>2, LastWords, Zenon
<1> QED
  BY <1>1, <1>2, <1>3, Zenon

\* The same, of a user who leaves the chooser for the login dialog.
LEMMA GreetWaits ==
  ASSUME NEW u \in Seq(Clicked)
  PROVE  /\ u # <<>> => /\ Head(u \o <<"greet">>) = Head(u) /\ Head(u) \in Clicked
                        /\ Tail(u \o <<"greet">>) = Tail(u) \o <<"greet">>
                        /\ Tail(u) \in Seq(Clicked)
         /\ u = <<>> => /\ Head(u \o <<"greet">>) = "greet" /\ Tail(u \o <<"greet">>) = <<>>
         /\ Head(u \o <<"greet">>) \in Clicked \cup {"greet"}
         /\ u \o <<"greet">> # <<>>
<1>1. PICK r : r = <<"greet">>
  OBVIOUS
<1>2. r \in Seq({"greet"}) /\ r # <<>> /\ Head(r) = "greet" /\ Tail(r) = <<>>
  BY <1>1
<1> QED
  BY <1>1, <1>2, LastWords

\* core reads a command of the chooser.
LEMMA DoesChooserCommand ==
  ASSUME ~LeaveBreach, Course, Choosing, ChooserCommand
  PROVE  Recorded(core.hosts)' /\ (Choosing' \/ Ended' \/ Talks')
<1>1. PICK H, G, d, e : H = core.hosts /\ G = core'.hosts /\ d = down /\ e = down'
  OBVIOUS
<1>2. /\ Recorded(G) /\ Fewer(G, H) /\ gpc' = gpc /\ menu' = menu /\ up # <<>>
      /\ UNCHANGED <<conf, login, over>> /\ core.pc = "choosing"
  BY <1>1, CommandIs DEF At
<1>3. Recorded(core.hosts)'
  BY <1>1, <1>2
<1>4. CASE gpc = "command"
  <2>1. PICK u \in Seq(Clicked) : down = <<>> /\ up = u \o <<"greet">>
    BY <1>2, <1>4 DEF Choosing
  <2>2. CASE u # <<>>
    <3>1. /\ Head(up) \in Clicked /\ Tail(up) = Tail(u) \o <<"greet">>
          /\ Tail(u) \in Seq(Clicked)
      BY <2>1, <2>2, GreetWaits
    <3>2. core'.pc \in {"choosing", "ended"} /\ up' = Tail(up)
      BY <3>1, CommandIs DEF Clicked
    <3>3. down' = <<>>
      BY <1>2, <1>4, <3>2 DEF LeaveBreach, At
    <3>4. core'.pc = "choosing"
      <4>1. Append(down, "exit") # <<>>
        BY <2>1
      <4> QED
        BY <3>1, <3>3, <4>1, CommandIs DEF Clicked
    <3> QED
      BY <1>2, <1>3, <1>4, <3>1, <3>2, <3>3, <3>4 DEF Choosing, At
  <2>3. CASE u = <<>>
    <3>1. Head(up) = "greet" /\ Tail(up) = <<>>
      BY <2>1, <2>3, GreetWaits
    <3>2. PICK cmd \in {"greet"} \cup (IF Timed THEN {"greetTimed"} ELSE {}) :
            core'.pc = "wait" /\ down' = Append(down, cmd) /\ up' = <<>>
      BY <3>1, CommandIs
    <3>3. PICK m \in Modes : m = Mode
      BY ModeTyped DEF Course
    <3>4. m = [in |-> "command", turn |-> "core"] /\ Mode' = m
      BY <1>2, <1>4, <3>3, ModeFrame DEF Mode, Place
    <3>5. cmd \in Hears(conf, "command") /\ cmd \in Words
      BY DEF Hears, Words, Timed
    <3>6. Run(conf, m, <<>>, m)
      BY RunEmpty
    <3>7. Run(conf, m, Append(<<>>, cmd), Then(m, cmd))
      <4>1. m.in = "command" /\ m.turn = "core" /\ <<>> \in Seq(Words)
        BY <3>4
      <4> QED
        BY <3>5, <3>6, <4>1, RunAppend
    <3>8. Then(m, cmd) \in Modes
      BY <3>4, <3>5, ThenInModes
    <3>9. Then(m, cmd) = [in |-> "command", turn |-> cmd]
      BY <3>4 DEF Then, Goes, Turn, Quiet
    <3>10. Fits(Then(m, cmd))'
      BY <3>2, <3>9 DEF Fits, At
    <3>11. down' \in Seq(Words) /\ down' = Append(<<>>, cmd) /\ conf' = conf
      BY <1>2, <2>1, <3>2, <3>5
    <3>12. Downward'
      BY <3>2, <3>4, <3>7, <3>8, <3>10, <3>11 DEF Downward
    <3> QED
      BY <1>3, <3>12 DEF Talks
  <2> QED
    BY <2>2, <2>3
<1>5. CASE gpc = "gone"
  <2>1. CASE core'.pc = "ended"
    BY <1>2, <1>3, <1>5, <2>1 DEF Ended, At
  <2>2. CASE up \in Seq(Clicked) /\ core'.pc # "ended"
    <3>1. Head(up) \in Clicked /\ Tail(up) \in Seq(Clicked)
      BY <1>2, <2>2
    <3>2. core'.pc = "choosing" /\ up' = Tail(up)
      BY <2>2, <3>1, CommandIs DEF Clicked
    <3> QED
      BY <1>2, <1>3, <1>5, <3>1, <3>2 DEF Choosing, At
  <2>3. CASE Chosen /\ core'.pc # "ended"
    <3>1. PICK u \in Seq(Clicked), item \in menu :
            menu = {item} /\ up = u \o <<"ready", item.id>> /\ KnownAs(H, item.id, item.host)
      BY <1>1, <2>3 DEF Chosen
    <3>2. u # <<>>
      BY <2>3, <3>1, CommandIs, ChosenWaits
    <3>3. /\ Head(up) \in Clicked /\ Tail(up) = Tail(u) \o <<"ready", item.id>>
          /\ Tail(u) \in Seq(Clicked)
      BY <3>1, <3>2, ChosenWaits
    <3>4. core'.pc = "choosing" /\ up' = Tail(up)
      BY <2>3, <3>3, CommandIs DEF Clicked
    <3>5. KnownAs(G, item.id, item.host)
      BY <1>2, <3>1, FewerKeeps
    <3>6. Chosen'
      BY <1>1, <1>2, <3>1, <3>3, <3>4, <3>5 DEF Chosen
    <3> QED
      BY <1>2, <1>3, <1>5, <3>4, <3>6 DEF Choosing, At
  <2> QED
    BY <1>2, <1>5, <2>1, <2>2, <2>3 DEF Choosing
<1>6. CASE gpc \notin {"command", "gone"}
  <2>1. /\ gpc = "chooser" /\ up \in Seq(Clicked) /\ Framed(d, 1)
    BY <1>1, <1>2, <1>6 DEF Choosing
  <2>2. Head(up) \in Clicked /\ Tail(up) \in Seq(Clicked) /\ d \in Seq(Spoken)
    BY <1>2, <2>1 DEF Framed
  <2>3. ASSUME core'.pc = "choosing", Framed(e, 1), up' = Tail(up) PROVE Choosing'
    <3>1. Framed(down, 1)'
      BY <1>1, <2>3
    <3> QED
      BY <1>2, <2>1, <2>2, <2>3, <3>1 DEF Choosing, At
  <2>4. Framed(d \o <<"badHost">>, 1)
    BY <2>1, FramedConcat, FramedWord
  <2>5. d \o <<>> = d /\ Append(d, "badHost") = d \o <<"badHost">>
    BY <2>2
  <2>6. CASE Head(up) = "interact"
    BY <1>1, <1>3, <2>1, <2>3, <2>6, CommandIs
  <2>7. CASE Head(up) \in {"refresh", "register"}
    <3>1. core'.pc = "choosing" /\ up' = Tail(up) /\ \E bad \in {<<>>, <<"badHost">>} : e = d \o bad
      BY <1>1, <2>7, CommandIs
    <3>2. Framed(e, 1)
      BY <2>1, <2>4, <2>5, <3>1
    <3> QED
      BY <1>3, <2>3, <3>1, <3>2
  <2>8. CASE Head(up) = "direct"
    <3>1. /\ up' = Tail(up)
          /\ \/ core'.pc = "choosing" /\ e = Append(d, "badHost")
             \/ core'.pc = "ended" /\ e = Append(d, "exit")
      BY <1>1, <2>8, CommandIs
    <3>2. CASE core'.pc = "choosing" /\ e = Append(d, "badHost")
      BY <1>3, <2>3, <2>4, <2>5, <3>1, <3>2
    <3>3. CASE core'.pc = "ended" /\ e = Append(d, "exit")
      BY <1>1, <1>2, <1>3, <2>1, <2>2, <3>3 DEF Ended, At
    <3> QED
      BY <3>1, <3>2, <3>3
  <2> QED
    BY <2>2, <2>6, <2>7, <2>8 DEF Clicked
<1> QED
  BY <1>4, <1>5, <1>6

LEMMA DoesChooserLost ==
  ASSUME Course, Choosing, ChooserLost
  PROVE  Recorded(core.hosts)' /\ (Ended' \/ Reopens')
<1>1. PICK pc \in {"ended"} \cup IF up = <<>> /\ conf.login # "indirect" THEN {"open"} ELSE {} :
        core' = [emptyHostnames(core) EXCEPT !.pc = pc]
  BY DEF ChooserLost
<1>2. core'.pc = pc /\ core'.hosts = {} /\ gpc' = "none" /\ up' = up
  BY <1>1, CoreBecomes DEF ChooserLost
<1>3. Recorded(core.hosts)'
  BY <1>2, FS_EmptySet DEF Recorded
<1> QED
  BY <1>1, <1>2, <1>3 DEF Ended, Reopens, At

\* core tells the chooser something of its own accord, but not while the user leaves it.
LEMMA ChooserHears ==
  ASSUME ~LeaveBreach, Course, Choosing, gpc # "gone", core'.pc = "choosing",
         UNCHANGED <<up, gpc, menu>>, Recorded(core'.hosts),
         \/ down' = down
         \/ \E s : Framed(s, 1) /\ down' = down \o s
  PROVE  Recorded(core.hosts)' /\ Choosing'
<1>1. Recorded(core.hosts)'
  OBVIOUS
<1>2. PICK d, e : d = down /\ e = down'
  OBVIOUS
<1>3. e = d \/ \E s : Framed(s, 1) /\ e = d \o s
  BY <1>2
<1>4. ASSUME NEW k \in Nat \ {0}, Framed(d, k) PROVE Framed(e, k)
  BY <1>3, <1>4, FramedConcat
<1>5. CASE gpc = "chooserAck"
  <2>1. up = <<>> /\ d # <<>> /\ Head(d) = "async" /\ Framed(d, 2)
    BY <1>2, <1>5 DEF Choosing
  <2>2. ASSUME NEW s, Framed(s, 1), e = d \o s PROVE e # <<>> /\ Head(e) = "async"
    BY <2>1, <2>2, ConcatProperties DEF Framed
  <2>3. e # <<>> /\ Head(e) = "async" /\ Framed(e, 2)
    BY <1>3, <1>4, <2>1, <2>2
  <2>4. Framed(down, 2)'
    BY <1>2, <2>3
  <2> QED
    BY <1>1, <1>2, <1>5, <2>1, <2>3, <2>4 DEF Choosing, At
<1>6. CASE gpc = "chooser"
  <2>1. up \in Seq(Clicked) /\ Framed(d, 1)
    BY <1>2, <1>6 DEF Choosing
  <2>2. Framed(down, 1)'
    BY <1>2, <1>4, <2>1
  <2> QED
    BY <1>1, <1>6, <2>1, <2>2 DEF Choosing, At
<1>7. CASE gpc = "command"
  <2>1. \E u \in Seq(Clicked) : up = u \o <<"greet">>
    BY <1>7 DEF Choosing
  <2>2. down' = <<>>
    BY <1>7 DEF LeaveBreach, Choosing, At
  <2> QED
    BY <1>1, <1>7, <2>1, <2>2 DEF Choosing, At
<1> QED
  BY <1>5, <1>6, <1>7 DEF Choosing

LEMMA DoesPing ==
  ASSUME ~LeaveBreach, Course, Choosing, Ping
  PROVE  Recorded(core.hosts)' /\ Choosing'
<1>1. core.pc = "choosing" /\ gpc # "gone" /\ UNCHANGED <<up, gpc, menu>>
  BY DEF Ping, greeterVars, At
<1>2. Recorded(core.hosts) /\ Fewer(core.hosts, core.hosts)
  BY DEF Course, Fewer
<1>3. CASE core.pingTry < PING_TRIES
  <2>1. core' = [core EXCEPT !.pingTry = @ + 1] /\ down' = down
    BY <1>3 DEF Ping
  <2>2. core'.pc = "choosing" /\ core'.hosts = core.hosts
    BY <1>1, <2>1 DEF Course, CoreTyped, Cores, CoresWith
  <2> QED
    BY <1>1, <1>2, <2>1, <2>2, ChooserHears
<1>4. CASE ~(core.pingTry < PING_TRIES)
  <2> DEFINE dead == {h \in core.hosts : ~h.alive}
  <2>1. core' = [core EXCEPT !.hosts = @ \ dead]
    BY <1>4 DEF Ping
  <2>2. PICK order \in SetToSeqs(dead) :
          down' = down \o [k \in 1..(2 * Len(order)) |->
                            IF k % 2 = 1 THEN "removeHost" ELSE order[k \div 2].id]
    BY <1>4 DEF Ping
  <2>3. core'.pc = "choosing" /\ core'.hosts = core.hosts \ dead
    BY <1>1, <2>1 DEF Course, CoreTyped, Cores, CoresWith
  <2>4. Cardinality(dead) \in Nat
    BY <1>2, FS_Subset, FS_CardinalityType DEF Recorded
  <2>5. dead \subseteq HostRecords
    BY <1>2 DEF Recorded
  <2> HIDE DEF dead
  <2>6. PICK n \in Nat : n = Cardinality(dead)
    BY <2>4
  <2>7. order \in [1..n -> dead]
    BY <2>2, <2>6 DEF SetToSeqs
  <2>8. order \in [1..n -> HostRecords] /\ Len(order) = n
    BY <2>5, <2>7
  <2>9. PICK s : /\ s = [k \in 1..(2 * n) |-> IF k % 2 = 1 THEN "removeHost" ELSE order[k \div 2].id]
                 /\ down' = down \o s
    BY <2>2, <2>8
  <2>10. Framed(s, 1)
    BY <2>8, <2>9, FramedDropped
  <2>11. Recorded(core'.hosts) /\ Fewer(core'.hosts, core.hosts)
    <3>1. PICK H, G : H = core.hosts /\ G = H \ dead
      OBVIOUS
    <3>2. Fewer(G, H) /\ G \subseteq HostRecords /\ IsFiniteSet(G)
      BY <1>2, <3>1, FS_Subset DEF Recorded, Fewer
    <3> QED
      BY <1>2, <2>3, <3>1, <3>2, RecordedStays DEF Fewer
  <2> QED
    BY <1>1, <2>3, <2>9, <2>10, <2>11, ChooserHears
<1> QED
  BY <1>3, <1>4

\* A new host has an id that no other one has.
LEMMA DoesAddHost ==
  ASSUME ~LeaveBreach, Course, Choosing, gpc # "gone", UNCHANGED <<up, gpc, menu>>,
         NEW host \in Hosts, NEW status \in Statuses, AddHost(host, status)
  PROVE  Recorded(core.hosts)' /\ Choosing'
<1> DEFINE new(id) == [id |-> id, host |-> host, status |-> status, alive |-> TRUE]
<1>1. PICK id \in Malloc :
        /\ core' = [core EXCEPT !.hosts = @ \cup {new(id)}, !.responded = @ \cup {host}]
        /\ down' = down \o <<"addHost", id, host, status>>
  BY DEF AddHost
<1>2. PICK n : n = new(id)
  OBVIOUS
<1>3. PICK H, G : H = core.hosts /\ G = H \cup {n}
  OBVIOUS
<1>4. id \in Ids /\ \A h \in H : h.id # id
  BY <1>1, <1>3 DEF Malloc
<1>5. core'.pc = "choosing" /\ core'.hosts = G
  BY <1>1, <1>2, <1>3 DEF Course, CoreTyped, Cores, CoresWith, Choosing, At
<1>6. n \in HostRecords /\ n.id = id /\ n.host = host
  BY <1>2, <1>4 DEF HostRecords
<1>7. Recorded(G)
  <2>1. Recorded(H)
    BY <1>3 DEF Course
  <2>2. G \subseteq HostRecords /\ IsFiniteSet(G)
    BY <1>3, <1>6, <2>1, FS_AddElement DEF Recorded
  <2>3. ASSUME NEW g \in G PROVE KnownAs(G, g.id, g.host)
    <3>1. CASE g = n
      BY <1>3, <1>4, <1>6, <3>1 DEF KnownAs
    <3>2. CASE g # n
      BY <1>3, <1>4, <1>6, <2>1, <3>2 DEF Recorded, KnownAs
    <3> QED
      BY <3>1, <3>2
  <2> QED
    BY <2>2, <2>3 DEF Recorded
<1>8. Framed(<<"addHost", id, host, status>>, 1)
  BY <1>4, FramedHost
<1> QED
  BY <1>1, <1>5, <1>7, <1>8, ChooserHears

LEMMA DoesChangeHost ==
  ASSUME ~LeaveBreach, Course, Choosing, gpc # "gone", UNCHANGED <<up, gpc, menu>>,
         NEW h \in core.hosts, NEW status \in Statuses, ChangeHost(h, status)
  PROVE  Recorded(core.hosts)' /\ Choosing'
<1>1. Recorded(core.hosts) /\ core.pc = "choosing"
  BY DEF Course, Choosing, At
<1>2. CASE h.status = status
  <2>1. core' = [core EXCEPT !.responded = @ \cup {h.host}] /\ down' = down
    BY <1>2 DEF ChangeHost
  <2>2. core'.pc = "choosing" /\ core'.hosts = core.hosts
    BY <1>1, <2>1 DEF Course, CoreTyped, Cores, CoresWith
  <2> QED
    BY <1>1, <2>1, <2>2, ChooserHears
<1>3. CASE h.status # status
  <2>1. PICK n : n = [h EXCEPT !.status = status, !.alive = TRUE]
    OBVIOUS
  <2>2. PICK H, G : H = core.hosts /\ G = (H \ {h}) \cup {n}
    OBVIOUS
  <2>3. /\ core' = [core EXCEPT !.hosts = (@ \ {h}) \cup {n}, !.responded = @ \cup {h.host}]
        /\ down' = down \o <<"changeHost", h.id, h.host, status>>
    BY <1>3, <2>1 DEF ChangeHost
  <2>4. core'.pc = "choosing" /\ core'.hosts = G
    BY <1>1, <2>2, <2>3 DEF Course, CoreTyped, Cores, CoresWith
  <2>5. h \in HostRecords /\ h.id \in Ids /\ h.host \in Hosts
    BY <1>1, <2>2 DEF Recorded, HostRecords
  <2>6. n \in HostRecords /\ n.id = h.id /\ n.host = h.host
    BY <2>1, <2>5 DEF HostRecords
  <2>7. Fewer(G, H) /\ G \subseteq HostRecords
    BY <1>1, <2>2, <2>6 DEF Fewer, Recorded
  <2>8. IsFiniteSet(G)
    BY <1>1, <2>2, FS_RemoveElement, FS_AddElement DEF Recorded
  <2>9. Recorded(G)
    BY <1>1, <2>2, <2>7, <2>8, RecordedStays DEF Fewer
  <2>10. Framed(<<"changeHost", h.id, h.host, status>>, 1)
    BY <2>5, FramedHost
  <2> QED
    BY <2>3, <2>4, <2>9, <2>10, ChooserHears
<1> QED
  BY <1>2, <1>3

LEMMA DoesReceivePacket ==
  ASSUME ~LeaveBreach, Course, Choosing, ReceivePacket
  PROVE  Recorded(core.hosts)' /\ Choosing'
<1>1. gpc # "gone" /\ UNCHANGED <<up, gpc, menu>>
  BY DEF ReceivePacket, greeterVars
<1>2. \E host \in Hosts, status \in Statuses :
        AddHost(host, status) \/ \E h \in core.hosts : ChangeHost(h, status)
  <2>1. PICK host \in Hosts, status \in Statuses :
          LET known == {h \in core.hosts : h.host = host} IN
          IF known = {} THEN AddHost(host, status)
          ELSE \E h \in known : ChangeHost(h, status)
    BY Zenon DEF ReceivePacket
  <2>2. AddHost(host, status) \/ \E h \in core.hosts : ChangeHost(h, status)
    BY <2>1
  <2> QED
    BY <2>2
<1> QED
  BY <1>1, <1>2, DoesAddHost, DoesChangeHost

\* The greeter reads one message, the first on its way, whatever comes after it.
LEMMA HeardIs ==
  ASSUME NEW d, d # <<>>, Framed(d, 1), NEW menu0
  PROVE  /\ Framed(Heard(menu0, d).rest, 1)
         /\ Heard(menu0, Append(d, "exit")).rest = Append(Heard(menu0, d).rest, "exit")
         /\ Head(Append(d, "exit")) = Head(d)
         /\ Head(d) \in Reports
<1>1. PICK cuts \in SUBSET (1..(Len(d) + 1)) : Cut(d, 1, cuts)
  BY DEF Framed
<1>2. PICK n : n = Len(d)
  OBVIOUS
<1>3. d \in Seq(Spoken) /\ n \in Nat /\ n >= 1 /\ Head(d) = d[1]
  BY <1>2 DEF Framed
<1>4. d[1] \in Reports /\ 1 + Size(d[1]) \in cuts
  BY <1>1, <1>2, <1>3 DEF Cut
<1>5. PICK e : e = Append(d, "exit")
  OBVIOUS
<1>6. /\ Len(e) = n + 1 /\ e[1] = d[1] /\ Head(e) = d[1] /\ e[n + 1] = "exit"
      /\ e \in Seq(Spoken) /\ \A i \in 1..n : e[i] = d[i]
  BY <1>2, <1>3, <1>5 DEF Spoken, Reports
<1>7. ASSUME NEW k \in {2, 3, 5}, k \in cuts
      PROVE  /\ Framed(SubSeq(d, k, n), 1)
             /\ SubSeq(e, k, n + 1) = Append(SubSeq(d, k, n), "exit")
  <2>1. k <= n + 1
    BY <1>1, <1>2, <1>3, <1>7
  <2>2. Framed(SubSeq(d, k, n), 1)
    BY <1>1, <1>2, <1>3, <1>7, FramedRest
  <2>3. SubSeq(e, k, n + 1) = Append(SubSeq(d, k, n), "exit")
    BY <1>3, <1>6, <2>1
  <2> QED
    BY <2>2, <2>3
<1>8. Tail(d) = SubSeq(d, 2, n) /\ Tail(e) = SubSeq(e, 2, n + 1)
  BY <1>2, <1>3, <1>6
<1>9. PICK r, q : r = Heard(menu0, d) /\ q = Heard(menu0, e)
  OBVIOUS
<1>10. \E k \in cuts : k \in {2, 3, 5} /\ r.rest = SubSeq(d, k, n) /\ q.rest = SubSeq(e, k, n + 1)
  <2>1. CASE d[1] \in {"addHost", "changeHost"}
    <3>1. 5 \in cuts
      BY <1>4, <2>1 DEF Size
    <3>2. r.rest = SubSeq(d, 5, n) /\ q.rest = SubSeq(e, 5, n + 1)
      BY <1>2, <1>6, <1>9, <2>1 DEF Heard
    <3> QED
      BY <3>1, <3>2
  <2>2. CASE d[1] = "removeHost"
    <3>1. 3 \in cuts
      BY <1>4, <2>2 DEF Size
    <3>2. r.rest = SubSeq(d, 3, n) /\ q.rest = SubSeq(e, 3, n + 1)
      BY <1>2, <1>6, <1>9, <2>2 DEF Heard
    <3> QED
      BY <3>1, <3>2
  <2>3. CASE d[1] \in {"badHost", "exit"}
    <3>1. 2 \in cuts
      BY <1>4, <2>3 DEF Size
    <3>2. r.rest = Tail(d) /\ q.rest = Tail(e)
      BY <1>6, <1>9, <2>3 DEF Heard
    <3> QED
      BY <1>8, <3>1, <3>2
  <2> QED
    BY <1>4, <2>1, <2>2, <2>3 DEF Reports
<1>11. Framed(r.rest, 1) /\ q.rest = Append(r.rest, "exit")
  BY <1>7, <1>10
<1> QED
  BY <1>3, <1>4, <1>5, <1>6, <1>9, <1>11

LEMMA DoesChooserStart ==
  ASSUME Course, Choosing \/ Ended, ChooserStart
  PROVE  Recorded(core.hosts)' /\ Choosing'
<1>1. Choosing /\ gpc = "chooserAck"
  BY DEF Ended, ChooserStart
<1>2. PICK H, d : H = core.hosts /\ d = down
  OBVIOUS
<1>3. core.pc = "choosing" /\ up = <<>> /\ d # <<>> /\ Framed(d, 2)
  BY <1>1, <1>2 DEF Choosing, At
<1>4. core' = core /\ up' = up /\ down' = Tail(d) /\ gpc' = "chooser" /\ menu' = {}
  BY <1>2 DEF ChooserStart
<1>5. PICK cuts \in SUBSET (2..(Len(d) + 1)) : Cut(d, 2, cuts)
  BY <1>3 DEF Framed
<1>6. d \in Seq(Spoken) /\ 2 \in cuts
  BY <1>3, <1>5 DEF Framed, Cut
<1>7. Framed(SubSeq(d, 2, Len(d)), 1)
  BY <1>5, <1>6, FramedRest
<1>8. Tail(d) = SubSeq(d, 2, Len(d))
  BY <1>3, <1>6
<1>9. Framed(down, 1)' /\ Recorded(core.hosts)'
  BY <1>2, <1>4, <1>7, <1>8 DEF Course
<1>10. up' \in Seq(Clicked)
  BY <1>3, <1>4
<1> QED
  BY <1>3, <1>4, <1>9, <1>10 DEF Choosing, At

LEMMA DoesChooserReads ==
  ASSUME Course, Choosing \/ Ended, ChooserReads
  PROVE  Recorded(core.hosts)' /\ (Choosing' \/ Ended')
<1>1. PICK H, d, m : H = core.hosts /\ d = down /\ m = menu
  OBVIOUS
<1>2. /\ gpc = "chooser" /\ d # <<>> /\ menu' = Heard(m, d).menu /\ down' = Heard(m, d).rest
      /\ gpc' = (IF Head(d) = "exit" THEN "gone" ELSE "chooser")
      /\ core' = core /\ up' = up
  BY <1>1 DEF ChooserReads
<1>3. Recorded(core.hosts)'
  BY <1>2 DEF Course
<1>4. CASE Choosing
  <2>1. core.pc = "choosing" /\ up \in Seq(Clicked) /\ Framed(d, 1)
    BY <1>1, <1>2, <1>4 DEF Choosing, At
  <2>2. CASE Head(d) = "exit"
    BY <1>2, <1>3, <2>1, <2>2 DEF Choosing, At
  <2>3. CASE Head(d) # "exit"
    <3>1. Framed(Heard(m, d).rest, 1)
      BY <1>2, <2>1, HeardIs
    <3>2. Framed(down, 1)'
      BY <1>1, <1>2, <3>1
    <3> QED
      BY <1>2, <1>3, <2>1, <2>3, <3>2 DEF Choosing, At
  <2> QED
    BY <2>2, <2>3
<1>5. CASE Ended
  <2>1. PICK s \in Seq(Spoken) : core.pc = "ended" /\ d = Append(s, "exit") /\ Framed(s, 1)
    BY <1>1, <1>2, <1>5 DEF Ended, At
  <2>2. CASE Head(d) = "exit"
    BY <1>2, <1>3, <2>1, <2>2 DEF Ended, At
  <2>3. CASE Head(d) # "exit"
    <3>1. s # <<>>
      BY <2>1, <2>3
    <3>2. /\ Framed(Heard(m, s).rest, 1)
          /\ Heard(m, d).rest = Append(Heard(m, s).rest, "exit")
      BY <2>1, <3>1, HeardIs
    <3>3. Heard(m, s).rest \in Seq(Spoken)
      BY <3>2 DEF Framed
    <3>4. (\E t \in Seq(Spoken) : down = Append(t, "exit") /\ Framed(t, 1))'
      BY <1>1, <1>2, <3>2, <3>3
    <3> QED
      BY <1>2, <1>3, <2>1, <2>3, <3>4 DEF Ended, At
  <2> QED
    BY <2>2, <2>3
<1> QED
  BY <1>4, <1>5

\* What the user of the chooser sends.
LEMMA ChoosesIs ==
  ASSUME NEW out, Chooses(out)
  PROVE  /\ gpc = "chooser" /\ up' = up \o Touch \o out /\ UNCHANGED <<core, down>>
         /\ Touch \in Seq(Clicked)
         /\ Touch \in {<<>>, <<"interact">>}
<1>1. Touch \in {<<>>, <<"interact">>}
  BY DEF Touch
<1>2. <<>> \in Seq(Clicked) /\ <<"interact">> \in Seq(Clicked)
  BY DEF Clicked
<1>3. Touch \in Seq(Clicked)
  BY <1>1, <1>2, Zenon
<1> QED
  BY <1>1, <1>3, Zenon DEF Chooses

LEMMA DoesChooserUser ==
  ASSUME ~LeaveBreach, ~DroppedBreach, Course, Choosing \/ Ended, ChooserUser
  PROVE  Recorded(core.hosts)' /\ (Choosing' \/ Ended')
<1>1. PICK H : H = core.hosts
  OBVIOUS
<1>2. gpc = "chooser" /\ UNCHANGED <<core, down>>
  BY ChoosesIs DEF ChooserUser
<1>3. Recorded(core.hosts)'
  BY <1>2 DEF Course
<1>4. CASE \E cmd \in {"refresh", "register", "direct"} : Chooses(<<cmd>>) /\ UNCHANGED <<gpc, menu>>
  <2>1. PICK cmd \in {"refresh", "register", "direct"} : Chooses(<<cmd>>) /\ UNCHANGED <<gpc, menu>>
    BY <1>4
  <2>2. up' = up \o Touch \o <<cmd>> /\ Touch \in Seq(Clicked)
    BY <2>1, ChoosesIs
  <2>3. CASE Choosing
    <3>1. up \in Seq(Clicked)
      BY <1>2, <2>3 DEF Choosing
    <3>2. up \o Touch \in Seq(Clicked) /\ <<cmd>> \in Seq(Clicked)
      BY <2>2, <3>1, ConcatProperties DEF Clicked
    <3>3. up' \in Seq(Clicked)
      BY <2>2, <3>2, ConcatProperties
    <3>4. Framed(down, 1)'
      BY <1>2, <2>1, <2>3 DEF Choosing
    <3> QED
      BY <1>2, <1>3, <2>1, <2>3, <3>3, <3>4 DEF Choosing, At
  <2>4. CASE Ended
    <3>1. (\E d \in Seq(Spoken) : down = Append(d, "exit") /\ Framed(d, 1))'
      BY <1>2, <2>4 DEF Ended
    <3> QED
      BY <1>2, <1>3, <2>1, <2>4, <3>1 DEF Ended, At
  <2> QED
    BY <2>3, <2>4
<1>5. CASE \E item \in menu : Chooses(<<"ready", item.id>>) /\ gpc' = "gone" /\ menu' = {item}
  <2>1. PICK item \in menu : Chooses(<<"ready", item.id>>) /\ gpc' = "gone" /\ menu' = {item}
    BY <1>5
  <2>2. up' = up \o Touch \o <<"ready", item.id>> /\ Touch \in Seq(Clicked)
    BY <2>1, ChoosesIs
  <2>3. CASE Choosing
    <3>1. PICK h \in H : h.id = item.id /\ h.host = item.host
      BY <1>1, <1>2, <2>1 DEF DroppedBreach
    <3>2. up \in Seq(Clicked) /\ KnownAs(H, item.id, item.host)
      BY <1>1, <1>2, <2>3, <3>1 DEF Choosing, Course, Recorded
    <3>3. PICK u \in Seq(Clicked) : u = up \o Touch
      BY <2>2, <3>2, ConcatProperties
    <3>4. KnownAs(core.hosts, item.id, item.host)'
      BY <1>1, <1>2, <3>2
    <3>5. Chosen'
      BY <2>1, <2>2, <3>3, <3>4 DEF Chosen
    <3> QED
      BY <1>2, <1>3, <2>1, <2>3, <3>5 DEF Choosing, At
  <2>4. CASE Ended
    BY <1>2, <1>3, <2>1, <2>4 DEF Ended, At
  <2> QED
    BY <2>3, <2>4
<1>6. CASE Chooses(<<"greet">>) /\ gpc' = "command"
  <2>1. up' = up \o Touch \o <<"greet">> /\ Touch \in Seq(Clicked)
    BY <1>6, ChoosesIs
  <2>2. core.pc \in {"choosing", "ended"} /\ core'.pc = core.pc
    BY <1>2 DEF Choosing, Ended, At
  <2>3. down = <<>> /\ down' = <<>>
    BY <1>2, <1>6, <2>2 DEF LeaveBreach, At
  <2>4. Choosing
    <3>1. ASSUME NEW d \in Seq(Spoken) PROVE Append(d, "exit") # <<>>
      OBVIOUS
    <3> QED
      BY <1>2, <2>3, <3>1 DEF Ended
  <2>5. up \in Seq(Clicked)
    BY <1>2, <2>4 DEF Choosing
  <2>6. PICK u \in Seq(Clicked) : u = up \o Touch
    BY <2>1, <2>5, ConcatProperties
  <2> QED
    BY <1>2, <1>3, <1>6, <2>1, <2>3, <2>4, <2>6 DEF Choosing, At
<1> QED
  BY <1>4, <1>5, <1>6 DEF ChooserUser

LEMMA DoesChooserExit ==
  ASSUME Course, Choosing \/ Ended, ChooserExit
  PROVE  Recorded(core.hosts)' /\ (Choosing' \/ Ended')
<1>1. gpc' = "gone" /\ UNCHANGED <<core, up>> /\ (gpc = "chooser" \/ core.pc = "ended")
  BY DEF ChooserExit, At
<1>2. Recorded(core.hosts)'
  BY <1>1 DEF Course
<1> QED
  BY <1>1, <1>2 DEF Choosing, Ended, At

-----------------------------------------------------------------------------
(* The dialogue and the chooser *)

LEMMA CourseBegins == ASSUME DInit PROVE Course
<1>1. core.hosts = {}
  BY DEF DInit
<1> QED
  BY <1>1, DialogueBegins, FS_EmptySet DEF Situation, Course, Recorded

LEMMA CourseFrame == ASSUME Course, UNCHANGED dVars PROVE Course'
<1>1. UNCHANGED <<conf, core, up, down, gpc, login, over, armed, needLoad, menu>>
  BY DEF dVars
<1>2. CoreTyped' /\ GreeterTyped' /\ CoreOK' /\ conf' \in Configs
  BY <1>1, CoreFrame, GreeterFrame, CoreOKFrame DEF Course, greeterVars
<1>3. TalkersOK'
  BY <1>1, NamesFrame DEF Course, TalkersOK, TalkerOK
<1>4. Recorded(core.hosts)'
  BY <1>1 DEF Course
<1>5. CASE Talks
  BY <1>1, <1>2, <1>3, <1>4, <1>5, TalksFrame DEF Course
<1>6. CASE Choosing \/ Ended \/ Reopens
  <2>1. Choosing => Choosing'
    BY <1>1 DEF Choosing, Chosen, At
  <2>2. Ended => Ended'
    BY <1>1 DEF Ended, At
  <2>3. Reopens => Reopens'
    BY <1>1 DEF Reopens, At
  <2> QED
    BY <1>2, <1>3, <1>4, <1>6, <2>1, <2>2, <2>3 DEF Course
<1> QED
  BY <1>5, <1>6 DEF Course

\* Whatever happens, in the dialogue or in the chooser.
LEMMA CourseKeeps ==
  ASSUME Orderly, ~LeaveBreach, ~DroppedBreach, Course, [CNext]_dVars
  PROVE  Course'
<1>1. CASE Core \/ Greeter \/ Users
  <2>1. CASE Talks
    <3>1. Situation'
      BY <1>1, <2>1, DialogueKeeps DEF Course, Situation
    <3>2. core'.hosts = core.hosts
      BY <1>1, CoreStepsTyped, HostsStay, GreeterLeaves, DialogueAssumption DEF Core, CoreStep, Course
    <3>3. Recorded(core.hosts)'
      BY <3>2 DEF Course
    <3> QED
      BY <3>1, <3>3 DEF Situation, Course
  <2>2. CASE Reopens
    <3>1. CoreOK' /\ Talks'
      BY <1>1, <2>2, OpensAgain
    <3>2. CASE Core
      <4>1. core'.hosts = core.hosts /\ CoreTyped' /\ GreeterTyped' /\ UNCHANGED conf
        BY <3>2, CoreStepsTyped, CoreNext, HostsStay, CoreLeavesGreeter, CoreLeaves,
           DialogueAssumption DEF Core, CoreStep, Course
      <4>2. Recorded(core.hosts)'
        BY <4>1 DEF Course
      <4>3. TalkersOK'
        BY <3>2, CoreKeepsTalkers DEF Course
      <4> QED
        BY <3>1, <4>1, <4>2, <4>3 DEF Course
    <3>3. ~Greeter /\ ~Users
      BY <2>2 DEF Reopens, Greeter, GreeterReady, ReadCommand, FailVerify, ReadStatus, ReadValue,
         TalkerReads, RetryTimer, Users, FirstInput, Activity, AutoLogin, Accept, EnterUser, Reject,
         CancelRenewal, OpenShutdown, ForceToggled, CloseShutdown, SwitchToChooser, GreeterExit,
         MayAct, Calm, At
    <3> QED
      BY <1>1, <3>2, <3>3
  <2> QED
    BY <1>1, <2>1, <2>2, ChoosingAlone, EndedAlone DEF Course
<1>2. CASE ChooserCore \/ Network \/ ChooserDlg \/ ChooserUser \/ ChooserExit
  <2>1. CoreTyped' /\ GreeterTyped' /\ conf' \in Configs /\ TalkersOK' /\ CoreOK'
    BY <1>2, ChooserKeepsParts
  <2>2. Recorded(core.hosts)' /\ (Talks' \/ Choosing' \/ Ended' \/ Reopens')
    <3>1. CASE Talks
      BY <1>2, <3>1, DoesChooserReady
    <3>2. CASE Choosing
      <4>1. ~ChooserReady
        BY <3>2 DEF Choosing, ChooserReady, At
      <4> QED
        BY <1>2, <3>2, <4>1, DoesChooserCommand, DoesChooserLost, DoesPing, DoesReceivePacket,
           DoesChooserStart, DoesChooserReads, DoesChooserUser, DoesChooserExit
           DEF ChooserCore, Network, ChooserDlg
    <3>3. CASE Ended
      <4>1. ~ChooserCore /\ ~Network
        BY <3>3 DEF Ended, ChooserCore, ChooserReady, ChooserCommand, ChooserLost, Network, Ping,
           ReceivePacket, At
      <4> QED
        BY <1>2, <3>3, <4>1, DoesChooserStart, DoesChooserReads, DoesChooserUser, DoesChooserExit
           DEF ChooserDlg
    <3>4. CASE Reopens
      <4>1. FALSE
        BY <1>2, <3>4 DEF Reopens, ChooserCore, ChooserReady, ChooserCommand, ChooserLost, Network,
           Ping, ReceivePacket, ChooserDlg, ChooserStart, ChooserReads, ChooserUser, Chooses,
           ChooserExit, At
      <4> QED
        BY <4>1
    <3> QED
      BY <3>1, <3>2, <3>3, <3>4 DEF Course
  <2> QED
    BY <2>1, <2>2 DEF Course
<1>3. CASE UNCHANGED dVars
  BY <1>3, CourseFrame
<1> QED
  BY <1>1, <1>2, <1>3 DEF CNext, DNext, Over

\* No assumption has been broken: so neither before nor in this step.
LEMMA StepKept ==
  ASSUME [CNext /\ broken' = broken \cup Breaches]_allVars, Kept'
  PROVE  Kept /\ [CNext]_dVars /\ (UNCHANGED dVars \/ (Orderly /\ ~LeaveBreach /\ ~DroppedBreach))
<1>1. CASE CNext /\ broken' = broken \cup Breaches
  <2>1. broken = {} /\ Breaches = {}
    BY <1>1 DEF Kept
  <2>2. Orderly /\ ~LeaveBreach /\ ~DroppedBreach
    BY <2>1, Zenon DEF Breaches, DBreaches, Orderly
  <2> QED
    BY <1>1, <2>1, <2>2 DEF Kept
<1>2. CASE UNCHANGED allVars
  BY <1>2 DEF allVars, Kept
<1> QED
  BY <1>1, <1>2

LEMMA CourseAlways == CSpec => [](Kept => Course)
<1>1. DInit => (Kept => Course)
  BY CourseBegins
<1>2. ASSUME Kept => Course, [CNext /\ broken' = broken \cup Breaches]_allVars
      PROVE  (Kept => Course)'
  <2>1. SUFFICES ASSUME Kept' PROVE Course'
    OBVIOUS
  <2> QED
    BY <1>2, <2>1, StepKept, CourseKeeps, CourseFrame
<1> QED
  BY <1>1, <1>2, PTL DEF CSpec

-----------------------------------------------------------------------------
(* What the invariant says of both *)

LEMMA CourseInStep == ASSUME Course PROVE Understood
<1>1. CASE Talks
  BY <1>1, DialogueInStep DEF Course, Situation
<1>2. CASE Choosing
  <2>1. ASSUME up # <<>>
        PROVE  Head(up) \in {"interact", "refresh", "register", "direct", "ready", "greet"}
    <3>1. CASE up \in Seq(Clicked)
      BY <2>1, <3>1 DEF Clicked
    <3>2. CASE Chosen
      BY <3>2, ChosenWaits DEF Chosen, Clicked
    <3>3. CASE \E u \in Seq(Clicked) : up = u \o <<"greet">>
      BY <3>3, GreetWaits DEF Clicked
    <3> QED
      BY <1>2, <2>1, <3>1, <3>2, <3>3 DEF Choosing
  <2>2. CoreExpects = {"interact", "refresh", "register", "direct", "ready", "greet"}
    BY <1>2 DEF Choosing, CoreExpects, At
  <2>3. ASSUME down # <<>>, gpc # "gone" PROVE Head(down) \in GreeterExpects
    <3>1. CASE gpc = "chooserAck"
      BY <1>2, <3>1 DEF Choosing, GreeterExpects
    <3>2. CASE gpc = "chooser"
      <4>1. Head(down) \in Reports
        BY <1>2, <2>3, <3>2, HeardIs DEF Choosing
      <4> QED
        BY <3>2, <4>1 DEF GreeterExpects, Reports
    <3> QED
      BY <1>2, <2>3, <3>1, <3>2 DEF Choosing
  <2> QED
    BY <2>1, <2>2, <2>3 DEF Understood
<1>3. CASE Ended
  <2>1. ASSUME gpc = "chooser" PROVE Head(down) \in GreeterExpects
    <3>1. PICK d \in Seq(Spoken) : down = Append(d, "exit") /\ Framed(d, 1)
      BY <1>3, <2>1 DEF Ended
    <3>2. Head(down) \in Reports
      <4>1. CASE d = <<>>
        BY <3>1, <4>1 DEF Reports
      <4>2. CASE d # <<>>
        BY <3>1, <4>2, HeardIs
      <4> QED
        BY <4>1, <4>2
    <3> QED
      BY <2>1, <3>2 DEF GreeterExpects, Reports
  <2> QED
    BY <1>3, <2>1 DEF Ended, Understood
<1>4. CASE Reopens
  BY <1>4 DEF Reopens, Understood
<1> QED
  BY <1>1, <1>2, <1>3, <1>4 DEF Course

LEMMA CourseMoves == ASSUME Course PROVE Moves
<1>1. CASE Talks
  BY <1>1, DialogueMoves DEF Course, Situation
<1>2. CASE Choosing
  BY <1>2 DEF Choosing, Moves, Blocked, At
<1>3. CASE Ended \/ Reopens
  BY <1>3 DEF Ended, Reopens, Moves, Blocked, At
<1> QED
  BY <1>1, <1>2, <1>3 DEF Course

LEMMA CourseVerifies == ASSUME Course PROVE At("client") => core.verified = "user"
BY DEF Course, CoreOK, Starting

\* core connects to a host because the chooser told it to, in its last words.
LEMMA CourseShows ==
  ASSUME Course, [CNext]_dVars, core'.chosen # core.chosen
  PROVE  core'.chosen \in {m.host : m \in menu}
<1>1. ~(Core \/ Greeter \/ Users)
  BY CoreStepsTyped, HostsStay, GreeterLeaves, DialogueAssumption DEF Core, CoreStep, Course
<1>2. ~(ChooserDlg \/ ChooserUser \/ ChooserExit \/ UNCHANGED dVars)
  BY DEF ChooserDlg, ChooserStart, ChooserReads, ChooserUser, Chooses, ChooserExit, dVars
<1>3. ~ChooserReady
  BY CoreBecomes DEF ChooserReady
<1>4. ~ChooserLost
  <2>1. SUFFICES ASSUME ChooserLost PROVE core'.chosen = core.chosen
    OBVIOUS
  <2>2. PICK pc : core' = [emptyHostnames(core) EXCEPT !.pc = pc]
    BY <2>1, Zenon DEF ChooserLost
  <2>3. [emptyHostnames(core) EXCEPT !.pc = pc].chosen = core.chosen
    BY CoreBecomes, Zenon
  <2> QED
    BY <2>2, <2>3, Zenon
<1>5. ~Network
  BY DEF Network, Ping, ReceivePacket, AddHost, ChangeHost, Course, CoreTyped, Cores, CoresWith
<1>6. ChooserCommand
  BY <1>1, <1>2, <1>3, <1>4, <1>5 DEF CNext, DNext, Over, ChooserCore
<1>7. PICK h \in core.hosts : Head(up) = "ready" /\ h.id = up[2] /\ core'.chosen = h.host
  BY <1>6, CommandIs
<1>8. Choosing /\ up # <<>>
  BY <1>6, CommandIs, TalksWithoutChooser DEF Course, Ended, Reopens, At
<1>9. Chosen
  <2>1. CASE up \in Seq(Clicked)
    <3>1. Head(up) \in Clicked
      BY <1>8, <2>1
    <3> QED
      BY <1>7, <3>1 DEF Clicked
  <2>2. CASE \E u \in Seq(Clicked) : up = u \o <<"greet">>
    BY <1>7, <2>2, GreetWaits DEF Clicked
  <2> QED
    BY <1>8, <2>1, <2>2 DEF Choosing
<1>10. PICK u \in Seq(Clicked), item \in menu :
        up = u \o <<"ready", item.id>> /\ KnownAs(core.hosts, item.id, item.host)
  BY <1>9 DEF Chosen
<1>11. u = <<>>
  <2>1. ASSUME u # <<>> PROVE Head(up) \in Clicked
    BY <1>10, <2>1, ChosenWaits
  <2> QED
    BY <1>7, <2>1 DEF Clicked
<1>12. up[2] = item.id
  BY <1>10, <1>11, ChosenWaits
<1>13. h.host = item.host
  BY <1>7, <1>10, <1>12 DEF KnownAs
<1> QED
  BY <1>7, <1>13

\* As long as the code's own assumptions hold, no answer, acknowledgement or command of
\* the greeter is taken by core for one of the others, nor a prompt, a result or a report
\* of a host by the greeter: in the login, the renewal of a password, the shutdown, an
\* automatic login, and the chooser.
THEOREM StaysInStep == CSpec => []InStep
<1>1. (Kept => Course) => InStep
  BY CourseInStep DEF InStep
<1> QED
  BY <1>1, CourseAlways, PTL

\* So long core and the greeter do not wait for each other either: whatever core reads,
\* the greeter that has nothing to read can send.
THEOREM NeverStandsStill == CSpec => []NoStandstill
<1>1. (Kept => Course) => NoStandstill
  BY CourseMoves DEF NoStandstill
<1> QED
  BY <1>1, CourseAlways, PTL

\* So long startClient() starts a session only for a user whom the last verify() has let
\* in, and not on the strength of root's password for a shutdown.
THEOREM SessionsAreVerified == CSpec => []VerifiedStarts
<1>1. (Kept => Course) => VerifiedStarts
  BY CourseVerifies DEF VerifiedStarts
<1> QED
  BY <1>1, CourseAlways, PTL

\* The host that chooseHost() finds by the address the chooser has sent is the one the
\* user chose, even if malloc() uses addresses again, unless core had dropped it already.
THEOREM ChoiceIsKept == CSpec => ChosenWasShown
<1>1. ASSUME Kept => Course, [CNext /\ broken' = broken \cup Breaches]_allVars
      PROVE  [core'.chosen # core.chosen /\ Kept' =>
                core'.chosen \in {m.host : m \in menu}]_allVars
  BY <1>1, StepKept, CourseShows
<1> QED
  BY <1>1, CourseAlways, PTL DEF CSpec, ChosenWasShown

-----------------------------------------------------------------------------
(* The menu.  What core has told the chooser makes of the menu that is shown *)
(* the one of the hosts that core knows: the messages are followed one by    *)
(* one, from where each begins to where it ends.                             *)

\* The menu m after the message that begins at the i-th word of d.
Named(d, i) == [id |-> d[i + 1], host |-> d[i + 2], status |-> d[i + 3]]
Effect(m, d, i) ==
  CASE d[i] = "addHost"    -> m \cup {Named(d, i)}
    [] d[i] = "changeHost" -> {IF j.id = d[i + 1] THEN Named(d, i) ELSE j : j \in m}
    [] d[i] = "removeHost" -> Without(m, d[i + 1])
    [] OTHER               -> m

\* d is messages that begin at the places in cuts, and M[i] is the menu when it is read up
\* to the i-th word: m at the beginning, and s in the end.
Carries(d, cuts, M, i) == /\ d[i] \in Reports /\ i + Size(d[i]) \in cuts
                       /\ M[i + Size(d[i])] = Effect(M[i], d, i)
Leads(m, d, s, cuts, M) ==
  /\ cuts \subseteq 1..(Len(d) + 1) /\ {1, Len(d) + 1} \subseteq cuts
  /\ M[1] = m /\ M[Len(d) + 1] = s
  /\ \A i \in cuts : i <= Len(d) => Carries(d, cuts, M, i)
Told(m, d, s) == d \in Seq(Spoken) /\ \E cuts, M : Leads(m, d, s, cuts, M)

Distinct(hosts) == \A g, h \in hosts : g.id = h.id => g = h
Shown(hosts) == {ShownOf(h) : h \in hosts}

LEMMA SizeTells ==
  ASSUME NEW w
  PROVE  /\ Size(w) \in {1, 2, 4}
         /\ Size(w) = 4 <=> w \in {"addHost", "changeHost"}
         /\ Size(w) = 2 <=> w = "removeHost"
BY DEF Size

\* The message at i in d is the one at j in e.
SameWords(d, i, e, j) == /\ d[i] = e[j]
                         /\ \A k \in 1..(Size(d[i]) - 1) : d[i + k] = e[j + k]

\* What a message does depends on its words only.
LEMMA EffectSame ==
  ASSUME NEW d, NEW i, NEW e, NEW j, SameWords(d, i, e, j), NEW m
  PROVE  Effect(m, d, i) = Effect(m, e, j)
<1>1. PICK z : z = Size(d[i]) /\ d[i] = e[j] /\ \A k \in 1..(z - 1) : d[i + k] = e[j + k]
  BY DEF SameWords
<1>2. CASE d[i] \in {"addHost", "changeHost"}
  <2>1. z = 4
    BY <1>1, <1>2, SizeTells
  <2>2. d[i + 1] = e[j + 1] /\ d[i + 2] = e[j + 2] /\ d[i + 3] = e[j + 3]
    BY <1>1, <2>1
  <2>3. Named(d, i) = Named(e, j)
    BY <2>2 DEF Named
  <2> QED
    BY <1>1, <1>2, <2>2, <2>3 DEF Effect
<1>3. CASE d[i] = "removeHost"
  <2>1. z = 2
    BY <1>1, <1>3, SizeTells
  <2>2. d[i + 1] = e[j + 1]
    BY <1>1, <2>1
  <2> QED
    BY <1>1, <1>3, <2>2 DEF Effect
<1>4. CASE d[i] \notin {"addHost", "changeHost", "removeHost"}
  BY <1>1, <1>4 DEF Effect
<1> QED
  BY <1>2, <1>3, <1>4

LEMMA ToldNothing == ASSUME NEW m PROVE Told(m, <<>>, m)
<1>1. Leads(m, <<>>, m, {1}, [i \in {1} |-> m])
  BY DEF Leads
<1> QED
  BY <1>1 DEF Told

LEMMA ToldConcat ==
  ASSUME NEW l, NEW d, NEW s, Told(l, d, s), NEW x, NEW t, Told(s, x, t)
  PROVE  Told(l, d \o x, t)
<1>1. PICK cuts, M : Leads(l, d, s, cuts, M)
  BY DEF Told
<1>2. PICK more, N : Leads(s, x, t, more, N)
  BY DEF Told
<1>3. d \in Seq(Spoken) /\ x \in Seq(Spoken)
  BY DEF Told
<1>4. PICK e : e = d \o x
  OBVIOUS
<1>5. PICK m, n : m = Len(d) /\ n = Len(x)
  OBVIOUS
<1>6. /\ e \in Seq(Spoken) /\ Len(e) = m + n /\ m \in Nat /\ n \in Nat
      /\ \A i \in 1..(m + n) : e[i] = IF i <= m THEN d[i] ELSE x[i - m]
  BY <1>3, <1>4, <1>5, ConcatProperties, LenProperties
<1>7. /\ cuts \subseteq 1..(m + 1) /\ more \subseteq 1..(n + 1)
      /\ 1 \in cuts /\ m + 1 \in cuts /\ 1 \in more /\ n + 1 \in more
      /\ M[1] = l /\ M[m + 1] = s /\ N[1] = s /\ N[n + 1] = t
  BY <1>1, <1>2, <1>5, <1>6 DEF Leads
<1> DEFINE all == cuts \cup {i \in (m + 1)..(m + n + 1) : i - m \in more}
           O == [i \in 1..(m + n + 1) |-> IF i <= m THEN M[i] ELSE N[i - m]]
<1>8. all \subseteq 1..(m + n + 1) /\ {1, m + n + 1} \subseteq all
  <2>1. cuts \subseteq 1..(m + n + 1)
    BY <1>6, <1>7
  <2>2. \A i \in (m + 1)..(m + n + 1) : i \in 1..(m + n + 1)
    BY <1>6
  <2>3. m + n + 1 \in (m + 1)..(m + n + 1) /\ (m + n + 1) - m = n + 1
    BY <1>6
  <2> QED
    BY <1>7, <2>1, <2>2, <2>3
<1>9. /\ \A i \in cuts : O[i] = M[i]
      /\ \A j \in more : O[m + j] = N[j] /\ m + j \in all
  <2>1. ASSUME NEW i \in cuts PROVE O[i] = M[i]
    <3>1. i \in 1..(m + 1) /\ i \in 1..(m + n + 1)
      BY <1>6, <1>7
    <3>2. CASE i <= m
      BY <3>1, <3>2
    <3>3. CASE i = m + 1
      BY <1>6, <1>7, <3>1, <3>3
    <3> QED
      BY <1>6, <3>1, <3>2, <3>3
  <2>2. ASSUME NEW j \in more PROVE O[m + j] = N[j] /\ m + j \in all
    <3>1. j \in 1..(n + 1)
      BY <1>7
    <3>2. m + j \in (m + 1)..(m + n + 1) /\ (m + j) - m = j /\ ~(m + j <= m) /\ m + j \in 1..(m + n + 1)
      BY <1>6, <3>1
    <3> QED
      BY <3>2
  <2> QED
    BY <2>1, <2>2
<1> HIDE DEF O
<1>10. ASSUME NEW i \in cuts, i <= m PROVE Carries(e, all, O, i)
  <2>1. i \in 1..m /\ i \in Nat /\ Carries(d, cuts, M, i)
    BY <1>1, <1>5, <1>6, <1>7, <1>10 DEF Leads
  <2>2. PICK z : z = Size(d[i])
    OBVIOUS
  <2>3. z \in {1, 2, 4} /\ i + z \in cuts /\ d[i] \in Reports /\ M[i + z] = Effect(M[i], d, i)
    BY <2>1, <2>2, SizeTells DEF Carries
  <2>4. e[i] = d[i]
    BY <1>6, <2>1
  <2>5. \A k \in 1..(z - 1) : d[i + k] = e[i + k]
    <3>1. i + z \in 1..(m + 1)
      BY <1>7, <2>3
    <3>2. \A k \in 1..(z - 1) : i + k \in 1..m /\ i + k \in 1..(m + n)
      BY <1>6, <2>1, <2>3, <3>1
    <3> QED
      BY <1>6, <3>2
  <2>6. Effect(M[i], d, i) = Effect(M[i], e, i)
    <3>1. SameWords(d, i, e, i)
      BY <2>2, <2>4, <2>5 DEF SameWords
    <3> QED
      BY <3>1, EffectSame
  <2>7. O[i] = M[i] /\ O[i + z] = M[i + z]
    BY <1>9, <2>3
  <2>8. i + z \in all
    BY <2>3
  <2> HIDE DEF all
  <2> QED
    BY <2>2, <2>3, <2>4, <2>6, <2>7, <2>8 DEF Carries
<1>11. ASSUME NEW i \in (m + 1)..(m + n), i - m \in more PROVE Carries(e, all, O, i)
  <2>1. PICK j : j = i - m
    OBVIOUS
  <2>2. j \in 1..n /\ i = m + j /\ j \in more /\ i \in Nat /\ j \in Nat
    BY <1>6, <1>11, <2>1
  <2>3. Carries(x, more, N, j)
    BY <1>2, <1>5, <1>6, <2>2 DEF Leads
  <2>4. PICK z : z = Size(x[j])
    OBVIOUS
  <2>5. z \in {1, 2, 4} /\ j + z \in more /\ x[j] \in Reports /\ N[j + z] = Effect(N[j], x, j)
    BY <2>3, <2>4, SizeTells DEF Carries
  <2>6. e[i] = x[j]
    BY <1>6, <2>2
  <2>7. \A k \in 1..(z - 1) : x[j + k] = e[i + k]
    <3>1. j + z \in 1..(n + 1)
      BY <1>7, <2>5
    <3>2. \A k \in 1..(z - 1) : i + k \in 1..(m + n) /\ ~(i + k <= m) /\ (i + k) - m = j + k
      BY <1>6, <2>2, <2>5, <3>1
    <3> QED
      BY <1>6, <3>2
  <2>8. Effect(N[j], x, j) = Effect(N[j], e, i)
    <3>1. SameWords(x, j, e, i)
      BY <2>4, <2>6, <2>7 DEF SameWords
    <3> QED
      BY <3>1, EffectSame
  <2>9. i + z = m + (j + z)
    BY <1>6, <2>2, <2>5
  <2>10. O[i] = N[j] /\ O[i + z] = N[j + z] /\ i + z \in all
    BY <1>9, <2>2, <2>5, <2>9
  <2> HIDE DEF all
  <2> QED
    BY <2>4, <2>5, <2>6, <2>8, <2>10 DEF Carries
<1>12. Leads(l, e, t, all, O)
  <2>1. ASSUME NEW i \in all, i <= m + n PROVE Carries(e, all, O, i)
    <3>1. CASE i \in cuts /\ i <= m
      BY <1>10, <3>1
    <3>2. CASE i \in cuts /\ ~(i <= m)
      <4>1. i = m + 1 /\ i \in (m + 1)..(m + n) /\ i - m = 1
        <5>1. i \in 1..(m + 1) /\ i \in Nat
          BY <1>6, <1>7, <3>2
        <5> QED
          BY <1>6, <2>1, <3>2, <5>1
      <4> QED
        BY <1>7, <1>11, <4>1
    <3>3. CASE i \notin cuts
      <4>1. i \in (m + 1)..(m + n) /\ i - m \in more
        BY <1>6, <2>1, <3>3
      <4> QED
        BY <1>11, <4>1
    <3> QED
      BY <3>1, <3>2, <3>3
  <2>2. O[1] = l /\ O[m + n + 1] = t
    <3>1. O[m + (n + 1)] = N[n + 1] /\ O[1] = M[1] /\ m + (n + 1) = m + n + 1
      BY <1>6, <1>7, <1>9
    <3> QED
      BY <1>7, <3>1
  <2> HIDE DEF all
  <2>3. Len(e) = m + n
    BY <1>6
  <2> QED
    BY <1>8, <2>1, <2>2, <2>3 DEF Leads
<1> HIDE DEF all
<1> QED
  BY <1>4, <1>6, <1>12 DEF Told

\* What is left to be told when the first message has been read.
LEMMA ToldRest ==
  ASSUME NEW l, NEW d, NEW s, Told(l, d, s), d # <<>>
  PROVE  /\ Told(Heard(l, d).menu, Heard(l, d).rest, s)
         /\ Len(Heard(l, d).rest) < Len(d)
<1>1. PICK cuts, M : Leads(l, d, s, cuts, M)
  BY DEF Told
<1>2. PICK n : n = Len(d)
  OBVIOUS
<1>3. d \in Seq(Spoken) /\ n \in Nat /\ n >= 1
  BY <1>2 DEF Told
<1>4. /\ cuts \subseteq 1..(n + 1) /\ 1 \in cuts /\ n + 1 \in cuts /\ M[1] = l /\ M[n + 1] = s
      /\ \A i \in cuts : i <= n => Carries(d, cuts, M, i)
  BY <1>1, <1>2 DEF Leads
<1>5. PICK z : z = Size(d[1])
  OBVIOUS
<1>6. PICK c : c = 1 + z
  OBVIOUS
<1>7. /\ z \in {1, 2, 4} /\ c \in cuts /\ M[c] = Effect(l, d, 1) /\ d[1] \in Reports
  BY <1>3, <1>4, <1>5, <1>6, SizeTells DEF Carries
<1>8. c \in 2..(n + 1)
  BY <1>4, <1>6, <1>7
<1>9. Heard(l, d) = [menu |-> Effect(l, d, 1), rest |-> SubSeq(d, c, n)]
  <2>1. CASE d[1] \in {"addHost", "changeHost"}
    <3>1. c = 5
      BY <1>5, <1>6, <2>1, SizeTells
    <3>2. Named(d, 1) = Item(d)
      BY DEF Named, Item
    <3>3. d[1 + 1] = d[2]
      OBVIOUS
    <3>4. CASE d[1] = "addHost"
      BY <1>2, <3>1, <3>2, <3>4 DEF Heard, Effect
    <3>5. CASE d[1] = "changeHost"
      <4>1. Effect(l, d, 1) = {IF i.id = d[2] THEN Item(d) ELSE i : i \in l}
        BY <3>2, <3>3, <3>5, Zenon DEF Effect
      <4> QED
        BY <1>2, <3>1, <3>5, <4>1 DEF Heard
    <3> QED
      BY <2>1, <3>4, <3>5
  <2>2. CASE d[1] = "removeHost"
    <3>1. c = 3
      BY <1>5, <1>6, <2>2, SizeTells
    <3> QED
      BY <1>2, <2>2, <3>1 DEF Heard, Effect
  <2>3. CASE d[1] \notin {"addHost", "changeHost", "removeHost"}
    <3>1. c = 2
      BY <1>5, <1>6, <1>7, <2>3, SizeTells
    <3>2. Tail(d) = SubSeq(d, 2, n)
      BY <1>2, <1>3
    <3> QED
      BY <2>3, <3>1, <3>2 DEF Heard, Effect
  <2> QED
    BY <2>1, <2>2, <2>3
<1>10. PICK e : e = SubSeq(d, c, n)
  OBVIOUS
<1>11. /\ e \in Seq(Spoken) /\ Len(e) = n - c + 1
       /\ \A i \in 1..(n - c + 1) : e[i] = d[c + i - 1]
  <2>1. ASSUME NEW i \in c..n PROVE d[i] \in Spoken
    BY <1>2, <1>3, <1>8, ElementOfSeq
  <2>2. /\ SubSeq(d, c, n) \in Seq(Spoken)
        /\ Len(SubSeq(d, c, n)) = IF c <= n THEN n - c + 1 ELSE 0
        /\ \A i \in 1..(n - c + 1) : SubSeq(d, c, n)[i] = d[c + i - 1]
    BY <1>2, <1>3, <1>8, <2>1, SubSeqProperties
  <2> QED
    BY <1>3, <1>8, <1>10, <2>2
<1> DEFINE rest == {i \in 1..(n - c + 2) : c + i - 1 \in cuts}
           O == [i \in 1..(n - c + 2) |-> M[c + i - 1]]
<1>12. rest \subseteq 1..(n - c + 2) /\ 1 \in rest /\ n - c + 2 \in rest
  <2>1. 1 \in 1..(n - c + 2) /\ n - c + 2 \in 1..(n - c + 2) /\ c + 1 - 1 = c
        /\ c + (n - c + 2) - 1 = n + 1
    BY <1>3, <1>8
  <2> QED
    BY <1>4, <1>7, <2>1
<1>13. O[1] = M[c] /\ O[n - c + 2] = s
  <2>1. 1 \in 1..(n - c + 2) /\ n - c + 2 \in 1..(n - c + 2) /\ c + 1 - 1 = c
        /\ c + (n - c + 2) - 1 = n + 1
    BY <1>3, <1>8
  <2> QED
    BY <1>4, <2>1
<1>14. ASSUME NEW i \in rest, i <= n - c + 1 PROVE Carries(e, rest, O, i)
  <2>1. PICK j : j = c + i - 1
    OBVIOUS
  <2>2. j \in cuts /\ j <= n /\ j \in Nat /\ i \in 1..(n - c + 1) /\ i \in 1..(n - c + 2)
    BY <1>3, <1>4, <1>8, <1>14, <2>1
  <2>3. PICK y : y = Size(d[j])
    OBVIOUS
  <2>4. /\ y \in {1, 2, 4} /\ j + y \in cuts /\ d[j] \in Reports
        /\ M[j + y] = Effect(M[j], d, j)
    BY <1>4, <2>2, <2>3, SizeTells DEF Carries
  <2>5. e[i] = d[j]
    BY <1>11, <2>1, <2>2
  <2>6. j + y <= n + 1
    BY <1>4, <2>2, <2>4
  <2>7. SameWords(d, j, e, i)
    <3>1. \A k \in 1..(y - 1) : i + k \in 1..(n - c + 1) /\ c + (i + k) - 1 = j + k
      BY <1>3, <1>8, <2>1, <2>2, <2>4, <2>6
    <3>2. \A k \in 1..(y - 1) : d[j + k] = e[i + k]
      BY <1>11, <3>1
    <3> QED
      BY <2>3, <2>5, <3>2 DEF SameWords
  <2>8. Effect(M[j], d, j) = Effect(M[j], e, i)
    BY <2>7, EffectSame
  <2>9. i + y \in 1..(n - c + 2) /\ c + (i + y) - 1 = j + y
    BY <1>3, <1>8, <2>1, <2>2, <2>4, <2>6
  <2>10. i + y \in rest /\ O[i + y] = M[j + y] /\ O[i] = M[j]
    BY <2>1, <2>2, <2>4, <2>9
  <2> HIDE DEF rest, O
  <2> QED
    BY <2>3, <2>4, <2>5, <2>8, <2>10 DEF Carries
<1> HIDE DEF rest, O
<1>15. Len(e) + 1 = n - c + 2 /\ Len(e) < n
  BY <1>3, <1>8, <1>11
<1>16. Leads(M[c], e, s, rest, O)
  BY <1>11, <1>12, <1>13, <1>14, <1>15 DEF Leads
<1>17. Told(M[c], e, s)
  BY <1>11, <1>16 DEF Told
<1>18. Heard(l, d).menu = M[c] /\ Heard(l, d).rest = e
  <2>1. Heard(l, d) = [menu |-> M[c], rest |-> e]
    BY <1>7, <1>9, <1>10, Zenon
  <2> QED
    BY <2>1
<1>19. Told(Heard(l, d).menu, Heard(l, d).rest, s)
  BY <1>17, <1>18, Zenon
<1>20. Len(Heard(l, d).rest) < Len(d)
  BY <1>2, <1>15, <1>18
<1> QED
  BY <1>19, <1>20, Zenon

\* Each message of core.
LEMMA ToldWord ==
  ASSUME NEW w \in {"badHost", "exit"}, NEW m
  PROVE  Told(m, <<w>>, m)
<1>1. PICK d : d = <<w>>
  OBVIOUS
<1>2. d \in Seq(Spoken) /\ Len(d) = 1 /\ d[1] = w
  BY <1>1 DEF Spoken, Reports
<1>3. Size(w) = 1 /\ w \in Reports /\ Effect(m, d, 1) = m
  BY <1>2 DEF Size, Reports, Effect
<1>4. PICK M : M = [i \in {1, 2} |-> m]
  OBVIOUS
<1>5. Carries(d, {1, 2}, M, 1)
  BY <1>2, <1>3, <1>4 DEF Carries
<1>6. Leads(m, d, m, {1, 2}, M)
  BY <1>2, <1>4, <1>5 DEF Leads
<1> QED
  BY <1>1, <1>2, <1>6 DEF Told

LEMMA ToldHost ==
  ASSUME NEW w \in {"addHost", "changeHost"}, NEW id \in Ids, NEW host \in Hosts,
         NEW status \in Statuses, NEW m
  PROVE  Told(m, <<w, id, host, status>>, Effect(m, <<w, id, host, status>>, 1))
<1>1. PICK d : d = <<w, id, host, status>>
  OBVIOUS
<1>2. d \in Seq(Spoken) /\ Len(d) = 4 /\ d[1] = w
  BY <1>1 DEF Spoken, Reports
<1>3. Size(w) = 4 /\ w \in Reports
  BY DEF Size, Reports
<1>4. PICK s : s = Effect(m, d, 1)
  OBVIOUS
<1>5. PICK M : M = [i \in {1, 5} |-> IF i = 1 THEN m ELSE s]
  OBVIOUS
<1>6. Carries(d, {1, 5}, M, 1)
  BY <1>2, <1>3, <1>4, <1>5 DEF Carries
<1>7. Leads(m, d, s, {1, 5}, M)
  BY <1>2, <1>5, <1>6 DEF Leads
<1> QED
  BY <1>1, <1>2, <1>4, <1>7 DEF Told

\* The hosts that are dropped leave the menu, in whatever order.
LEMMA ToldDropped ==
  ASSUME NEW n \in Nat, NEW order \in [1..n -> HostRecords], NEW m
  PROVE  Told(m, [k \in 1..(2 * n) |-> IF k % 2 = 1 THEN "removeHost" ELSE order[k \div 2].id],
              {i \in m : \A k \in 1..n : i.id # order[k].id})
<1> DEFINE d == [k \in 1..(2 * n) |-> IF k % 2 = 1 THEN "removeHost" ELSE order[k \div 2].id]
           cuts == {j \in 1..(2 * n + 1) : j % 2 = 1}
           M == [j \in 1..(2 * n + 1) |-> {i \in m : \A k \in 1..(j \div 2) : i.id # order[k].id}]
<1>1. d \in Seq(Spoken) /\ Len(d) = 2 * n
  <2>1. ASSUME NEW k \in 1..(2 * n), k % 2 # 1 PROVE k \div 2 \in 1..n
    BY <2>1
  <2>2. ASSUME NEW k \in 1..(2 * n) PROVE d[k] \in Spoken
    BY <2>1, <2>2 DEF HostRecords, Spoken, Reports
  <2> QED
    BY <2>2
<1>2. ASSUME NEW i \in cuts, i <= 2 * n PROVE Carries(d, cuts, M, i)
  <2>1. PICK k : k = i \div 2
    OBVIOUS
  <2>2. k \in Nat /\ i = 2 * k + 1 /\ k + 1 \in 1..n
    BY <1>2, <2>1
  <2>3. d[i] = "removeHost" /\ Size(d[i]) = 2 /\ i + 2 \in cuts
    BY <1>2, SizeTells
  <2>4. d[i + 1] = order[k + 1].id
    <3>1. i + 1 \in 1..(2 * n) /\ (i + 1) % 2 # 1 /\ (i + 1) \div 2 = k + 1
      BY <2>2
    <3> QED
      BY <3>1
  <2>5. M[i] = {j \in m : \A o \in 1..k : j.id # order[o].id}
    BY <1>2, <2>1
  <2>6. M[i + 2] = {j \in m : \A o \in 1..(k + 1) : j.id # order[o].id}
    <3>1. (i + 2) \div 2 = k + 1 /\ i + 2 \in 1..(2 * n + 1)
      BY <2>2
    <3> QED
      BY <3>1
  <2> HIDE DEF M, d, cuts
  <2>7. M[i + 2] = Without(M[i], d[i + 1])
    <3>1. ASSUME NEW j \in m
          PROVE  (\A o \in 1..(k + 1) : j.id # order[o].id)
                   <=> (\A o \in 1..k : j.id # order[o].id) /\ j.id # order[k + 1].id
      BY <2>2
    <3> QED
      BY <2>4, <2>5, <2>6, <3>1 DEF Without
  <2>8. Effect(M[i], d, i) = Without(M[i], d[i + 1])
    BY <2>3 DEF Effect
  <2> QED
    BY <2>3, <2>7, <2>8 DEF Carries, Reports
<1>3. cuts \subseteq 1..(2 * n + 1) /\ {1, 2 * n + 1} \subseteq cuts
  <2>1. (2 * n + 1) % 2 = 1
    OBVIOUS
  <2> QED
    BY <2>1
<1>4. M[1] = m /\ M[2 * n + 1] = {i \in m : \A k \in 1..n : i.id # order[k].id}
  <2>1. 1 \div 2 = 0 /\ (2 * n + 1) \div 2 = n /\ 1 \in 1..(2 * n + 1) /\ 2 * n + 1 \in 1..(2 * n + 1)
    OBVIOUS
  <2>2. M[1] = {i \in m : \A k \in 1..0 : i.id # order[k].id}
    BY <2>1
  <2> QED
    BY <2>1, <2>2
<1> HIDE DEF d, cuts, M
<1>5. Leads(m, d, {i \in m : \A k \in 1..n : i.id # order[k].id}, cuts, M)
  BY <1>1, <1>2, <1>3, <1>4 DEF Leads
<1>6. Told(m, d, {i \in m : \A k \in 1..n : i.id # order[k].id})
  BY <1>1, <1>5 DEF Told
<1> QED
  BY <1>6 DEF d

\* A set of numbers with 0, and with the successor of each of its members, has them all.
LEMMA Induction ==
  ASSUME NEW S, 0 \in S, \A n \in Nat : n \in S => n + 1 \in S
  PROVE  Nat \subseteq S
<1> DEFINE less == {p \in Nat \X Nat : p[1] < p[2]}
           T == Nat \ S
<1>1. IsWellFoundedOn(less, Nat)
  BY NatLessThanWellFounded DEF OpToRel
<1>2. SUFFICES ASSUME T # {} PROVE FALSE
  OBVIOUS
<1>3. T \subseteq Nat
  OBVIOUS
<1> HIDE DEF less, T
<1>4. PICK n \in T : \A k \in T : <<k, n>> \notin less
  BY <1>1, <1>2, <1>3, WFMin
<1> USE DEF less, T
<1>5. n - 1 \in Nat /\ <<n - 1, n>> \in less
  OBVIOUS
<1>6. n - 1 \in S /\ (n - 1) + 1 = n
  BY <1>4, <1>5
<1> QED
  BY <1>5, <1>6

\* The menu and the words left after one more message, if there is one.
Further(p) == IF p.rest = <<>> THEN p ELSE Heard(p.menu, p.rest)
Unread(f, l, w) == f[0] = [menu |-> l, rest |-> w]
ReadOn(f, k) == \A n \in 1..k : f[n] = Further(f[n - 1])

\* The recursive function that After is defined with: it exists.
LEMMA Readings ==
  ASSUME NEW l, NEW w, NEW k \in Nat
  PROVE  \E f : Unread(f, l, w) /\ ReadOn(f, k)
<1> DEFINE S == {n \in Nat : \E f : Unread(f, l, w) /\ ReadOn(f, n)}
<1>1. 0 \in S
  <2>1. PICK f : f = [n \in {0} |-> [menu |-> l, rest |-> w]]
    OBVIOUS
  <2>2. Unread(f, l, w) /\ ReadOn(f, 0)
    BY <2>1 DEF Unread, ReadOn
  <2> QED
    BY <2>2
<1>2. ASSUME NEW n \in Nat, n \in S PROVE n + 1 \in S
  <2>1. PICK f : Unread(f, l, w) /\ ReadOn(f, n)
    BY <1>2
  <2>2. PICK x : x = Further(f[n])
    OBVIOUS
  <2>3. PICK g : g = [i \in 0..(n + 1) |-> IF i = n + 1 THEN x ELSE f[i]]
    OBVIOUS
  <2>4. g[n + 1] = x /\ \A i \in 0..n : g[i] = f[i]
    BY <2>3
  <2>5. ASSUME NEW i \in 1..(n + 1) PROVE g[i] = Further(g[i - 1])
    <3>1. CASE i = n + 1
      <4>1. i - 1 = n /\ n \in 0..n
        BY <3>1
      <4> QED
        BY <2>2, <2>4, <3>1, <4>1
    <3>2. CASE i # n + 1
      <4>1. i \in 1..n /\ i \in 0..n /\ i - 1 \in 0..n
        BY <3>2
      <4> QED
        BY <2>1, <2>4, <4>1 DEF ReadOn
    <3> QED
      BY <3>1, <3>2
  <2>6. Unread(g, l, w) /\ ReadOn(g, n + 1)
    BY <2>1, <2>4, <2>5 DEF Unread, ReadOn
  <2> QED
    BY <2>6
<1> HIDE DEF S
<1>3. k \in S
  BY <1>1, <1>2, Induction
<1> QED
  BY <1>3 DEF S

LEMMA AfterIs ==
  ASSUME NEW l, NEW w, NEW n \in Nat, n = Len(w)
  PROVE  \E f : Unread(f, l, w) /\ ReadOn(f, n) /\ After(l, w) = f[n].menu
<1> DEFINE G(f) == [i \in 0..n |-> IF i = 0 THEN [menu |-> l, rest |-> w]
                                   ELSE IF f[i - 1].rest = <<>> THEN f[i - 1]
                                   ELSE Heard(f[i - 1].menu, f[i - 1].rest)]
           h == CHOOSE f : f = G(f)
<1>1. After(l, w) = h[n].menu
  BY DEF After
<1>2. \E f : f = G(f)
  <2>1. PICK f : Unread(f, l, w) /\ ReadOn(f, n)
    BY Readings
  <2>2. PICK g : g = [i \in 0..n |-> f[i]]
    OBVIOUS
  <2>3. ASSUME NEW i \in 0..n PROVE g[i] = G(g)[i]
    <3>1. CASE i = 0
      BY <2>1, <2>2, <3>1 DEF Unread
    <3>2. CASE i # 0
      <4>1. i \in 1..n /\ i - 1 \in 0..n
        BY <3>2
      <4>2. g[i] = f[i] /\ g[i - 1] = f[i - 1]
        BY <2>2, <4>1
      <4>3. g[i] = Further(g[i - 1])
        BY <2>1, <4>1, <4>2 DEF ReadOn
      <4> QED
        BY <3>2, <4>3 DEF Further
    <3> QED
      BY <3>1, <3>2
  <2>4. g = G(g)
    BY <2>2, <2>3
  <2> QED
    BY <2>4
<1>3. h = G(h)
  BY <1>2, Zenon
<1> HIDE DEF h
<1>4. Unread(h, l, w)
  BY <1>3 DEF Unread
<1>5. ASSUME NEW i \in 1..n PROVE h[i] = Further(h[i - 1])
  <2>1. i \in 0..n /\ i # 0
    OBVIOUS
  <2> QED
    BY <1>3, <2>1 DEF Further
<1>6. ReadOn(h, n)
  BY <1>5 DEF ReadOn
<1> QED
  BY <1>1, <1>4, <1>6

\* What core has told is what the chooser will show.
LEMMA ToldAfter ==
  ASSUME NEW l, NEW w, NEW s, Told(l, w, s)
  PROVE  After(l, w) = s
<1>1. PICK n \in Nat : n = Len(w)
  BY LenProperties DEF Told
<1>2. PICK f : Unread(f, l, w) /\ ReadOn(f, n) /\ After(l, w) = f[n].menu
  BY <1>1, AfterIs
<1> DEFINE Still(k) == /\ Told(f[k].menu, f[k].rest, s)
                       /\ f[k].rest = <<>> \/ Len(f[k].rest) + k <= n
           S == {k \in Nat : k <= n => Still(k)}
<1>3. 0 \in S
  <2>1. f[0].menu = l /\ f[0].rest = w
    BY <1>2 DEF Unread
  <2> QED
    BY <1>1, <2>1
<1>4. ASSUME NEW k \in Nat, k \in S, k + 1 <= n PROVE Still(k + 1)
  <2>1. PICK r, q : r = f[k].rest /\ q = f[k].menu
    OBVIOUS
  <2>2. Told(q, r, s) /\ (r = <<>> \/ Len(r) + k <= n)
    BY <1>1, <1>4, <2>1
  <2>3. f[k + 1] = Further(f[k])
    <3>1. k + 1 \in 1..n /\ (k + 1) - 1 = k
      BY <1>4
    <3> QED
      BY <1>2, <3>1 DEF ReadOn
  <2>4. CASE r = <<>>
    <3>1. f[k + 1] = f[k]
      BY <2>1, <2>3, <2>4 DEF Further
    <3> QED
      BY <2>1, <2>2, <2>4, <3>1
  <2>5. CASE r # <<>>
    <3>1. f[k + 1] = Heard(q, r)
      BY <2>1, <2>3, <2>5 DEF Further
    <3>2. PICK t : t = f[k + 1].rest
      OBVIOUS
    <3>3. Told(f[k + 1].menu, t, s) /\ Len(t) < Len(r)
      BY <2>2, <2>5, <3>1, <3>2, ToldRest
    <3>4. Len(t) \in Nat /\ Len(r) \in Nat
      BY <2>2, <3>3, LenProperties DEF Told
    <3>5. Len(t) + (k + 1) <= n
      BY <2>2, <2>5, <3>3, <3>4
    <3> QED
      BY <3>2, <3>3, <3>5
  <2> QED
    BY <2>4, <2>5
<1>5. n \in S
  <2>1. ASSUME NEW k \in Nat, k \in S PROVE k + 1 \in S
    <3>1. k + 1 <= n => Still(k + 1)
      BY <1>4, <2>1
    <3> HIDE DEF Still
    <3> QED
      BY <3>1
  <2> HIDE DEF S
  <2> QED
    BY <1>3, <2>1, Induction
<1> HIDE DEF S
<1>6. PICK r, q : r = f[n].rest /\ q = f[n].menu
  OBVIOUS
<1>7. Told(q, r, s) /\ (r = <<>> \/ Len(r) + n <= n)
  BY <1>1, <1>5, <1>6 DEF S
<1>8. r \in Seq(Spoken) /\ Len(r) \in Nat
  BY <1>7, LenProperties DEF Told
<1>9. Len(r) = 0
  BY <1>7, <1>8
<1>10. q = s
  BY <1>7, <1>9 DEF Told, Leads
<1> QED
  BY <1>2, <1>6, <1>10

\* Each host that core knows has an id of its own, there are none but while the chooser is
\* there, and what is on its way to the chooser makes of its menu the one of those hosts.
Telling ==
  /\ Distinct(core.hosts)
  /\ core.hosts # {} => core.pc \in {"choosing", "ended"}
  /\ At("choosing") /\ gpc = "chooserAck" => Told({}, Tail(down), Shown(core.hosts))
  /\ At("choosing") /\ gpc = "chooser" => Told(menu, down, Shown(core.hosts))

\* Nobody is there to be told.
LEMMA NobodyTold ==
  ASSUME Distinct(core'.hosts), core'.hosts # {} => core'.pc \in {"choosing", "ended"},
         gpc' \notin {"chooserAck", "chooser"} \/ core'.pc # "choosing"
  PROVE  Telling'
BY DEF Telling, At

LEMMA SpokenDown == ASSUME Choosing, gpc # "gone" PROVE down \in Seq(Spoken)
<1>1. CASE gpc = "command"
  BY <1>1 DEF Choosing
<1>2. CASE gpc # "command"
  BY <1>2 DEF Choosing, Framed
<1> QED
  BY <1>1, <1>2

\* core tells the chooser s, if it is there, of what has become of the hosts.
LEMMA CoreTells ==
  ASSUME Course, Choosing, Telling, UNCHANGED <<gpc, menu>>,
         NEW G, G = core'.hosts, Distinct(G), core'.pc \in {"choosing", "ended"},
         NEW s, Told(Shown(core.hosts), s, Shown(G)), down' = down \o s
  PROVE  Telling'
<1>1. PICK d, e : d = down /\ e = down'
  OBVIOUS
<1>2. gpc \in {"chooserAck", "chooser"} => d \in Seq(Spoken) /\ s \in Seq(Spoken)
  BY <1>1 DEF Choosing, Framed, Told
<1>3. ASSUME gpc = "chooserAck" PROVE Told({}, Tail(e), Shown(G))
  <2>1. d # <<>> /\ Told({}, Tail(d), Shown(core.hosts))
    BY <1>1, <1>3 DEF Choosing, Telling, At
  <2>2. Tail(e) = Tail(d) \o s
    BY <1>1, <1>2, <1>3, <2>1
  <2> QED
    BY <2>1, <2>2, ToldConcat
<1>4. ASSUME gpc = "chooser" PROVE Told(menu, e, Shown(G))
  <2>1. Told(menu, d, Shown(core.hosts))
    BY <1>1, <1>4 DEF Choosing, Telling, At
  <2> QED
    BY <1>1, <2>1, ToldConcat
<1>5. Distinct(core.hosts)' /\ (core.hosts # {} => core.pc \in {"choosing", "ended"})'
  OBVIOUS
<1>6. (gpc = "chooserAck" => Told({}, Tail(down), Shown(core.hosts)))'
  BY <1>1, <1>3
<1>7. (gpc = "chooser" => Told(menu, down, Shown(core.hosts)))'
  BY <1>1, <1>4
<1> QED
  BY <1>5, <1>6, <1>7 DEF Telling

LEMMA RepingedShown ==
  ASSUME NEW H, H \subseteq HostRecords, Distinct(H),
         NEW G, G = {[h EXCEPT !.alive = FALSE] : h \in H}
  PROVE  Distinct(G) /\ Shown(G) = Shown(H)
<1>1. ASSUME NEW h \in H
      PROVE  [h EXCEPT !.alive = FALSE].id = h.id /\ ShownOf([h EXCEPT !.alive = FALSE]) = ShownOf(h)
  BY DEF HostRecords, ShownOf
<1>2. Distinct(G)
  <2>1. ASSUME NEW f \in G, NEW g \in G, f.id = g.id PROVE f = g
    <3>1. PICK h \in H, i \in H : f = [h EXCEPT !.alive = FALSE] /\ g = [i EXCEPT !.alive = FALSE]
      OBVIOUS
    <3>2. h = i
      BY <1>1, <2>1, <3>1 DEF Distinct
    <3> QED
      BY <3>1, <3>2
  <2> QED
    BY <2>1 DEF Distinct
<1>3. Shown(G) = Shown(H)
  BY <1>1 DEF Shown
<1> QED
  BY <1>2, <1>3

LEMMA NewShown ==
  ASSUME NEW H, Distinct(H), NEW n, \A h \in H : h.id # n.id
  PROVE  /\ Distinct(H \cup {n})
         /\ Shown(H \cup {n}) = Effect(Shown(H), <<"addHost", n.id, n.host, n.status>>, 1)
<1>1. Distinct(H \cup {n})
  BY DEF Distinct
<1>2. PICK d : d = <<"addHost", n.id, n.host, n.status>>
  OBVIOUS
<1>3. d[1] = "addHost" /\ Named(d, 1) = ShownOf(n)
  BY <1>2 DEF Named, ShownOf
<1>4. Effect(Shown(H), d, 1) = Shown(H) \cup {ShownOf(n)}
  BY <1>3 DEF Effect
<1>5. Shown(H \cup {n}) = Shown(H) \cup {ShownOf(n)}
  BY DEF Shown
<1> QED
  BY <1>1, <1>2, <1>4, <1>5

LEMMA ChangedShown ==
  ASSUME NEW H, H \subseteq HostRecords, Distinct(H), NEW h \in H, NEW status,
         NEW n, n = [h EXCEPT !.status = status, !.alive = TRUE], NEW G, G = (H \ {h}) \cup {n}
  PROVE  /\ Distinct(G)
         /\ Shown(G) = Effect(Shown(H), <<"changeHost", h.id, h.host, status>>, 1)
<1>1. n.id = h.id /\ ShownOf(n) = [id |-> h.id, host |-> h.host, status |-> status]
  BY DEF ShownOf, HostRecords
<1>2. Distinct(G)
  <2>1. ASSUME NEW f \in G, NEW g \in G, f.id = g.id PROVE f = g
    <3>1. CASE f = n /\ g # n
      BY <1>1, <2>1, <3>1 DEF Distinct
    <3>2. CASE f # n /\ g = n
      BY <1>1, <2>1, <3>2 DEF Distinct
    <3>3. CASE f # n /\ g # n
      BY <2>1, <3>3 DEF Distinct
    <3> QED
      BY <3>1, <3>2, <3>3
  <2> QED
    BY <2>1 DEF Distinct
<1>3. PICK d : d = <<"changeHost", h.id, h.host, status>>
  OBVIOUS
<1>4. d[1] = "changeHost" /\ d[1 + 1] = h.id /\ Named(d, 1) = ShownOf(n)
  BY <1>1, <1>3 DEF Named
<1>5. Effect(Shown(H), d, 1) = {IF j.id = h.id THEN ShownOf(n) ELSE j : j \in Shown(H)}
  BY <1>4 DEF Effect
<1>6. ASSUME NEW g \in H PROVE (IF ShownOf(g).id = h.id THEN ShownOf(n) ELSE ShownOf(g))
                               = (IF g = h THEN ShownOf(n) ELSE ShownOf(g))
  BY DEF Distinct, ShownOf
<1>7. {IF j.id = h.id THEN ShownOf(n) ELSE j : j \in Shown(H)}
      = {IF g = h THEN ShownOf(n) ELSE ShownOf(g) : g \in H}
  BY <1>6 DEF Shown
<1>8. {IF g = h THEN ShownOf(n) ELSE ShownOf(g) : g \in H} = Shown(G)
  BY DEF Shown
<1> QED
  BY <1>2, <1>3, <1>5, <1>7, <1>8

LEMMA DroppedShown ==
  ASSUME NEW H, Distinct(H), NEW dead \in SUBSET H, IsFiniteSet(dead),
         NEW n \in Nat, n = Cardinality(dead), NEW order \in SetToSeqs(dead), NEW G, G = H \ dead
  PROVE  /\ Distinct(G)
         /\ Shown(G) = {i \in Shown(H) : \A k \in 1..n : i.id # order[k].id}
<1>1. Distinct(G)
  BY DEF Distinct
<1>2. order \in [1..n -> dead] /\ \A i, j \in 1..n : i # j => order[i] # order[j]
  BY DEF SetToSeqs
<1>3. \A h \in dead : \E k \in 1..n : h = order[k]
  <2>1. order \in Injection(1..n, dead)
    BY <1>2 DEF Injection, IsInjective
  <2>2. Cardinality(1..n) = Cardinality(dead)
    BY FS_Interval
  <2>3. order \in Surjection(1..n, dead)
    BY <2>1, <2>2, FS_Injection
  <2> QED
    BY <2>3 DEF Surjection
<1>4. ASSUME NEW h \in H PROVE h \in G <=> \A k \in 1..n : ShownOf(h).id # order[k].id
  <2>1. ShownOf(h).id = h.id
    BY DEF ShownOf
  <2>2. CASE h \in dead
    BY <1>3, <2>1, <2>2
  <2>3. CASE h \notin dead
    BY <1>2, <2>1, <2>3 DEF Distinct
  <2> QED
    BY <2>2, <2>3
<1>5. Shown(G) \subseteq {i \in Shown(H) : \A k \in 1..n : i.id # order[k].id}
  <2>1. ASSUME NEW h \in G PROVE ShownOf(h) \in {i \in Shown(H) : \A k \in 1..n : i.id # order[k].id}
    BY <1>4 DEF Shown
  <2> QED
    BY <2>1 DEF Shown
<1>6. {i \in Shown(H) : \A k \in 1..n : i.id # order[k].id} \subseteq Shown(G)
  <2>1. ASSUME NEW h \in H, \A k \in 1..n : ShownOf(h).id # order[k].id PROVE ShownOf(h) \in Shown(G)
    BY <1>4, <2>1 DEF Shown
  <2> QED
    BY <2>1 DEF Shown
<1> QED
  BY <1>1, <1>5, <1>6

\* The commands of the chooser.
LEMMA CommandTells ==
  ASSUME Course, Choosing, Telling, ChooserCommand
  PROVE  Telling'
<1>1. PICK H, G : H = core.hosts /\ G = core'.hosts
  OBVIOUS
<1>2. /\ gpc' = gpc /\ menu' = menu /\ core.pc = "choosing"
      /\ H \subseteq HostRecords /\ Distinct(H)
  BY <1>1 DEF ChooserCommand, greeterVars, Course, Recorded, Telling, At
<1>3. ASSUME Distinct(G), Shown(G) = Shown(H), core'.pc \in {"choosing", "ended"},
             \/ down' = down
             \/ down' = down \o <<>>
             \/ \E w \in {"badHost", "exit"} : down' = down \o <<w>> \/ down' = Append(down, w)
      PROVE  Telling'
  <2>1. CASE gpc \in {"chooserAck", "chooser"}
    <3>1. down \in Seq(Spoken)
      BY <2>1 DEF Choosing, Framed
    <3>2. down \o <<>> = down /\ \A w : Append(down, w) = down \o <<w>>
      BY <3>1
    <3>3. PICK s : down' = down \o s /\ (s = <<>> \/ \E w \in {"badHost", "exit"} : s = <<w>>)
      BY <1>3, <3>2
    <3>4. Told(Shown(H), s, Shown(G))
      BY <1>3, <3>3, ToldNothing, ToldWord
    <3> QED
      BY <1>1, <1>2, <1>3, <2>1, <3>3, <3>4, CoreTells
  <2>2. CASE gpc \notin {"chooserAck", "chooser"}
    BY <1>1, <1>2, <1>3, <2>2, NobodyTold
  <2> QED
    BY <2>1, <2>2
<1>4. ASSUME core' = Repinged(core)
      PROVE  Distinct(G) /\ Shown(G) = Shown(H) /\ core'.pc = "choosing"
  <2>1. G = {[h EXCEPT !.alive = FALSE] : h \in H} /\ core'.pc = "choosing"
    BY <1>1, <1>4, CoreBecomes
  <2> QED
    BY <1>2, <2>1, RepingedShown
<1>5. ASSUME \/ core' = core
             \/ core' = [core EXCEPT !.pc = "ended"]
             \/ \E c : core' = [core EXCEPT !.pc = "ended", !.chosen = c]
      PROVE  Distinct(G) /\ Shown(G) = Shown(H) /\ core'.pc \in {"choosing", "ended"}
  <2>1. CASE core' = core
    BY <1>1, <1>2, <2>1
  <2>2. CASE core' = [core EXCEPT !.pc = "ended"]
    <3>1. core'.hosts = core.hosts /\ core'.pc = "ended"
      BY <2>2, CoreBecomes
    <3> QED
      BY <1>1, <1>2, <3>1
  <2>3. CASE \E c : core' = [core EXCEPT !.pc = "ended", !.chosen = c]
    <3>1. core'.hosts = core.hosts /\ core'.pc = "ended"
      BY <2>3, CoreBecomes
    <3> QED
      BY <1>1, <1>2, <3>1
  <2> QED
    BY <1>5, <2>1, <2>2, <2>3
<1>6. CASE Head(up) = "interact" /\ UNCHANGED <<core, down>>
  BY <1>3, <1>5, <1>6
<1>7. CASE /\ core' = Repinged(core)
           /\ UNCHANGED down \/ \E bad \in {<<>>, <<"badHost">>} : down' = down \o bad
  BY <1>3, <1>4, <1>7
<1>8. CASE \/ down' = Append(down, "badHost") /\ UNCHANGED core
           \/ down' = Append(down, "exit") /\ core' = [core EXCEPT !.pc = "ended"]
  BY <1>3, <1>5, <1>8
<1>9. CASE /\ LET found == ChooseHost(up[2]) IN
              /\ found = {} => core' = [core EXCEPT !.pc = "ended"]
              /\ found # {} => \E h \in found :
                   core' = [core EXCEPT !.pc = "ended", !.chosen = h.host]
           /\ UNCHANGED down
  <2>1. core' = [core EXCEPT !.pc = "ended"] \/ \E c : core' = [core EXCEPT !.pc = "ended", !.chosen = c]
    BY <1>9
  <2> QED
    BY <1>3, <1>5, <1>9, <2>1
<1>10. CASE Greet(emptyHostnames(core))
  <2>1. G = {} /\ core'.pc = "wait"
    BY <1>1, <1>10, CoreBecomes DEF Greet
  <2>2. Distinct(G)
    BY <2>1 DEF Distinct
  <2> QED
    BY <1>1, <2>1, <2>2, NobodyTold
<1> QED
  BY <1>6, <1>7, <1>8, <1>9, <1>10 DEF ChooserCommand

LEMMA PingTells ==
  ASSUME Course, Choosing, Telling, Ping
  PROVE  Telling'
<1>1. PICK H, G : H = core.hosts /\ G = core'.hosts
  OBVIOUS
<1>2. /\ core.pc = "choosing" /\ UNCHANGED <<gpc, menu>>
      /\ H \subseteq HostRecords /\ Distinct(H) /\ IsFiniteSet(H) /\ down \in Seq(Spoken)
  BY <1>1, SpokenDown DEF Ping, greeterVars, At, Course, Recorded, Telling
<1>3. CASE core.pingTry < PING_TRIES
  <2>1. core' = [core EXCEPT !.pingTry = @ + 1] /\ down' = down
    BY <1>3 DEF Ping
  <2>2. core'.pc = "choosing" /\ G = H
    BY <1>1, <1>2, <2>1 DEF Course, CoreTyped, Cores, CoresWith
  <2>3. down' = down \o <<>> /\ Told(Shown(H), <<>>, Shown(H))
    BY <1>2, <2>1, ToldNothing
  <2> QED
    BY <1>1, <1>2, <2>2, <2>3, CoreTells
<1>4. CASE ~(core.pingTry < PING_TRIES)
  <2> DEFINE dead == {h \in core.hosts : ~h.alive}
  <2>1. core' = [core EXCEPT !.hosts = @ \ dead]
    BY <1>4 DEF Ping
  <2>2. PICK order \in SetToSeqs(dead) :
          down' = down \o [k \in 1..(2 * Len(order)) |->
                            IF k % 2 = 1 THEN "removeHost" ELSE order[k \div 2].id]
    BY <1>4 DEF Ping
  <2>3. core'.pc = "choosing" /\ G = H \ dead
    BY <1>1, <1>2, <2>1 DEF Course, CoreTyped, Cores, CoresWith
  <2>4. dead \in SUBSET H /\ dead \subseteq HostRecords
    BY <1>1, <1>2
  <2>5. IsFiniteSet(dead) /\ Cardinality(dead) \in Nat
    BY <1>2, <2>4, FS_Subset, FS_CardinalityType
  <2> HIDE DEF dead
  <2>6. PICK n \in Nat : n = Cardinality(dead)
    BY <2>5
  <2>7. order \in [1..n -> dead]
    BY <2>2, <2>6 DEF SetToSeqs
  <2>8. order \in [1..n -> HostRecords] /\ Len(order) = n
    BY <2>4, <2>7
  <2>9. PICK s : /\ s = [k \in 1..(2 * n) |-> IF k % 2 = 1 THEN "removeHost" ELSE order[k \div 2].id]
                 /\ down' = down \o s
    BY <2>2, <2>8
  <2>10. Told(Shown(H), s, {i \in Shown(H) : \A k \in 1..n : i.id # order[k].id})
    BY <2>8, <2>9, ToldDropped
  <2>11. Distinct(G) /\ Shown(G) = {i \in Shown(H) : \A k \in 1..n : i.id # order[k].id}
    BY <1>2, <2>2, <2>3, <2>4, <2>5, <2>6, DroppedShown
  <2> QED
    BY <1>1, <1>2, <2>3, <2>9, <2>10, <2>11, CoreTells
<1> QED
  BY <1>3, <1>4

LEMMA PacketTells ==
  ASSUME Course, Choosing, Telling, ReceivePacket
  PROVE  Telling'
<1>1. PICK H, G : H = core.hosts /\ G = core'.hosts
  OBVIOUS
<1>2. /\ core.pc = "choosing" /\ UNCHANGED <<gpc, menu>>
      /\ H \subseteq HostRecords /\ Distinct(H) /\ down \in Seq(Spoken)
  BY <1>1, SpokenDown DEF ReceivePacket, greeterVars, At, Course, Recorded, Telling
<1>3. PICK host \in Hosts, status \in Statuses :
        AddHost(host, status) \/ \E h \in H : ChangeHost(h, status)
  <2>1. PICK host \in Hosts, status \in Statuses :
          LET known == {h \in core.hosts : h.host = host} IN
          IF known = {} THEN AddHost(host, status)
          ELSE \E h \in known : ChangeHost(h, status)
    BY Zenon DEF ReceivePacket
  <2>2. AddHost(host, status) \/ \E h \in H : ChangeHost(h, status)
    BY <1>1, <2>1
  <2> QED
    BY <2>2
<1>4. CASE AddHost(host, status)
  <2> DEFINE new(id) == [id |-> id, host |-> host, status |-> status, alive |-> TRUE]
  <2>1. PICK id \in Malloc :
          /\ core' = [core EXCEPT !.hosts = @ \cup {new(id)}, !.responded = @ \cup {host}]
          /\ down' = down \o <<"addHost", id, host, status>>
    BY <1>4 DEF AddHost
  <2>2. PICK n :
          /\ n = [id |-> id, host |-> host, status |-> status, alive |-> TRUE]
          /\ core' = [core EXCEPT !.hosts = @ \cup {n}, !.responded = @ \cup {host}]
          /\ down' = down \o <<"addHost", id, host, status>>
    BY <2>1
  <2>3. id \in Ids /\ \A h \in H : h.id # id
    BY <1>1, <2>2 DEF Malloc
  <2>4. core'.pc = "choosing" /\ G = H \cup {n}
    BY <1>1, <1>2, <2>2 DEF Course, CoreTyped, Cores, CoresWith
  <2>5. PICK s : s = <<"addHost", id, host, status>>
    OBVIOUS
  <2>6. Distinct(G) /\ Shown(G) = Effect(Shown(H), s, 1)
    <3>1. n.id = id /\ n.host = host /\ n.status = status
      BY <2>2
    <3>2. s = <<"addHost", n.id, n.host, n.status>>
      BY <2>5, <3>1
    <3>3. Distinct(H) /\ \A h \in H : h.id # n.id
      BY <1>2, <2>3, <3>1
    <3> QED
      BY <2>4, <3>2, <3>3, NewShown
  <2>7. Told(Shown(H), s, Effect(Shown(H), s, 1))
    BY <2>3, <2>5, ToldHost
  <2> QED
    BY <1>1, <1>2, <2>2, <2>4, <2>5, <2>6, <2>7, CoreTells
<1>5. CASE \E h \in H : ChangeHost(h, status)
  <2>1. PICK h \in H : ChangeHost(h, status)
    BY <1>5
  <2>2. CASE h.status = status
    <3>1. core' = [core EXCEPT !.responded = @ \cup {h.host}] /\ down' = down
      BY <2>1, <2>2 DEF ChangeHost
    <3>2. core'.pc = "choosing" /\ G = H
      BY <1>1, <1>2, <3>1 DEF Course, CoreTyped, Cores, CoresWith
    <3>3. down' = down \o <<>> /\ Told(Shown(H), <<>>, Shown(H))
      BY <1>2, <3>1, ToldNothing
    <3> QED
      BY <1>1, <1>2, <3>2, <3>3, CoreTells
  <2>3. CASE h.status # status
    <3>1. PICK n : n = [h EXCEPT !.status = status, !.alive = TRUE]
      OBVIOUS
    <3>2. PICK s : s = <<"changeHost", h.id, h.host, status>>
      OBVIOUS
    <3>3. /\ core' = [core EXCEPT !.hosts = (@ \ {h}) \cup {n}, !.responded = @ \cup {h.host}]
          /\ down' = down \o s
      BY <2>1, <2>3, <3>1, <3>2 DEF ChangeHost
    <3>4. core'.pc = "choosing" /\ G = (H \ {h}) \cup {n}
      BY <1>1, <1>2, <3>3 DEF Course, CoreTyped, Cores, CoresWith
    <3>5. Distinct(G) /\ Shown(G) = Effect(Shown(H), s, 1)
      BY <1>2, <3>1, <3>2, <3>4, ChangedShown
    <3>6. Told(Shown(H), s, Effect(Shown(H), s, 1))
      <4>1. h.id \in Ids /\ h.host \in Hosts
        BY <1>2 DEF HostRecords
      <4> QED
        BY <3>2, <4>1, ToldHost
    <3> QED
      BY <1>1, <1>2, <3>3, <3>4, <3>5, <3>6, CoreTells
  <2> QED
    BY <2>2, <2>3
<1> QED
  BY <1>3, <1>4, <1>5

\* The chooser starts with nothing shown, and reads what it is told.
LEMMA DlgTells ==
  ASSUME Course, Choosing \/ Ended, Telling, ChooserDlg \/ ChooserUser \/ ChooserExit
  PROVE  Telling'
<1>1. core' = core
  BY DEF ChooserDlg, ChooserStart, ChooserReads, ChooserUser, Chooses, ChooserExit
<1>2. PICK H, d, m : H = core.hosts /\ d = down /\ m = menu
  OBVIOUS
<1>3. Distinct(H) /\ (H # {} => core.pc \in {"choosing", "ended"})
  BY <1>2 DEF Telling
<1>4. CASE core.pc # "choosing" \/ gpc' \notin {"chooserAck", "chooser"}
  BY <1>1, <1>2, <1>3, <1>4, NobodyTold
<1>5. CASE core.pc = "choosing" /\ gpc' \in {"chooserAck", "chooser"}
  <2>1. ASSUME gpc' = "chooser", Told(menu', down', Shown(H)) PROVE Telling'
    BY <1>1, <1>2, <1>3, <2>1 DEF Telling
  <2>2. CASE ChooserStart
    <3>1. gpc = "chooserAck" /\ menu' = {} /\ down' = Tail(d) /\ gpc' = "chooser"
      BY <1>2, <2>2 DEF ChooserStart
    <3>2. Told({}, Tail(d), Shown(H))
      BY <1>2, <1>5, <3>1 DEF Telling, At
    <3> QED
      BY <2>1, <3>1, <3>2
  <2>3. CASE ChooserReads
    <3>1. gpc = "chooser" /\ d # <<>> /\ menu' = Heard(m, d).menu /\ down' = Heard(m, d).rest
      BY <1>2, <2>3 DEF ChooserReads
    <3>2. Told(m, d, Shown(H))
      BY <1>2, <1>5, <3>1 DEF Telling, At
    <3>3. gpc' = "chooser"
      BY <1>5, <2>3 DEF ChooserReads
    <3> QED
      BY <2>1, <3>1, <3>2, <3>3, ToldRest
  <2>4. CASE ChooserUser
    <3>1. gpc = "chooser" /\ down' = d /\ menu' = m /\ gpc' = "chooser"
      BY <1>2, <1>5, <2>4 DEF ChooserUser, Chooses
    <3>2. Told(m, d, Shown(H))
      BY <1>2, <1>5, <3>1 DEF Telling, At
    <3> QED
      BY <2>1, <3>1, <3>2
  <2>5. CASE ChooserExit
    BY <1>5, <2>5 DEF ChooserExit
  <2> QED
    BY <2>2, <2>3, <2>4, <2>5 DEF ChooserDlg
<1> QED
  BY <1>4, <1>5

\* While the dialogue goes on core does not look for hosts.
Apart == Talks => ~At("choosing")

\* Nothing else tells of hosts, or knows any.
LEMMA DialogueTells ==
  ASSUME Orderly, Course, Apart', Telling, Core \/ Greeter \/ Users
  PROVE  Telling'
<1>1. Talks \/ Reopens
  BY ChoosingAlone, EndedAlone DEF Course
<1>2. core'.hosts = core.hosts
  BY CoreStepsTyped, HostsStay, GreeterLeaves, DialogueAssumption DEF Core, CoreStep, Course
<1>3. ~At("choosing")
  BY <1>1, TalksWithoutChooser DEF Course, Reopens, At
<1>4. CASE Core
  <2>1. ~At("ended")
    BY <1>4 DEF Core, CoreStep, CoreStart, OpenGreeter, GreeterOpened, GreeterCommand,
       GreeterClosed, GreeterLost, Tell, Acknowledged, Answered, PamAsks, Pam, Account, Client,
       SessionEnds, PamMessage, AccountMessage, ClientMessage, At
  <2>2. core.hosts = {}
    BY <1>3, <2>1 DEF Telling, At
  <2>3. Distinct(core'.hosts) /\ core'.hosts = {}
    BY <1>2, <2>2 DEF Distinct
  <2>4. core'.pc # "choosing"
    <3>1. Talks'
      BY <1>1, OpensAgain, DialogueKeeps DEF Course, Situation
    <3> QED
      BY <3>1 DEF Apart, At
  <2> QED
    BY <2>3, <2>4, NobodyTold
<1>5. CASE Greeter \/ Users
  <2>1. core' = core
    BY <1>5, GreeterLeaves
  <2> QED
    BY <1>3, <2>1, NobodyTold DEF Telling, At
<1> QED
  BY <1>4, <1>5

LEMMA TellingKeeps ==
  ASSUME Orderly, Course, Apart', Telling, [CNext]_dVars
  PROVE  Telling'
<1>1. CASE Core \/ Greeter \/ Users
  BY <1>1, DialogueTells
<1>2. CASE ChooserCore \/ Network \/ ChooserDlg \/ ChooserUser \/ ChooserExit
  <2>1. CASE Talks
    <3>1. ChooserReady
      BY <1>2, <2>1, TalksWithoutChooser DEF Course, ChooserCore, ChooserCommand, ChooserLost,
         Network, Ping, ReceivePacket, ChooserDlg, ChooserStart, ChooserReads, ChooserUser, Chooses,
         ChooserExit, At
    <3>2. /\ core.pc = "prepare" /\ up = <<"ready">> /\ down = <<>> /\ gpc = "chooserAck"
      BY <2>1, <3>1, TalksWithoutChooser DEF Course, ChooserReady, At
    <3>3. core.hosts = {}
      BY <3>2 DEF Telling
    <3>4. down' = <<"async">> /\ core' = Repinged(core) /\ gpc' = "chooserAck"
      BY <3>1, <3>2 DEF ChooserReady, greeterVars
    <3>5. core'.hosts = {}
      BY <3>3, <3>4, CoreBecomes
    <3>6. Tail(<<"async">>) = <<>> /\ Shown({}) = {} /\ Distinct({})
      BY DEF Shown, Distinct
    <3>7. Told({}, Tail(<<"async">>), Shown({}))
      BY <3>6, ToldNothing
    <3> QED
      BY <3>4, <3>5, <3>6, <3>7 DEF Telling
  <2>2. CASE Choosing
    <3>1. ~ChooserReady
      BY <2>2 DEF Choosing, ChooserReady, At
    <3>2. ChooserLost => Telling'
      <4>1. SUFFICES ASSUME ChooserLost PROVE Telling'
        OBVIOUS
      <4>2. PICK pc : core' = [emptyHostnames(core) EXCEPT !.pc = pc]
        BY <4>1, Zenon DEF ChooserLost
      <4>3. core'.hosts = {} /\ gpc' = "none"
        BY <4>1, <4>2, CoreBecomes DEF ChooserLost
      <4> QED
        BY <4>3, NobodyTold DEF Distinct
    <3> QED
      BY <1>2, <2>2, <3>1, <3>2, CommandTells, PingTells, PacketTells, DlgTells
         DEF ChooserCore, Network
  <2>3. CASE Ended
    <3>1. ~ChooserCore /\ ~Network
      BY <2>3 DEF Ended, ChooserCore, ChooserReady, ChooserCommand, ChooserLost, Network, Ping,
         ReceivePacket, At
    <3> QED
      BY <1>2, <2>3, <3>1, DlgTells
  <2>4. CASE Reopens
    BY <1>2, <2>4 DEF Reopens, ChooserCore, ChooserReady, ChooserCommand, ChooserLost, Network,
       Ping, ReceivePacket, ChooserDlg, ChooserStart, ChooserReads, ChooserUser, Chooses,
       ChooserExit, At
  <2> QED
    BY <2>1, <2>2, <2>3, <2>4 DEF Course
<1>3. CASE UNCHANGED dVars
  BY <1>3 DEF Telling, At, dVars
<1> QED
  BY <1>1, <1>2, <1>3 DEF CNext, DNext, Over

LEMMA TellingFrame == ASSUME Telling, UNCHANGED dVars PROVE Telling'
BY DEF Telling, At, dVars

LEMMA CourseTells == ASSUME Kept => Telling PROVE MenuFollows
<1>1. ASSUME Kept, At("choosing"), gpc = "chooser" PROVE After(menu, down) = Shown(core.hosts)
  BY <1>1, ToldAfter DEF Telling
<1> QED
  BY <1>1 DEF MenuFollows, Shown

\* Whatever has been added, changed, dropped and shown before, what is on its way to the
\* chooser makes of its menu the list of the hosts that core knows: broadcastQuery(),
\* addHostname() and the rest of choose.c tell ChooserDlg::slotReadPipe() of every change
\* of that list, and never of a host that it does not show.
THEOREM MenuIsFollowed == CSpec => []MenuFollows
<1>1. DInit => (Kept => Telling)
  BY DEF DInit, Telling, Distinct, At
<1>2. (Kept => Course) => (Kept => Apart)
  BY TalksWithoutChooser DEF Course, Apart
<1>3. ASSUME Kept => Course, (Kept => Apart)', Kept => Telling,
             [CNext /\ broken' = broken \cup Breaches]_allVars
      PROVE  (Kept => Telling)'
  <2>1. SUFFICES ASSUME Kept' PROVE Telling'
    OBVIOUS
  <2> QED
    BY <1>3, <2>1, StepKept, TellingKeeps, TellingFrame
<1>4. (Kept => Telling) => MenuFollows
  BY CourseTells
<1> QED
  BY <1>1, <1>2, <1>3, <1>4, CourseAlways, PTL DEF CSpec

=============================================================================
