-------------------------- MODULE VirtualTerminals --------------------------
(***************************************************************************)
(* The virtual terminals of the local X servers (dm.c): allocateVT() gives *)
(* each display that is to be started a VT before startDisplays() kicks    *)
(* it.  A VT that belongs to a zombie, whose X server may still be up, is  *)
(* promised: the display becomes the zombie's follower, waits with a       *)
(* serverVT of -1, and is handed the VT when that X server is reaped.      *)
(*                                                                         *)
(* The module adds the VTs to the state of DisplayManager.  Each of its    *)
(* steps is a step of the master with what happens to the VTs in it, or    *)
(* one run of allocateVT(), of which DisplayManager sees nothing but       *)
(* the display that then waits.                                            *)
(*                                                                         *)
(* "follower" is a pointer.  removeDisplay() does not clear those to the   *)
(* display it frees; Freed is such a pointer.  To write through it is      *)
(* undefined: the memory is unused, or it is a display made since.         *)
(***************************************************************************)
EXTENDS DisplayManager, Integers, Sequences

CONSTANTS
  ServerVTs,  \* ServerVTs of kdmrc: VT numbers, negative for "only if free"
  ReqVT,      \* ServerVT of kdmrc for each display: 0 any VT, negative none
  LastVT,     \* the highest VT that is used, 15 in the code
  Gettys,     \* VTs that may be in use by something else than our X servers
  Freed       \* a pointer to a display that has been freed

ASSUME VTAssumption ==
  /\ LastVT \in Nat
  /\ ServerVTs \in Seq(Int)
  /\ ReqVT \in [Displays -> Int]
  /\ Gettys \subseteq 1..LastVT
  /\ Freed \notin Displays \cup {None}
  /\ Local \subseteq VTWaiters

VARIABLES
  vt,         \* serverVT of each display: 0 none, -1 pending
  follower,   \* the display a display hands its VT to
  allocating, \* displays the current startDisplays() has yet to find a VT for
  activeVTs,  \* the busy VTs this startDisplays() has found, None if it has not looked
  dangled     \* history: a display that waited for its VT has been freed

vtVars  == <<vt, follower, allocating, activeVTs, dangled>>
allVars == <<vars, vtVars>>

VTs == 1..LastVT

-----------------------------------------------------------------------------
(* Which VT a display gets *)

\* The VTs allocateVT() tries, in this order: the list of kdmrc, then those above
\* its last entry.  A voluntary one is taken only if it is not busy.
Candidates ==
  LET Entry(n)  == [vt |-> IF n < 0 THEN -n ELSE n, voluntary |-> n < 0]
      listed    == [i \in 1..Len(ServerVTs) |-> Entry(ServerVTs[i])]
      last      == IF listed = <<>> THEN 0 ELSE listed[Len(listed)].vt
      following == [i \in 1..(IF last < LastVT THEN LastVT - last ELSE 0) |->
                      [vt |-> last + i, voluntary |-> TRUE]]
  IN  listed \o following

\* A zombie that gives its VT up when its X server is gone.
GivesUpVT(d) == disp[d].status = "zombie" /\ disp[d].zstatus # "remoteLogin"

\* Terminal v is configured for a display, or in use by one that keeps it.
Held(v) == \E d \in Managed : \/ ReqVT[d] = v /\ ~Leaving(d)
                              \/ vt[d] = v /\ ~GivesUpVT(d)

\* The displays that could promise v to another one.
Leaders(v) == {d \in Managed : v > 0 /\ vt[d] = v /\ GivesUpVT(d) /\ follower[d] = None}

\* Mutation: the VT of a zombie is taken before its X server is gone.
TakesFromZombie(c, busy) ==
  c.vt \in VTs /\ ~Held(c.vt) /\ (c.voluntary => c.vt \notin busy)

\* Candidate c can be had at once.
Takes(c, busy) == /\ c.vt \in VTs
                  /\ ~Held(c.vt) /\ Leaders(c.vt) = {}
                  /\ c.voluntary => c.vt \notin busy

\* What VT_GETSTATE may report: the VTs of X servers that are up, perhaps those of
\* servers that boot, and some of the others.
BusyVTs ==
  LET Of(states) == {vt[d] : d \in {e \in Displays : server[e] \in states}} \cap VTs
  IN  {Of({"ready"}) \cup S : S \in SUBSET (Gettys \cup Of({"booting"}))}

\* Mutation: a display that has a VT gets another one.
NeedsAnyVT(d) == /\ d \in Local /\ disp[d].status = "notRunning"
                 /\ vt[d] >= 0 /\ ReqVT[d] >= 0

\* allocateVT() has something to do for d.
NeedsVT(d) == /\ d \in Local /\ disp[d].status = "notRunning"
              /\ vt[d] = 0 /\ ReqVT[d] >= 0

\* allocateVT(): the configured VT, or the first candidate that can be taken or is
\* promised by a zombie; with none of them d goes without.  Where a leader and a
\* holder of the same VT disagree the order of the list decides.
AllocateVT(d) ==
  /\ pc = "kick" /\ d \in allocating
  /\ allocating' = allocating \ {d}
  /\ IF ReqVT[d] \in VTs
     THEN /\ vt' = [vt EXCEPT ![d] = ReqVT[d]]
          /\ UNCHANGED follower
          /\ activeVTs' = IF allocating' = {} THEN None ELSE activeVTs
     ELSE \E busy \in IF activeVTs = None THEN BusyVTs ELSE {activeVTs} :
            LET Skipped(i) == \A j \in 1..(i - 1) :
                  LET c == Candidates[j] IN
                  ~Takes(c, busy) /\ (Leaders(c.vt) # {} => Held(c.vt))
            IN  /\ activeVTs' = IF allocating' = {} THEN None ELSE busy
                /\ \/ \E i \in 1..Len(Candidates) :
                        /\ Skipped(i)
                        /\ LET c == Candidates[i] IN
                           \/ /\ Takes(c, busy)
                              /\ vt' = [vt EXCEPT ![d] = c.vt]
                              /\ UNCHANGED follower
                           \/ \E leader \in Leaders(c.vt) :
                                /\ vt' = [vt EXCEPT ![d] = -1]
                                /\ follower' = [follower EXCEPT ![leader] = d]
                   \/ /\ Skipped(Len(Candidates) + 1)
                      /\ UNCHANGED <<vt, follower>>
  /\ UNCHANGED <<vars, dangled>>

-----------------------------------------------------------------------------
(* The VTs in the steps of the master *)

\* From VTs v and followers f, removeDisplay() of what has left the list.
RemoveDisplays(v, f) ==
  LET Gone(d) == disp'[d].status = "absent" IN
  /\ vt' = [d \in Displays |-> IF Gone(d) THEN 0 ELSE v[d]]
  /\ follower' = [d \in Displays |->
       IF Gone(d) THEN None
       ELSE IF f[d] \in Displays /\ Gone(f[d]) THEN Freed
       ELSE f[d]]
  /\ dangled' = (dangled \/ \E d \in Displays : follower'[d] = Freed)

\* Any handler but those below leaves the VTs alone.
KeepVTs == RemoveDisplays(vt, follower) /\ UNCHANGED <<allocating, activeVTs>>

\* startDisplays() has dropped displays; now it finds VTs for the others.
VTLoopTop ==
  /\ LoopTop
  /\ RemoveDisplays(vt, follower)
  /\ allocating' = {d \in Displays : pc' = "kick" /\ ~stopping /\ NeedsVT(d)'}
  /\ UNCHANGED activeVTs

\* Mutation: a display that waits for its VT is started all the same.
KickWaiting(d) == allocating = {} /\ KickDisplay(d, FALSE) /\ KeepVTs

\* kickDisplay() once all VTs are allocated; a display whose VT is pending waits.
VTKickDisplay(d) == allocating = {} /\ KickDisplay(d, vt[d] = -1) /\ KeepVTs

\* The displays that may live where the freed one was.
Reused(d) == {e \in Managed : e # d}

\* The X server of a zombie is gone: its VT goes to its follower or is given up.
HandOver(d) ==
  LET f == follower[d]
      Given(S) == {[vt |-> [vt EXCEPT ![d] = 0, ![e] = vt[d]],
                    follower |-> [follower EXCEPT ![d] = None]] : e \in S}
      Dropped(g) == [vt |-> [vt EXCEPT ![d] = 0], follower |-> g]
  IN  CASE f = None       -> {Dropped(follower)}
        [] f \in Displays -> Given({f})
        [] OTHER          -> {Dropped([follower EXCEPT ![d] = None])} \cup Given(Reused(d))

\* reapChildren() finds the X server of d; a zombie's VT is handed over first.
VTReapServer(d) ==
  /\ ReapServer(d)
  /\ IF GivesUpVT(d) /\ vt[d] # 0
     THEN \E h \in HandOver(d) : RemoveDisplays(h.vt, h.follower)
     ELSE RemoveDisplays(vt, follower)
  /\ UNCHANGED <<allocating, activeVTs>>

-----------------------------------------------------------------------------
(* The specification *)

VTInit ==
  /\ Init
  /\ vt = [d \in Displays |-> 0]
  /\ follower = [d \in Displays |-> None]
  /\ allocating = {}
  /\ activeVTs = None
  /\ dangled = FALSE

\* The steps of the master and its children that have no VTs in them.
OtherSteps ==
  \/ NoShutdownDue \/ ShutdownWaits \/ ShutdownExpires \/ NothingElse
  \/ Timeouts \/ Messages \/ Commands \/ Packets \/ Children \/ Terminated
  \/ HandleSigterm
  \/ \E C \in Kdmrc : HandleSighup(C) \/ EndReap(C)
  \/ \E d \in Displays : HandleSigusr1(d) \/ ReapSession(d)

VTNext ==
  \/ VTLoopTop
  \/ \E d \in Displays : AllocateVT(d) \/ VTKickDisplay(d) \/ VTReapServer(d)
  \/ OtherSteps /\ KeepVTs

VTSpec == VTInit /\ [][VTNext]_allVars

-----------------------------------------------------------------------------
(* Properties *)

\* serverVT, follower and activeVTs keep to what dm.h:272-273 says of them.
VTTypeOK ==
  /\ vt \in [Displays -> -1..LastVT]
  /\ follower \in [Displays -> Displays \cup {None, Freed}]
  /\ allocating \in SUBSET Displays
  /\ activeVTs = None \/ activeVTs \in SUBSET VTs
  /\ dangled \in BOOLEAN

\* allocateVT() runs for displays that are to be started and have no VT, whatever
\* the children do meanwhile.
AllocatingNeedsVT == \A d \in allocating : pc = "kick" /\ d \in todo /\ NeedsVT(d)

\* A display that waits for its VT has not been started, and is not started by the
\* other ways to startDisplayP2(), startServer() and startRemoteLogin(), until it
\* has got the VT.  (Without a console mode.)
WaitersHaveNoSession ==
  \A d \in Displays :
    vt[d] = -1 => /\ session[d] = "none"
                  /\ disp[d].status \in {"notRunning", "reserve"} \/ Leaving(d)

\* Who promises a VT has one, is not the one that waits, and is in the list.
LeadersHaveVT ==
  \A d \in Displays :
    /\ follower[d] # None => vt[d] > 0 /\ follower[d] # d
    /\ disp[d].status = "absent" => vt[d] = 0

\* A VT is promised to a display that still waits, and waits for no other, so that
\* the hand-over takes no VT from it, unless a waiting display has been freed.
FollowersWait ==
  ~dangled => \A d \in Displays :
                /\ follower[d] # Freed
                /\ follower[d] \in Displays =>
                     /\ vt[follower[d]] = -1
                     /\ \A e \in Displays \ {d} : follower[e] # follower[d]

\* The inductive invariant of the VTs, for a kdmrc without ConsoleTTYs.
VTInv == VTTypeOK /\ AllocatingNeedsVT /\ WaitersHaveNoSession /\ LeadersHaveVT
         /\ FollowersWait

\* Two displays have the same VT only if that has been asked for in kdmrc: not even
\* while one of them is going away and the other already starts.  It takes that a
\* waiting display has not been freed, and that there are no more than two local
\* displays: allocateVT() passes over a zombie that has a follower already, and gives
\* its VT to a third display at once.
OneDisplayPerVT ==
  ~dangled => \A d, e \in Displays :
                d # e /\ vt[d] > 0 /\ vt[d] = vt[e] => \E x \in Displays : ReqVT[x] = vt[d]

\* A step that takes a VT away leaves no X server running on it.
LostVTsAreUnused ==
  ~dangled => \A d \in Displays : vt[d] > 0 /\ vt'[d] # vt[d] => server'[d] = "none"

\* A display keeps its VT as long as it has an X server, which runs on it: neither a
\* new allocation, nor a promise, nor the hand-over to it replaces the VT.
ServerKeepsVT == [][LostVTsAreUnused]_allVars

\* "on exit, hand VT to this display" (dm.h:273): each display that waits for a VT
\* is the follower of one that will hand it over.
PendingHasLeader ==
  \A d \in Displays : vt[d] = -1 => \E e \in Displays : follower[e] = d

=============================================================================
