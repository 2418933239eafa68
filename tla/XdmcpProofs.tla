---------------------------- MODULE XdmcpProofs ----------------------------
(***************************************************************************)
(* What Xdmcp does for every number of terminals, displays and session     *)
(* ids, whatever becomes of the packets: its steps are steps of the        *)
(* master, a session is begun once, and of the displays of a terminal only *)
(* the newest is not on its way out.                                       *)
(***************************************************************************)
EXTENDS Xdmcp, DisplayManagerProofs

-----------------------------------------------------------------------------
(* Session ids *)

\* What does not depend on the life of the displays.
XIds == XTypeOK /\ ProtosAreFresh /\ EntriesAreSessions

\* Initially no id has been given out.
LEMMA XIdsInit == XInit => XIds
<1> SUFFICES ASSUME XInit PROVE XIds
  OBVIOUS
<1>1. XTypeOK
  BY XdmcpAssumption DEF XInit, XTypeOK, Entries
<1>2. ProtosAreFresh
  BY DEF XInit, ProtosAreFresh
<1>3. EntriesAreSessions
  BY DEF XInit, EntriesAreSessions
<1> QED
  BY <1>1, <1>2, <1>3 DEF XIds

\* Displays that leave the list take their entries with them; nothing else changes.
LEMMA KeepEntriesIds ==
  ASSUME XIds, KeepEntries(entry), UNCHANGED <<lastId, proto, accepted, begun>>
  PROVE  XIds'
<1>1. \A d \in Displays : /\ entry'[d] \in {entry[d], NoEntry}
                          /\ disp'[d].status = "absent" => entry'[d] = NoEntry
  BY DEF KeepEntries
<1>2. XTypeOK'
  BY <1>1 DEF XIds, XTypeOK, KeepEntries, Entries
<1>3. ProtosAreFresh'
  BY DEF XIds, ProtosAreFresh
<1>4. EntriesAreSessions'
  BY <1>1 DEF XIds, EntriesAreSessions, Managed, NoEntry, XTypeOK, Entries
<1> QED
  BY <1>2, <1>3, <1>4 DEF XIds

\* A REQUEST gives its terminal a fresh id, or none.
LEMMA RequestIds ==
  ASSUME XIds, NEW c \in Clients, RecvRequest(c)
  PROVE  XIds'
<1>0. /\ lastId \in Nat /\ MaxId \in Nat
      /\ proto \in [Clients -> 0..lastId]
      /\ accepted \subseteq Clients \X (1..lastId)
      /\ begun \subseteq 1..lastId
  BY XdmcpAssumption DEF XIds, XTypeOK
<1>1. UNCHANGED <<disp, entry, begun>>
  BY DEF RecvRequest, OnlyAnswers
<1>2. CASE /\ \A b \in Clients : proto'[b] \in {0, proto[b]}
           /\ proto' \in [Clients -> 0..lastId]
           /\ UNCHANGED <<lastId, accepted>>
  <2>1. XTypeOK'
    BY <1>1, <1>2 DEF XIds, XTypeOK
  <2>2. ProtosAreFresh'
    BY <1>1, <1>2 DEF XIds, ProtosAreFresh
  <2>3. EntriesAreSessions'
    BY <1>1, <1>2 DEF XIds, EntriesAreSessions, Managed
  <2> QED
    BY <2>1, <2>2, <2>3 DEF XIds
<1>3. ASSUME lastId < MaxId, lastId' = lastId + 1,
             \A b \in Clients \ {c} : proto'[b] \in {0, proto[b]},
             proto'[c] \in {0, lastId'}, proto' \in [Clients -> 0..lastId'],
             \/ accepted' = accepted \cup {<<c, lastId'>>}
             \/ proto'[c] = 0 /\ accepted' = accepted
      PROVE  XIds'
  <2>1. XTypeOK'
    <3>1. accepted' \subseteq Clients \X (1..lastId')
      BY <1>0, <1>3
    <3>2. begun' \subseteq 1..lastId'
      BY <1>0, <1>1, <1>3
    <3> QED
      BY <1>0, <1>1, <1>3, <3>1, <3>2 DEF XIds, XTypeOK
  <2>2. ProtosAreFresh'
    <3>1. ASSUME NEW a \in Clients, NEW b \in Clients, NEW s \in 1..lastId',
                 <<a, s>> \in accepted', <<b, s>> \in accepted'
          PROVE  a = b
      <4>1. CASE s = lastId'
        BY <1>0, <1>3, <3>1, <4>1
      <4>2. CASE s # lastId'
        BY <1>0, <1>3, <3>1, <4>2 DEF XIds, ProtosAreFresh
      <4> QED
        BY <4>1, <4>2
    <3>2. ASSUME NEW b \in Clients, proto'[b] # 0
          PROVE  /\ <<b, proto'[b]>> \in accepted'
                 /\ \A s \in begun' : <<b, s>> \in accepted' => s < proto'[b]
      <4>1. CASE b = c
        BY <1>0, <1>1, <1>3, <3>2, <4>1
      <4>2. CASE b # c
        <5>1. proto'[b] = proto[b] /\ proto[b] # 0
          BY <1>3, <3>2, <4>2
        <5> QED
          BY <1>0, <1>1, <1>3, <4>2, <5>1 DEF XIds, ProtosAreFresh
      <4> QED
        BY <4>1, <4>2
    <3> QED
      BY <3>1, <3>2 DEF ProtosAreFresh
  <2>3. EntriesAreSessions'
    BY <1>1, <1>3 DEF XIds, EntriesAreSessions, Managed
  <2> QED
    BY <2>1, <2>2, <2>3 DEF XIds
<1>4. CASE proto[c] # 0
  BY <1>0, <1>2, <1>4 DEF RecvRequest, DisposeProto
<1>5. CASE proto[c] = 0 /\ UNCHANGED <<lastId, proto, accepted>>
  BY <1>0, <1>2, <1>5
<1>6. CASE proto[c] = 0 /\ ~UNCHANGED <<lastId, proto, accepted>>
  <2>1. lastId < MaxId /\ lastId' = lastId + 1
    BY <1>6 DEF RecvRequest
  <2>2. PICK expired \in SUBSET Clients :
          LET left == [b \in Clients |-> IF b \in expired THEN 0 ELSE proto[b]] IN
          \/ /\ proto' = [left EXCEPT ![c] = lastId']
             /\ accepted' = accepted \cup {<<c, lastId'>>}
          \/ proto' = left /\ UNCHANGED accepted
    BY <1>6 DEF RecvRequest
  <2>3. CASE accepted' = accepted \cup {<<c, lastId'>>}
             /\ proto' = [[b \in Clients |-> IF b \in expired THEN 0 ELSE proto[b]]
                            EXCEPT ![c] = lastId']
    BY <1>0, <1>3, <2>1, <2>3
  <2>4. CASE accepted' = accepted
             /\ proto' = [b \in Clients |-> IF b \in expired THEN 0 ELSE proto[b]]
    BY <1>0, <1>3, <1>6, <2>1, <2>4
  <2> QED
    BY <2>2, <2>3, <2>4
<1> QED
  BY <1>4, <1>5, <1>6

\* A MANAGE that is honoured turns the id of its protoDisplay into a session.
LEMMA HonouredIds ==
  ASSUME XIds, NEW c \in Clients, NEW s \in KnownIds(c), NEW d \in Transient,
         ManageHonoured(c, s, d)
  PROVE  XIds'
<1>0. /\ proto \in [Clients -> 0..lastId] /\ proto[c] = s /\ s # 0
      /\ accepted \subseteq Clients \X (1..lastId)
      /\ entry \in [Displays -> Entries]
      /\ lastId \in 0..MaxId /\ MaxId \in Nat /\ d \in Displays
      /\ UNCHANGED <<lastId, accepted>>
  BY XdmcpAssumption DEF XIds, XTypeOK, ManageHonoured, Manages, Transient
<1>1. s \in 1..lastId /\ <<c, s>> \in accepted
  BY <1>0 DEF KnownIds
<1>2. CASE KeepEntries(entry) /\ UNCHANGED <<proto, begun>>
  BY <1>0, <1>2, KeepEntriesIds
<1>3. CASE /\ FreeEntry(StopAll(FindByName(c), "remove"), d)
           /\ disp' = [StopAll(FindByName(c), "remove") EXCEPT ![d] = NewDisplay(d)]
           /\ KeepEntries([entry EXCEPT ![d] = [client |-> c, id |-> s]])
           /\ DisposeProto(c)
           /\ begun' = begun \cup {s}
  <2>1. \A e \in Displays \ {d} : /\ entry'[e] \in {entry[e], NoEntry}
                                  /\ disp'[e].status = "absent" => entry'[e] = NoEntry
    BY <1>0, <1>3 DEF KeepEntries
  <2>2. entry'[d] = [client |-> c, id |-> s] /\ d \in Managed'
    <3>1. disp'[d] = NewDisplay(d)
      BY <1>0, <1>3 DEF StopAll
    <3>2. NewDisplay(d).status # "absent"
      BY NewDisplayOK
    <3> QED
      BY <1>0, <1>3, <3>1, <3>2 DEF KeepEntries, Managed
  <2>3. [client |-> c, id |-> s] \in Entries /\ NoEntry \in Entries
    BY <1>0, <1>1 DEF Entries
  <2>4. s \notin begun
    BY <1>0, <1>1 DEF XIds, ProtosAreFresh
  <2>5. XTypeOK'
    <3>1. entry' \in [Displays -> Entries]
      BY <1>0, <1>3, <2>1, <2>2, <2>3 DEF KeepEntries
    <3>2. proto' \in [Clients -> 0..lastId']
      BY <1>0, <1>3 DEF DisposeProto
    <3>3. begun' \subseteq 1..lastId'
      BY <1>0, <1>1, <1>3 DEF XIds, XTypeOK
    <3> QED
      BY <1>0, <3>1, <3>2, <3>3 DEF XTypeOK
  <2>6. ProtosAreFresh'
    <3>1. ASSUME NEW b \in Clients, proto'[b] # 0
          PROVE  /\ <<b, proto'[b]>> \in accepted'
                 /\ \A r \in begun' : <<b, r>> \in accepted' => r < proto'[b]
      <4>1. b # c /\ proto'[b] = proto[b]
        BY <1>0, <1>3, <3>1 DEF DisposeProto
      <4>2. <<b, s>> \notin accepted
        BY <1>1, <4>1 DEF XIds, ProtosAreFresh
      <4> QED
        BY <1>0, <1>3, <3>1, <4>1, <4>2 DEF XIds, ProtosAreFresh
    <3> QED
      BY <1>0, <3>1 DEF XIds, ProtosAreFresh
  <2>7. \A e \in Displays : entry[e] # NoEntry => entry[e].id \in begun /\ entry[e].id # 0
    <3>1. begun \subseteq 1..lastId /\ lastId \in Nat
      BY <1>0 DEF XIds, XTypeOK
    <3>2. \A e \in Displays : entry[e] # NoEntry => entry[e].id \in begun
      BY DEF XIds, EntriesAreSessions
    <3>3. 0 \notin begun
      BY <3>1
    <3> QED
      BY <3>2, <3>3
  <2>8. EntriesAreSessions'
    <3> SUFFICES ASSUME NEW e \in Displays, entry'[e] # NoEntry
                 PROVE  /\ e \in Managed' \cap Transient
                        /\ entry'[e].id \in begun'
                        /\ <<entry'[e].client, entry'[e].id>> \in accepted'
                        /\ \A f \in Displays \ {e} : entry'[f].id # entry'[e].id
      BY DEF EntriesAreSessions
    <3>1. CASE e = d
      <4>1. \A f \in Displays \ {d} : entry[f].id # s
        BY <1>0, <2>4, <2>7 DEF NoEntry
      <4> QED
        BY <1>0, <1>1, <1>3, <2>1, <2>2, <3>1, <4>1 DEF NoEntry
    <3>2. CASE e # d
      <4>1. entry'[e] = entry[e] /\ e \in Managed'
        BY <2>1, <3>2 DEF Managed
      <4>2. entry[e].id # s /\ entry[e].id # 0
        BY <1>0, <2>4, <2>7, <3>2, <4>1
      <4> QED
        BY <1>0, <1>3, <2>1, <2>2, <3>2, <4>1, <4>2 DEF XIds, EntriesAreSessions, NoEntry
    <3> QED
      BY <3>1, <3>2
  <2> QED
    BY <2>5, <2>6, <2>8 DEF XIds
<1> QED
  BY <1>2, <1>3 DEF ManageHonoured

\* The session ids stay as they should, whatever the packets and the master do.
LEMMA XIdsStep == XIds /\ [XNext]_xVars => XIds'
<1> SUFFICES ASSUME XIds, [XNext]_xVars PROVE XIds'
  OBVIOUS
<1>1. CASE MasterSteps
  BY <1>1, KeepEntriesIds DEF MasterSteps
<1>2. ASSUME UNCHANGED <<lastId, proto, accepted, entry, begun, disp>> PROVE XIds'
  BY <1>2 DEF XIds, XTypeOK, ProtosAreFresh, EntriesAreSessions, Managed
<1>3. ASSUME NEW c \in Clients, RecvRequest(c) PROVE XIds'
  BY <1>3, RequestIds
<1>4. ASSUME NEW c \in Clients, NEW s \in KnownIds(c), RecvManage(c, s) PROVE XIds'
  <2>1. CASE ManageIgnored(c, s)
    BY <1>2, <2>1 DEF ManageIgnored, OnlyAnswers
  <2> QED
    BY <1>4, <2>1, HonouredIds DEF RecvManage
<1>5. CASE RecvOther
  BY <1>2, <1>5 DEF RecvOther, OnlyAnswers
<1>6. CASE UNCHANGED xVars
  BY <1>2, <1>6 DEF xVars, xdmcpVars, vars, masterVars
<1> QED
  BY <1>1, <1>3, <1>4, <1>5, <1>6 DEF XNext

-----------------------------------------------------------------------------
(* The master does not see the session ids *)

\* findDisplayByName() finds one display, and none of ours.
LEMMA FoundByName ==
  ASSUME XIds, NEW c \in Clients
  PROVE  FindByName(c) \in {{}} \cup {{e} : e \in Managed \ Local}
<1>1. (Transient \cup Command) \cap Local = {}
  BY ConfigAssumption DEF Transient
<1>2. CASE Sessions(c) # {}
  <2>1. \A d, e \in Newest(c) : d = e
    <3> SUFFICES ASSUME NEW d \in Newest(c), NEW e \in Newest(c), d # e PROVE FALSE
      OBVIOUS
    <3>1. d \in Displays /\ e \in Displays /\ entry[d].client = c /\ entry[e].client = c
      BY DEF Newest, Sessions, Managed
    <3>2. entry[d] \in Entries /\ entry[e] \in Entries
      BY <3>1 DEF XIds, XTypeOK
    <3>3. entry[d].id \in Nat /\ entry[e].id \in Nat
      BY <3>2, XdmcpAssumption DEF Entries, NoEntry
    <3>4. entry[d].id = entry[e].id
      BY <3>3 DEF Newest
    <3>5. entry[d] = NoEntry \/ entry[d] # NoEntry
      OBVIOUS
    <3>6. CASE entry[d] # NoEntry
      BY <3>1, <3>4, <3>6 DEF XIds, EntriesAreSessions
    <3>7. CASE entry[e] # NoEntry
      BY <3>1, <3>4, <3>7 DEF XIds, EntriesAreSessions
    <3>8. CASE entry[d] = NoEntry /\ entry[e] = NoEntry
      BY <3>1, <3>8, XdmcpAssumption DEF NoEntry
    <3> QED
      BY <3>6, <3>7, <3>8
  <2>2. Newest(c) \subseteq Managed \ Local
    BY <1>1 DEF Newest, Sessions
  <2>3. CASE Newest(c) = {}
    BY <1>2, <2>3 DEF FindByName
  <2>4. CASE Newest(c) # {}
    <3>1. PICK d : d \in Newest(c)
      BY <2>4
    <3>2. Newest(c) = {d} /\ d \in Managed \ Local
      BY <2>1, <2>2, <3>1
    <3> QED
      BY <1>2, <3>2 DEF FindByName
  <2> QED
    BY <2>3, <2>4
<1>3. CASE Sessions(c) = {}
  <2>1. Namesake[c] \in Command \cup {None}
    BY XdmcpAssumption
  <2>2. CASE Namesake[c] \in Managed
    <3>1. {Namesake[c]} \cap Managed = {Namesake[c]} /\ Namesake[c] \in Managed \ Local
      BY <1>1, <2>1, <2>2, ConfigAssumption DEF Managed
    <3> QED
      BY <1>3, <3>1 DEF FindByName
  <2>3. CASE Namesake[c] \notin Managed
    BY <1>3, <2>3 DEF FindByName
  <2> QED
    BY <2>2, <2>3
<1> QED
  BY <1>2, <1>3

\* A packet that leaves the displays alone is one of those of the master.
LEMMA AnswersStep ==
  ASSUME TypeOK, listening, OnlyAnswers
  PROVE  Next
<1>1. PICK d : d \in Transient
  BY XdmcpAssumption
<1>2. StopAll({}, "remove") = disp
  BY DEF StopAll, TypeOK
<1>3. AbortStartServer({})
  BY DEF AbortStartServer, OnlyAnswers
<1>4. XdmcpManage(d)
  BY <1>1, <1>2, <1>3 DEF XdmcpManage, OnlyAnswers
<1>5. d \in Displays
  BY <1>1 DEF Transient
<1> QED
  BY <1>4, <1>5 DEF Next, Packets

\* A MANAGE that is honoured is the arrival of a display.
LEMMA HonouredStep ==
  ASSUME XIds, NEW c \in Clients, NEW s, NEW d \in Transient, ManageHonoured(c, s, d)
  PROVE  Next
<1>1. FindByName(c) \in {{}} \cup {{e} : e \in Managed \ Local}
  BY FoundByName
<1>2. XdmcpManage(d)
  BY <1>1 DEF ManageHonoured, XdmcpManage, FreeEntry
<1>3. d \in Displays
  BY DEF Transient
<1> QED
  BY <1>2, <1>3 DEF Next, Packets

\* Each step of Xdmcp is one of the master.
LEMMA XStep == TypeOK /\ XIds /\ [XNext]_xVars => [Next]_vars
<1> SUFFICES ASSUME TypeOK, XIds, [XNext]_xVars PROVE [Next]_vars
  OBVIOUS
<1>1. CASE MasterSteps
  BY <1>1 DEF MasterSteps, Next
<1>2. ASSUME NEW c \in Clients, RecvRequest(c) PROVE Next
  BY <1>2, AnswersStep DEF RecvRequest
<1>3. ASSUME NEW c \in Clients, NEW s, RecvManage(c, s) PROVE Next
  BY <1>3, AnswersStep, HonouredStep DEF RecvManage, ManageIgnored
<1>4. CASE RecvOther
  BY <1>4, AnswersStep DEF RecvOther
<1>5. CASE UNCHANGED xVars
  BY <1>5 DEF xVars
<1> QED
  BY <1>1, <1>2, <1>3, <1>4, <1>5 DEF XNext

\* The daemon with its XDMCP packets is the master of DisplayManager: all that has
\* been proved of it holds here.
THEOREM XImplementsMaster == XSpec => Spec
<1>1. XInit => TypeOK /\ XIds
  BY TypeInit, XIdsInit DEF XInit
<1>2. TypeOK /\ XIds /\ [XNext]_xVars => TypeOK' /\ XIds'
  BY XStep, TypeStep, XIdsStep
<1>3. XSpec => [](TypeOK /\ XIds)
  BY <1>1, <1>2, PTL DEF XSpec
<1>4. XInit => Init
  BY DEF XInit
<1> QED
  BY <1>3, <1>4, XStep, PTL DEF XSpec, Spec

-----------------------------------------------------------------------------
(* One session of a terminal *)

\* What stopDisplay() does to the displays in the list.
LEMMA StopAllLeaves ==
  ASSUME TypeOK, NEW S, NEW e \in Displays
  PROVE  LET r == StopAll(S, "remove")[e] IN
         /\ e \in S => Leaves(r)
         /\ e \notin S => r = disp[e]
<1>1. disp[e] \in DisplayRecords
  BY DEF TypeOK
<1> QED
  BY <1>1, StoppedLeaves DEF StopAll

\* A display that is none of kdmrc and is being removed is removed.
ForeignersLeave ==
  \A d \in Displays \ Config : Leaving(d) => disp'[d].status = "absent" \/ Leaving(d)'

\* Where a display of a terminal comes from.
LEMMA ForeignersOnly ==
  /\ \A c \in Clients : \A d \in Sessions(c) \cup Sessions(c)' : d \in Displays \ Config
  /\ \A c \in Clients : Namesake[c] \in Displays => Namesake[c] \in Displays \ Config
BY ConfigAssumption, XdmcpAssumption DEF Sessions, Managed, Transient

\* A step in which displays only leave the list or go on leaving it.
LEMMA OlderStep ==
  ASSUME XIds, OlderSessionsLeave, ForeignersLeave, KeepEntries(entry),
         \A b \in Clients : Sessions(b) # {} /\ Namesake[b] \in Managed' =>
           Namesake[b] \in Managed
  PROVE  OlderSessionsLeave'
<1> SUFFICES ASSUME NEW b \in Clients, NEW e \in Sessions(b)'
             PROVE  /\ e \in Newest(b)' \/ Leaving(e)'
                    /\ Namesake[b] \in Managed' => Leaving(Namesake[b])'
  BY DEF OlderSessionsLeave
<1>1. b # None
  BY XdmcpAssumption
<1>2. \A x \in Sessions(b)' : x \in Sessions(b) /\ entry'[x] = entry[x]
  <2> SUFFICES ASSUME NEW x \in Sessions(b)' PROVE x \in Sessions(b) /\ entry'[x] = entry[x]
    OBVIOUS
  <2>1. x \in Displays /\ x \in Transient /\ entry'[x].client = b
    BY DEF Sessions, Managed
  <2>2. entry'[x] # NoEntry
    BY <1>1, <2>1 DEF NoEntry
  <2>3. entry'[x] = entry[x]
    BY <2>1, <2>2 DEF KeepEntries
  <2> QED
    BY <2>1, <2>2, <2>3 DEF XIds, EntriesAreSessions, Sessions
<1>3. e \in Displays /\ disp'[e].status # "absent"
  BY DEF Sessions, Managed
<1>4. e \in Newest(b) \/ Leaving(e)
  BY <1>2 DEF OlderSessionsLeave
<1>5. CASE e \in Newest(b)
  <2>1. e \in Newest(b)'
    BY <1>2, <1>5 DEF Newest
  <2>2. Namesake[b] \in Managed' => Leaving(Namesake[b])'
    BY <1>2, ForeignersOnly DEF OlderSessionsLeave, ForeignersLeave, Managed
  <2> QED
    BY <2>1, <2>2
<1>6. CASE Leaving(e)
  <2>1. Leaving(e)'
    BY <1>3, <1>6, ForeignersOnly DEF ForeignersLeave
  <2>2. Namesake[b] \in Managed' => Leaving(Namesake[b])'
    BY <1>2, ForeignersOnly DEF OlderSessionsLeave, ForeignersLeave, Managed
  <2> QED
    BY <2>1, <2>2
<1> QED
  BY <1>4, <1>5, <1>6

\* A MANAGE that is honoured.
LEMMA OlderHonoured ==
  ASSUME TypeOK, XIds, OlderSessionsLeave, ForeignersLeave,
         NEW c \in Clients, NEW s \in KnownIds(c), NEW d \in Transient,
         ManageHonoured(c, s, d)
  PROVE  OlderSessionsLeave'
<1> DEFINE S == FindByName(c)
<1>0. /\ \A e \in Displays : e \in S => Leaves(StopAll(S, "remove")[e])
      /\ \A e \in Displays : e \notin S => StopAll(S, "remove")[e] = disp[e]
  BY StopAllLeaves
<1>1. CASE disp' = StopAll(S, "remove") /\ KeepEntries(entry)
  <2>1. \A e \in Displays : disp'[e].status # "absent" => disp[e].status # "absent"
    <3>1. \A e \in S : disp[e].status # "absent"
      BY FoundByName DEF Managed
    <3> QED
      BY <1>0, <1>1, <3>1
  <2> QED
    BY <1>1, <2>1, OlderStep DEF Managed
<1>2. CASE /\ FreeEntry(StopAll(S, "remove"), d)
           /\ disp' = [StopAll(S, "remove") EXCEPT ![d] = NewDisplay(d)]
           /\ KeepEntries([entry EXCEPT ![d] = [client |-> c, id |-> s]])
  <2>0. d \in Displays /\ d \notin Command
    BY DEF Transient
  <2>1. \A e \in Displays \ {d} : disp'[e] = StopAll(S, "remove")[e]
    BY <1>2, <2>0 DEF StopAll
  <2>2. entry \in [Displays -> Entries] /\ s # 0 /\ proto[c] = s
    BY DEF XIds, XTypeOK, ManageHonoured, Manages
  <2>3. \A e \in Displays \ {d} : entry'[e] \in {entry[e], NoEntry}
    BY <1>2, <2>0, <2>2 DEF KeepEntries
  <2>4. entry'[d] \in {[client |-> c, id |-> s], NoEntry}
    BY <1>2, <2>0, <2>2 DEF KeepEntries
  <2>5. \A b \in Clients : \A x \in Sessions(b)' :
          x # d => x \in Sessions(b) /\ entry'[x] = entry[x]
    <3> SUFFICES ASSUME NEW b \in Clients, NEW x \in Sessions(b)', x # d
                 PROVE  x \in Sessions(b) /\ entry'[x] = entry[x]
      OBVIOUS
    <3>1. x \in Displays /\ x \in Transient /\ entry'[x].client = b /\ b # None
      BY XdmcpAssumption DEF Sessions, Managed
    <3>2. entry'[x] # NoEntry
      BY <3>1 DEF NoEntry
    <3>3. entry'[x] = entry[x]
      BY <2>3, <3>1, <3>2
    <3> QED
      BY <3>1, <3>2, <3>3 DEF XIds, EntriesAreSessions, Sessions
  <2>6. \A b \in Clients : d \in Sessions(b)' => b = c /\ entry'[d].id = s
    <3> SUFFICES ASSUME NEW b \in Clients, d \in Sessions(b)' PROVE b = c /\ entry'[d].id = s
      OBVIOUS
    <3>1. entry'[d].client = b /\ b # None
      BY XdmcpAssumption DEF Sessions
    <3>2. entry'[d] # NoEntry
      BY <3>1 DEF NoEntry
    <3> QED
      BY <2>4, <3>1, <3>2
  <2>7. \A x \in Sessions(c) : entry[x].id < s
    <3> SUFFICES ASSUME NEW x \in Sessions(c) PROVE entry[x].id < s
      OBVIOUS
    <3>1. x \in Displays /\ entry[x].client = c /\ c # None
      BY XdmcpAssumption DEF Sessions, Managed
    <3>2. entry[x] # NoEntry
      BY <3>1 DEF NoEntry
    <3>3. entry[x].id \in begun /\ <<c, entry[x].id>> \in accepted
      BY <3>1, <3>2 DEF XIds, EntriesAreSessions
    <3> QED
      BY <2>2, <3>3 DEF XIds, ProtosAreFresh
  <2>8. ASSUME NEW b \in Clients, NEW e \in Sessions(b)' PROVE e \in Newest(b)' \/ Leaving(e)'
    <3>1. CASE e = d
      <4>1. b = c /\ entry'[d].id = s
        BY <2>6, <2>8, <3>1
      <4>2. s \in Nat
        BY <2>2, XdmcpAssumption DEF XIds, XTypeOK
      <4>3. \A x \in Sessions(c)' : entry'[x].id <= s
        <5> SUFFICES ASSUME NEW x \in Sessions(c)' PROVE entry'[x].id <= s
          OBVIOUS
        <5>1. CASE x = d
          BY <4>1, <4>2, <5>1
        <5>2. CASE x # d
          <6>1. x \in Sessions(c) /\ entry'[x] = entry[x] /\ x \in Displays
            BY <2>5, <5>2 DEF Sessions, Managed
          <6>2. entry[x].id \in Nat
            BY <2>2, <6>1, XdmcpAssumption DEF Entries, NoEntry
          <6> QED
            BY <2>7, <4>2, <6>1, <6>2
        <5> QED
          BY <5>1, <5>2
      <4> QED
        BY <2>8, <3>1, <4>1, <4>3 DEF Newest
    <3>2. CASE e # d
      <4>1. e \in Sessions(b) /\ e \in Displays /\ disp'[e].status # "absent"
        BY <2>5, <2>8, <3>2 DEF Sessions, Managed
      <4>2. CASE Leaving(e)
        BY <4>1, <4>2, ForeignersOnly DEF ForeignersLeave
      <4>3. CASE e \in Newest(b) /\ b = c
        <5>1. e \in S
          BY <4>1, <4>3 DEF FindByName
        <5> QED
          BY <1>0, <2>1, <3>2, <4>1, <5>1 DEF Leaving, Leaves
      <4>4. CASE e \in Newest(b) /\ b # c
        <5>1. d \notin Sessions(b)'
          BY <2>6, <4>4
        <5> QED
          BY <2>5, <2>8, <3>2, <4>4, <5>1 DEF Newest
      <4> QED
        BY <4>1, <4>2, <4>3, <4>4 DEF OlderSessionsLeave
    <3> QED
      BY <3>1, <3>2
  <2>9. ASSUME NEW b \in Clients, NEW e \in Sessions(b)', Namesake[b] \in Managed'
        PROVE  Leaving(Namesake[b])'
    <3>1. Namesake[b] # d /\ Namesake[b] \in Displays
      BY <2>0, <2>9, ConfigAssumption, XdmcpAssumption DEF Managed
    <3>2. disp'[Namesake[b]].status # "absent"
      BY <2>9 DEF Managed
    <3>3. CASE Sessions(b) # {}
      <4>1. Namesake[b] \in Managed
        <5>1. Namesake[b] \in S => disp[Namesake[b]].status # "absent"
          BY FoundByName DEF Managed
        <5> QED
          BY <1>0, <2>1, <3>1, <3>2, <5>1 DEF Managed
      <4>2. Leaving(Namesake[b])
        BY <3>3, <4>1 DEF OlderSessionsLeave
      <4> QED
        BY <3>1, <3>2, <4>2, ForeignersOnly DEF ForeignersLeave
    <3>4. CASE Sessions(b) = {}
      <4>1. e = d /\ b = c
        BY <2>5, <2>6, <2>9, <3>4
      <4>2. Namesake[b] \in S \/ Namesake[b] \notin Managed
        BY <3>4, <4>1 DEF FindByName
      <4>3. Namesake[b] \notin Managed => Namesake[b] \notin S
        BY <3>1, FoundByName DEF Managed
      <4>4. Namesake[b] \in S
        BY <1>0, <2>1, <3>1, <3>2, <4>2, <4>3 DEF Managed
      <4> QED
        BY <1>0, <2>1, <3>1, <3>2, <4>4 DEF Leaving, Leaves
    <3> QED
      BY <3>3, <3>4
  <2> QED
    BY <2>8, <2>9 DEF OlderSessionsLeave
<1> QED
  BY <1>1, <1>2 DEF ManageHonoured

\* XInv is inductive, beside the invariant of the master.
LEMMA XInvStep == IInv /\ XInv /\ [XNext]_xVars => XInv'
<1> SUFFICES ASSUME IInv, XInv, [XNext]_xVars PROVE XInv'
  OBVIOUS
<1>0. TypeOK /\ XIds /\ OlderSessionsLeave
  BY IInvParts DEF XInv, XIds
<1>1. ForeignersLeave
  BY <1>0, XStep, RemovalStep, ConfigAssumption DEF RemovalGoesOn, CalledBack, ForeignersLeave
<1>2. XIds'
  BY <1>0, XIdsStep
<1>3. ASSUME UNCHANGED <<disp, entry>> PROVE OlderSessionsLeave'
  BY <1>0, <1>3 DEF OlderSessionsLeave, Sessions, Newest, Managed, Leaving
<1>4. ASSUME MasterSteps PROVE OlderSessionsLeave'
  <2>1. \A b \in Clients : Namesake[b] \in Managed => Namesake[b] \in Command
    BY XdmcpAssumption, ConfigAssumption DEF Managed
  <2>2. \A b \in Clients : Sessions(b) # {} /\ Namesake[b] \in Managed' =>
          Namesake[b] \in Managed
    <3> SUFFICES ASSUME NEW b \in Clients, Sessions(b) # {}, Namesake[b] \in Managed'
                 PROVE  Namesake[b] \in Managed
      OBVIOUS
    <3>1. Namesake[b] \in Displays /\ disp'[Namesake[b]].status # "absent"
      BY DEF Managed
    <3>2. Namesake[b] \in Command
      BY <3>1, XdmcpAssumption, ConfigAssumption
    <3> QED
      BY <1>4, <3>1, <3>2 DEF MasterSteps, NamesAreFree, Managed
  <2> QED
    BY <1>0, <1>1, <1>4, <2>2, OlderStep DEF MasterSteps
<1>5. ASSUME NEW c \in Clients, RecvRequest(c) PROVE OlderSessionsLeave'
  BY <1>3, <1>5 DEF RecvRequest, OnlyAnswers
<1>6. ASSUME NEW c \in Clients, NEW s \in KnownIds(c), RecvManage(c, s)
      PROVE  OlderSessionsLeave'
  BY <1>0, <1>1, <1>3, <1>6, OlderHonoured DEF RecvManage, ManageIgnored, OnlyAnswers
<1>7. ASSUME RecvOther PROVE OlderSessionsLeave'
  BY <1>3, <1>7 DEF RecvOther, OnlyAnswers
<1>8. ASSUME UNCHANGED xVars PROVE OlderSessionsLeave'
  BY <1>3, <1>8 DEF xVars, xdmcpVars, vars, masterVars
<1>9. OlderSessionsLeave'
  BY <1>4, <1>5, <1>6, <1>7, <1>8 DEF XNext
<1> QED
  BY <1>2, <1>9 DEF XInv, XIds

\* Initially there is no session.
LEMMA XInvInit == XInit => XInv
<1> SUFFICES ASSUME XInit PROVE OlderSessionsLeave
  BY XIdsInit DEF XInv, XIds
<1>1. \A c \in Clients : Sessions(c) = {}
  BY XdmcpAssumption DEF XInit, Sessions, Managed, NoEntry
<1> QED
  BY <1>1 DEF OlderSessionsLeave

\* The invariant of the session ids holds for any number of terminals.
THEOREM XInvariance ==
  ASSUME ConsoleOfTwo
  PROVE  XSpec => []XInv
<1>1. XSpec => []IInv
  BY Invariance, XImplementsMaster, PTL
<1>2. IInv /\ XInv /\ [XNext]_xVars => XInv'
  BY XInvStep
<1> QED
  BY <1>1, <1>2, XInvInit, PTL DEF XSpec

\* A KEEPALIVE is answered with a yes for one session of a terminal only.
THEOREM OneSession ==
  ASSUME ConsoleOfTwo
  PROVE  XSpec => []OneSessionAnswers
<1>1. XInv => OneSessionAnswers
  <2> SUFFICES ASSUME XInv, NEW c \in Clients, NEW r \in 1..lastId, NEW s \in 1..lastId,
                      <<c, r>> \in accepted, <<c, s>> \in accepted,
                      AnswersRunning(r), AnswersRunning(s)
               PROVE  r = s
    BY DEF OneSessionAnswers
  <2>1. lastId \in Nat
    BY XdmcpAssumption DEF XInv, XTypeOK
  <2>2. ASSUME NEW t \in 1..lastId, <<c, t>> \in accepted, AnswersRunning(t)
        PROVE  \E d \in Newest(c) : entry[d].id = t
    <3>1. PICK d \in Managed \cap Transient : entry[d].id = t /\ disp[d].status = "running"
      BY <2>2 DEF AnswersRunning
    <3>2. d \in Displays /\ entry[d] # NoEntry
      BY <2>1, <2>2, <3>1 DEF Managed, NoEntry
    <3>3. <<entry[d].client, t>> \in accepted /\ entry[d].client \in Clients
      BY <3>1, <3>2 DEF XInv, EntriesAreSessions, XTypeOK, Entries
    <3>4. entry[d].client = c
      BY <2>2, <3>3 DEF XInv, ProtosAreFresh
    <3>5. d \in Sessions(c) /\ ~Leaving(d)
      BY <3>1, <3>4 DEF Sessions, Leaving
    <3> QED
      BY <3>1, <3>5 DEF XInv, OlderSessionsLeave
  <2>3. PICK d \in Newest(c) : entry[d].id = r
    BY <2>2
  <2>4. PICK e \in Newest(c) : entry[e].id = s
    BY <2>2
  <2> QED
    BY <2>1, <2>3, <2>4 DEF Newest
<1> QED
  BY <1>1, XInvariance, PTL

\* A repeated or delayed MANAGE starts and stops nothing, in every configuration.
THEOREM OnceBegun == XSpec => DuplicatesIgnored
<1>1. XInit => TypeOK /\ XIds
  BY TypeInit, XIdsInit DEF XInit
<1>2. TypeOK /\ XIds /\ [XNext]_xVars => TypeOK' /\ XIds'
  BY XStep, TypeStep, XIdsStep
<1>3. XIds => RepeatsAreHarmless
  <2> SUFFICES ASSUME XIds, NEW c \in Clients, NEW s \in begun, RecvManage(c, s)
               PROVE  UNCHANGED <<disp, entry>>
    BY DEF RepeatsAreHarmless
  <2>1. CASE ManageIgnored(c, s)
    BY <2>1 DEF ManageIgnored, OnlyAnswers
  <2>2. ASSUME NEW d \in Transient, ManageHonoured(c, s, d) PROVE FALSE
    <3>1. proto[c] = s /\ s # 0
      BY <2>2 DEF ManageHonoured, Manages
    <3>2. s < s
      BY <3>1 DEF XIds, ProtosAreFresh
    <3>3. s \in Nat
      BY XdmcpAssumption DEF XIds, XTypeOK
    <3> QED
      BY <3>2, <3>3
  <2> QED
    BY <2>1, <2>2 DEF RecvManage
<1> QED
  BY <1>1, <1>2, <1>3, PTL DEF XSpec, DuplicatesIgnored

=============================================================================
