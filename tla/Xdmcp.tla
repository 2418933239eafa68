------------------------------- MODULE Xdmcp -------------------------------
(***************************************************************************)
(* The XDMCP server of the master (xdmcp.c, protodpy.c, dpylist.c).  An X  *)
(* terminal sends REQUEST, is answered ACCEPT with a session id, sends     *)
(* MANAGE with that id and gets a display, which it keeps asking after     *)
(* with KEEPALIVE.  Between ACCEPT and MANAGE the master remembers the     *)
(* terminal as a protoDisplay.                                             *)
(*                                                                         *)
(* The packets are UDP: each may be lost, duplicated, delayed and          *)
(* overtaken, and a terminal may be switched off and on again at any time. *)
(* So a REQUEST can always arrive, and a MANAGE with any id that was ever  *)
(* accepted for its sender, any number of times; id 0 stands for those of  *)
(* an earlier incarnation of the manager.  Whether the master's answers    *)
(* arrive makes no difference then, and they are not kept.                 *)
(*                                                                         *)
(* A terminal is its address and display number.  Terminals have different *)
(* names.  The module adds the protoDisplays to the state of               *)
(* DisplayManager, which sees a display come and another one of its name   *)
(* go (XdmcpManage).                                                       *)
(***************************************************************************)
EXTENDS DisplayManager

CONSTANTS
  Clients,   \* X terminals
  Namesake,  \* for each of them the display of the "manage" command with its name
  MaxId      \* bound: the number of session ids

ASSUME XdmcpAssumption ==
  /\ Transient # {}
  /\ MaxId \in Nat
  /\ None \notin Clients
  /\ Namesake \in [Clients -> Command \cup {None}]
  /\ \A b, c \in Clients : b # c /\ Namesake[b] # None => Namesake[b] # Namesake[c]

VARIABLES
  lastId,    \* globalSessionID
  proto,     \* the session id in the protoDisplay of each terminal, 0 for none
  accepted,  \* the <<terminal, id>> of every ACCEPT sent
  entry,     \* terminal and session id of each display made for one
  begun      \* history: session ids that have got a display

xdmcpVars == <<lastId, proto, accepted, entry, begun>>
xVars     == <<vars, xdmcpVars>>

NoEntry == [client |-> None, id |-> 0]
Entries == {NoEntry} \cup [client : Clients, id : 1..MaxId]

-----------------------------------------------------------------------------
(* Looking displays up.  New ones are put at the head of the list, so that  *)
(* the one found is the newest: of one terminal, that with the highest id.  *)

\* Displays in the list that were made for terminal c.
Sessions(c) == {d \in Managed \cap Transient : entry[d].client = c}

\* findDisplayByAddress()
Newest(c) == {d \in Sessions(c) : \A e \in Sessions(c) : entry[e].id <= entry[d].id}

\* Mutation: the list is searched from its tail.
FindOldest(c) ==
  IF Namesake[c] \in Managed THEN {Namesake[c]}
  ELSE {d \in Sessions(c) : \A e \in Sessions(c) : entry[d].id <= entry[e].id}

\* findDisplayByName(): a display of the manage command is older than those made by
\* packets, as the command refuses a name that is in the list.
FindByName(c) ==
  IF Sessions(c) # {} THEN Newest(c) ELSE {Namesake[c]} \cap Managed

\* Entries of displays that have left the list are gone with them.
KeepEntries(list) ==
  entry' = [d \in Displays |-> IF disp'[d].status = "absent" THEN NoEntry ELSE list[d]]

-----------------------------------------------------------------------------
(* Packets *)

\* A packet that leaves the displays alone.
OnlyAnswers ==
  /\ Dispatch
  /\ UNCHANGED <<todo, disp, startingServer, serverTimer, stopping, sd, listening,
                 ttyWatch, childVars, entry, begun>>

\* Mutation: a protoDisplay outlives its MANAGE.
KeepProto(c) == UNCHANGED proto

\* disposeProtoDisplay()
DisposeProto(c) == proto' = [proto EXCEPT ![c] = 0]

\* A REQUEST of terminal c.  Its protoDisplay is used again; otherwise it gets a new
\* one with a new id, while those of other terminals may time out.  Either may be
\* declined for want of a valid address, authorisation, authentication or memory.
RecvRequest(c) ==
  /\ listening
  /\ OnlyAnswers
  /\ IF proto[c] # 0
     THEN /\ \/ UNCHANGED proto
             \/ DisposeProto(c)
          /\ UNCHANGED <<lastId, accepted>>
     ELSE \/ UNCHANGED <<lastId, proto, accepted>>
          \/ /\ lastId < MaxId
             /\ lastId' = lastId + 1
             /\ \E expired \in SUBSET Clients :
                  LET left == [b \in Clients |-> IF b \in expired THEN 0 ELSE proto[b]] IN
                  \/ /\ proto' = [left EXCEPT ![c] = lastId']
                     /\ accepted' = accepted \cup {<<c, lastId'>>}
                  \/ proto' = left /\ UNCHANGED accepted

\* Mutation: the entry of a display that is still being removed is used again.
AnyEntry(list, d) == d \in Transient

\* newDisplay() finds memory for d.
FreeEntry(list, d) == d \in Transient /\ list[d].status = "absent"

\* Mutation: a MANAGE whose id is not the one of the protoDisplay is let in.
ManagesAny(c, s) == s # 0

\* The MANAGE of terminal c that its protoDisplay waits for.
Manages(c, s) == s # 0 /\ proto[c] = s

\* A MANAGE taken for the duplicate of the one that started the newest session of c.
IsDuplicate(c, s) == proto[c] = 0 /\ \E d \in Newest(c) : entry[d].id = s

\* A MANAGE of terminal c, with session id s, that starts nothing: ignored if
\* IsDuplicate(c, s), and otherwise refused.
ManageIgnored(c, s) ==
  /\ listening
  /\ ~Manages(c, s)
  /\ OnlyAnswers
  /\ UNCHANGED <<lastId, proto, accepted>>

\* A MANAGE that is honoured: the newest display of the same name is stopped and, if
\* there is memory, d takes its place.  If not, the protoDisplay stays.
ManageHonoured(c, s, d) ==
  LET S    == FindByName(c)
      list == StopAll(S, "remove")
  IN  /\ Dispatch
      /\ listening
      /\ Manages(c, s)
      /\ AbortStartServer(S)
      /\ \/ /\ disp' = list
            /\ KeepEntries(entry)
            /\ UNCHANGED <<proto, begun>>
         \/ /\ FreeEntry(list, d)
            /\ disp' = [list EXCEPT ![d] = NewDisplay(d)]
            /\ KeepEntries([entry EXCEPT ![d] = [client |-> c, id |-> s]])
            /\ DisposeProto(c)
            /\ begun' = begun \cup {s}
      /\ UNCHANGED <<todo, stopping, sd, listening, ttyWatch, childVars, lastId, accepted>>

\* manage()
RecvManage(c, s) == ManageIgnored(c, s) \/ \E d \in Transient : ManageHonoured(c, s, d)

\* Ids a MANAGE of c may carry.
KnownIds(c) == {0} \cup {s \in 1..lastId : <<c, s>> \in accepted}

\* A KEEPALIVE, or a query: only an answer is sent.
RecvOther == listening /\ OnlyAnswers /\ UNCHANGED <<lastId, proto, accepted>>

\* send_alive() tells a terminal that the session it names is running.
AnswersRunning(s) == \E d \in Managed \cap Transient :
                       entry[d].id = s /\ disp[d].status = "running"

-----------------------------------------------------------------------------
(* The specification *)

\* findDisplayByName() in the manage command: the name must not be in the list.
NamesAreFree ==
  \A c \in Clients :
    Namesake[c] \in Command /\ disp[Namesake[c]].status = "absent" /\ Sessions(c) # {} =>
      disp'[Namesake[c]].status = "absent"

\* The steps of the master and its children that are no packets.
MasterSteps ==
  /\ MainLoop \/ Timeouts \/ Signals \/ Messages \/ Commands \/ Children \/ Terminated
  /\ NamesAreFree
  /\ KeepEntries(entry)
  /\ UNCHANGED <<lastId, proto, accepted, begun>>

XInit ==
  /\ Init
  /\ lastId = 0
  /\ proto = [c \in Clients |-> 0]
  /\ accepted = {}
  /\ entry = [d \in Displays |-> NoEntry]
  /\ begun = {}

XNext ==
  \/ MasterSteps
  \/ \E c \in Clients :
       \/ RecvRequest(c)
       \/ \E s \in KnownIds(c) : RecvManage(c, s)
  \/ RecvOther

XSpec == XInit /\ [][XNext]_xVars

-----------------------------------------------------------------------------
(* Properties *)

\* protoDisplays and displays hold ids that nextSessionID() has given out.
XTypeOK ==
  /\ lastId \in 0..MaxId
  /\ proto \in [Clients -> 0..lastId]
  /\ accepted \in SUBSET (Clients \X (1..lastId))
  /\ entry \in [Displays -> Entries]
  /\ begun \in SUBSET (1..lastId)

\* An id is accepted for one terminal, and a protoDisplay waits with an id its
\* terminal has been told, later than all those it has had a session with.
ProtosAreFresh ==
  /\ \A b, c \in Clients, s \in 1..lastId :
       <<b, s>> \in accepted /\ <<c, s>> \in accepted => b = c
  /\ \A c \in Clients : proto[c] # 0 =>
       /\ <<c, proto[c]>> \in accepted
       /\ \A s \in begun : <<c, s>> \in accepted => s < proto[c]

\* The entry of a display names a session that was begun for this terminal, and no
\* other display in the list has it.
EntriesAreSessions ==
  \A d \in Displays : entry[d] # NoEntry =>
         /\ d \in Managed \cap Transient
         /\ entry[d].id \in begun
         /\ <<entry[d].client, entry[d].id>> \in accepted
         /\ \A e \in Displays \ {d} : entry[e].id # entry[d].id

\* Of the displays of one terminal all but the newest are on their way out, and so
\* is the display of the manage command that had the name before.
OlderSessionsLeave ==
  \A c \in Clients : \A d \in Sessions(c) :
    /\ d \in Newest(c) \/ Leaving(d)
    /\ Namesake[c] \in Managed => Leaving(Namesake[c])

\* The inductive invariant of the session ids, beside IInv.
XInv == XTypeOK /\ ProtosAreFresh /\ EntriesAreSessions /\ OlderSessionsLeave

\* A terminal that is told its session is running, in answer to a KEEPALIVE, is told
\* so of one session only: after a new one has been started for it a KEEPALIVE of the
\* old one is answered with a no, in whatever order packets, exits and removals come.
OneSessionAnswers ==
  \A c \in Clients : \A r, s \in 1..lastId :
    /\ <<c, r>> \in accepted /\ <<c, s>> \in accepted
    /\ AnswersRunning(r) /\ AnswersRunning(s)
    => r = s

\* The MANAGE of a session that has begun starts and stops nothing, however often
\* and however late it comes.
RepeatsAreHarmless ==
  \A c \in Clients : \A s \in begun : RecvManage(c, s) => UNCHANGED <<disp, entry>>

\* A session is begun once.
DuplicatesIgnored == [][RepeatsAreHarmless]_xVars

=============================================================================
