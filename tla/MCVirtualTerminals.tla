------------------------- MODULE MCVirtualTerminals -------------------------
(* Values for the constants of VirtualTerminals that a .cfg cannot write.   *)
EXTENDS VirtualTerminals, TLC

CONSTANTS d1

\* VT 2 always, VT 1 if it is free; then the free ones above.
ServerVTsValue == <<2, -1>>

\* No display asks for a VT of its own.
ReqVTValue == [d \in Displays |-> 0]

\* Bound: the daemon is not being shut down; no signal or message outlives its
\* sender; sessions end without a user in them, in one way of a kind, and not by a
\* command; only those of the first display end in a restart or a
\* remote login, and only its X server may have to be terminated as it starts.
Bound ==
  /\ ~stopping
  /\ \A d \in Displays :
       /\ disp[d].status # "raiser"
       /\ d \in usr1 => server[d] = "ready"
       /\ d \in xconn => session[d] = "connected"
       /\ ~disp[d].userSess
       /\ session[d] \notin {"reserver", "retry"}
       /\ d # d1 => /\ session[d] \notin {"normal", "remote"}
                    /\ disp[d].serverStatus \notin {"terminated", "killed"}

=============================================================================
