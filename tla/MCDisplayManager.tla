------------------------- MODULE MCDisplayManager --------------------------
(* A bound for the run of DisplayManager with displays of all origins.      *)
EXTENDS DisplayManager, FiniteSets

\* Bound: at most one foreign display at a time (the module Xdmcp has several), and no
\* shutdown is scheduled for later while there is one; the sessions of foreign displays
\* have no user and end in one way of a kind; no signal or message outlives its sender.
Bound ==
  /\ Cardinality(Managed \ Local) <= 1
  /\ sd.phase = "later" => Managed \subseteq Local
  /\ \A d \in Displays :
       /\ d \in usr1 => server[d] = "ready"
       /\ d \in xconn => session[d] = "connected"
  /\ \A d \in Displays \ Local : ~disp[d].userSess /\ session[d] # "reserver"
  /\ \A d \in Transient : session[d] \notin {"normal", "retry"}

=============================================================================
