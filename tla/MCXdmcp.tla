------------------------------ MODULE MCXdmcp ------------------------------
(* Values for the constants of Xdmcp that a .cfg cannot write.              *)
EXTENDS Xdmcp, TLC

CONSTANTS d1, d2, d3, c1, c2

\* The manage command may name the first terminal.
NamesakeValue == [c \in Clients |-> IF c = c1 THEN d1 ELSE None]

\* The displays that packets make are alike.
Alike == Permutations({d2, d3})

\* Bound: the daemon is not being shut down, as it then takes no packets; sessions
\* end without a user in them, not by a command, and in one way of a kind;
\* only the first terminal asks for a session more than once.
Bound ==
  /\ ~stopping
  /\ \A d \in Displays :
       /\ disp[d].status # "raiser"
       /\ ~disp[d].userSess
       /\ session[d] \notin {"reserver", "normal"}
       /\ d \in Transient => session[d] # "retry"
  /\ \A r, s \in 1..MaxId : r < s => ~({<<c2, r>>, <<c2, s>>} \subseteq accepted)

=============================================================================
