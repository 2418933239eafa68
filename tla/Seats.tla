------------------------------- MODULE Seats --------------------------------
(***************************************************************************)
(* What the daemon promises of each of its displays, whatever goes on      *)
(* inside: a display is listed, a local one gets an X server, then one     *)
(* user at a time takes the seat before it, and once it is to be removed   *)
(* it is not offered any more.                                             *)
(***************************************************************************)
CONSTANTS
  Displays,  \* what displays there may be
  Local      \* those with an X server of the daemon's own

VARIABLE seat

\* Not in the list, without an X server, with one, with a session, and on its way
\* out of the list.
States == {"none", "dark", "lit", "taken", "closing"}

SeatsInit == seat \in [Displays -> {"none", "dark"}]

\* A seat that may be taken.
Ready(d) == IF d \in Local THEN "lit" ELSE "dark"

Goes(d, from, to) == seat[d] \in from /\ seat'[d] = to

Appear(d) == Goes(d, {"none"}, "dark")
Light(d)  == d \in Local /\ Goes(d, {"dark"}, "lit")
Take(d)   == Goes(d, {Ready(d)}, "taken")
Leave(d)  == \E to \in {"lit", "dark"} : Goes(d, {"taken"}, to)
GoDark(d) == Goes(d, {"lit"}, "dark")
Close(d)  == Goes(d, {"lit", "taken"}, "closing")
Vanish(d) == Goes(d, States \ {"none"}, "none")

Move(d) == \/ Appear(d) \/ Light(d) \/ Take(d) \/ Leave(d)
           \/ GoDark(d) \/ Close(d) \/ Vanish(d)

\* Commands and signals concern many displays at once.
SeatsNext == /\ seat' \in [Displays -> States]
             /\ \A d \in Displays : seat'[d] = seat[d] \/ Move(d)

SeatsSpec == SeatsInit /\ [][SeatsNext]_seat

=============================================================================
