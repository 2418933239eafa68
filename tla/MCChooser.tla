----------------------------- MODULE MCChooser ------------------------------
(* Values for the constants of Chooser that a .cfg cannot write.            *)
EXTENDS Chooser

\* Both plugins, a countdown, requests for a shutdown, and displays that start in the
\* chooser, from which the user may or may not get to the login dialog.
ConfigsValue == {[plugin |-> "classic", timed |-> TRUE,  shutdown |-> TRUE,  login |-> "localOnly"],
                 [plugin |-> "generic", timed |-> FALSE, shutdown |-> TRUE,  login |-> "localOnly"],
                 [plugin |-> "classic", timed |-> FALSE, shutdown |-> FALSE, login |-> "defaultRemote"],
                 [plugin |-> "classic", timed |-> FALSE, shutdown |-> FALSE, login |-> "indirect"]}

\* Of the assumptions only that of DroppedNotChosen is broken.
OnlyDropped == broken \subseteq {"dropped"}

=============================================================================
