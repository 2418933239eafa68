------------------------------ MODULE MCConfig ------------------------------
(* A small instance of Config: values that a .cfg cannot write, and a bound. *)
EXTENDS Config

CONSTANTS d1, f1, f2

\* kdmrc lists the display or not, and names one access file or another.
Text(S, f) == [servers |-> S, accessFile |-> f, autoRescan |-> TRUE, enable |-> TRUE]
TextsValue == {Text({d1}, f1), Text({}, f2)}

\* Bound: at first kdmrc lists the display, and the access files name no interface.
MCInit == Init /\ kdmrc.text = Text({d1}, f1) /\ \A f \in AccessFiles : access[f].hosts = {}

MCSpec == MCInit /\ [][Next]_vars /\ WF_vars(Scan \/ Loop)

=============================================================================
