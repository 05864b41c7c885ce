------------------------ MODULE MCControlProcedures ------------------------
(* Instances of ControlProcedures for TLC. *)
EXTENDS ControlProcedures, TLC

\* The Hosts ask for everything; nobody but the central updates the channel map.
MCRequests == [s \in Side |-> IF s = Central THEN Proc ELSE Proc \ {"CHAN_MAP_UPDATE"}]

\* No Host ends the connection.
MCNoTerminate == [s \in Side |-> {"PHY_UPDATE", "FEATURE_EXCHANGE"}]

MCTwoEach == [s \in Side |-> 2]
MCTwoAndOne == [s \in Side |-> IF s = Central THEN 2 ELSE 1]

\* The peripheral is built with PHY update or without.
MCBuilt == {[s \in Side |-> TRUE], [s \in Side |-> s = Central]}
MCBothBuilt == {[s \in Side |-> TRUE]}
=============================================================================
