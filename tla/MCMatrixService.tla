--------------------------- MODULE MCMatrixService ---------------------------
(***************************************************************************)
(* Three incidents, one of which needs an acknowledgement, and queries that *)
(* give two of them at most and lists that show one; two rooms and one to  *)
(* escalate to; two handlers; and the alerts of the alert manager.         *)
(***************************************************************************)
EXTENDS MatrixService

MCAlertRooms == 1 :> {"r"} @@ 2 :> {"r", "s"} @@ 3 :> {"r"}
C(verb, room, id) == [verb |-> verb, room |-> room, id |-> id]
MCCommands ==
  <<{C("resolveAll", "r", None), C("unresolved", "r", None), C("unacked", "r", None), C("show", "r", 1), C("badFilter", "s", None),
     C(None, "s", None)},
    {C("ack", "s", 1), C("resolve", "s", 1), C("debug", "s", 1)}>>
MCPayloads ==
  {[sizes |-> <<4>>, truncated |-> 0], [sizes |-> <<1, 1, 2>>, truncated |-> 1],
   [sizes |-> <<2, 1>>, truncated |-> 0], [sizes |-> <<9, 1>>, truncated |-> 2]}
MCConfigs ==
  {[auth |-> "password", label |-> "bot"], [auth |-> "token", label |-> None]}
=============================================================================
