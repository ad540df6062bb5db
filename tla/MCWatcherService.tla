-------------------------- MODULE MCWatcherService --------------------------
(***************************************************************************)
(* A directory with a group for one account: it is edited, it is wrong for *)
(* a while, it watches nothing for a while.                                *)
(***************************************************************************)
EXTENDS WatcherService

MCTokens == [c \in {"People"} |-> {}]
MCDecimals == [c \in {"People"} |-> 1]

NoSettings == [k \in {} |-> None]
Directory(id, chains, handlers) ==
  <<[accountSets |-> [own |-> <<[address |-> "a", settings |-> NoSettings, operations |-> None]>>],
     groups |-> <<[id |-> id, accountSetNames |-> <<"own">>, chains |-> chains, monitors |-> None,
                   notifications |-> None, operations |-> None]>>,
     defaults |-> [chains |-> None, notifications |-> "room", operations |-> None,
                   monitors |-> IF handlers = None THEN None
                                ELSE <<[name |-> "Identity", handlers |-> handlers, settings |-> NoSettings]>>]]>>

Right(id) == Directory(id, <<"People">>, {"IdentityMissingState"})
Wrong == Directory("first", <<"People">>, {})
Watchless == Directory("first", <<"People">>, None)

MCDirectories ==
  {<<Right("first"), Watchless, Wrong, Right("second")>>}
=============================================================================
