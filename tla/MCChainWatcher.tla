--------------------------- MODULE MCChainWatcher ---------------------------
(***************************************************************************)
(* Instances of ChainWatcher.                                              *)
(***************************************************************************)
EXTENDS ChainWatcher

CONSTANTS m1, m2

\* The conditions that hold in a block, its events and its calls.
At(firing, event, call) == [firing |-> firing, event |-> event, call |-> call]
Quiet == At({}, {}, {})

\* The condition of m1 ends, that of m2 begins; both events in one block.
MCCrossing ==
  {<<At({m1}, {}, {}), At({m1, m2}, {m1, m2}, {}), At({m2}, {}, {})>>}

\* A condition comes and goes.
MCFlicker ==
  {<<At({m1}, {}, {}), At({}, {m1}, {}), At({m1}, {}, {})>>,
   <<Quiet, At({m1}, {}, {}), At({}, {}, {m1})>>}

MCSteady == {<<At({m1}, {}, {}), At({m1}, {m1}, {m1})>>}

MCSafetyChains == MCCrossing \union MCFlicker
=============================================================================
