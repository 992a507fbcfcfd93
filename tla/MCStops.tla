-------------------------------- MODULE MCStops --------------------------------
(* Stops of a resting entry that has filled, on one account: who is told when it goes. *)
EXTENDS Stops

CONSTANT c1

LimitEntry ==
  {[venue |-> "hyperliquid", entry |-> "limit", legs |-> Legs, callers |-> {c1}, asks |-> 1,
    faults |-> 2]}
===============================================================================
