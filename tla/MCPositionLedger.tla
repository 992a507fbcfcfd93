--------------------------- MODULE MCPositionLedger ---------------------------
(* PositionLedger on small instances; each .cfg picks its constants from here. *)
EXTENDS PositionLedger, TLC

OneGain  == {5}
LossGain == {-4, 5}

\* Agents run the same code: exchanging two of them changes nothing.
Symmetry == Permutations(Agents)
===============================================================================
