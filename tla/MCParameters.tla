----------------------------- MODULE MCParameters -----------------------------
(***************************************************************************)
(* The instance of the parameter store for TLC: two firmwares whose motor  *)
(* parameter records have different layouts.                               *)
(***************************************************************************)
EXTENDS ParametersClaims, TLC

CONSTANTS older, newer

Symmetry == Permutations(PolePairs)

MCFirmwares == {older, newer}
MCVersion == [fw \in MCFirmwares |->
               [p \in Pages |-> IF fw = newer /\ p = "params" THEN 2 ELSE 1]]

\* A bound of the run: no mishap in a behaviour in which a task was overtaken and not yet recovered.
MishapsApart == overtaken => mishaps = 0
=============================================================================
