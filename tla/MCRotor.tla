------------------------------ MODULE MCRotor ------------------------------
(***************************************************************************)
(* Instance of RotorProperties.                                            *)
(***************************************************************************)
EXTENDS RotorProperties

\* Two ways to mount the sensors: the order of the patterns, and how wide the sectors are.
MCTables == {<<0, 6, 2, 10, 14, 8>>, <<1, 11, 13, 5, 3, 9>>}
=============================================================================
