----------------------------- MODULE DriveClaims -----------------------------
(***************************************************************************)
(* What the repository says of the drive core and the drive core does not  *)
(* do.  The claim quotes its line; a run exhibits a behaviour against it.  *)
(***************************************************************************)
EXTENDS DriveProperties

(***************************************************************************)
(* safe_strategy.rs:288, "ASC refuses an STO downgrade until its exit      *)
(* conditions allow it".  An ASC that was entered while idle is replaced,  *)
(* unseen by fault_evolve, when the first fault is asserted: on_command    *)
(* takes the reaction of the cause, so the phases are opened with the bus  *)
(* still above the ASC entry ratio.                                        *)
(***************************************************************************)
AscHeldOnHighBus ==
  [][Safe(mode) /\ mode.strategy.kind = "ASC" /\ dc_bus_v = "high" /\ Safe(mode') =>
       mode'.strategy.kind # "STO"]_vars
=============================================================================
