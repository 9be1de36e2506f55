--------------------------- MODULE ParametersClaims ---------------------------
(***************************************************************************)
(* What the source says of the parameters and the code does not keep.      *)
(***************************************************************************)
EXTENDS ParametersProperties

(***************************************************************************)
(* can_rx.rs:138, "Treat pole pairs changing as motor changing, invalidate *)
(* the motor params and hall calibrations": what is in use was measured    *)
(* with the configured pole pairs.                                         *)
(***************************************************************************)
UsesConfiguredMotor ==
  \A e \in {gains, hall} : e.epoch # Unmeasured => e.pairs = motor.pairs
=============================================================================
