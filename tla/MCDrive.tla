------------------------------- MODULE MCDrive -------------------------------
(***************************************************************************)
(* Instances of the drive core for TLC: the environments of the runs.      *)
(***************************************************************************)
EXTENDS DriveRefinement, DriveClaims

OrdinaryBoard == {<<"ordinary", FALSE>>}
\* An ordinary and a high bus voltage, never too hot.
CoolBoard == {"ordinary", "high"} \X {FALSE}
=============================================================================
