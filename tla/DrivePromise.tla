----------------------------- MODULE DrivePromise -----------------------------
(***************************************************************************)
(* What the drive promises to the rest of the machine: the inverter        *)
(* produces torque while the drive is armed, and once it is disarmed - by  *)
(* a request or by a fault - it modulates for a bounded number of control  *)
(* ticks at most before it floats or shorts the phases for good.           *)
(*                                                                         *)
(* A fault may renew that budget once, when it is raised; while the drive  *)
(* stays faulted or idle the budget is only ever spent.                    *)
(***************************************************************************)
EXTENDS Naturals

CONSTANT Budget  \* ticks a ramp-down may last

VARIABLES
  stance,  \* armed (torque, its polarity test, calibration), idle or faulted
  output,  \* floating, shorted or modulating
  budget   \* ticks of ramp-down left

vars == <<stance, output, budget>>

Stances == {"idle", "armed", "faulted"}
Outputs == {"floating", "shorted", "modulating"}

TypeOK ==
  /\ stance \in Stances
  /\ output \in Outputs
  /\ budget \in 0 .. Budget
  /\ stance = "armed" => budget = 0

Init ==
  /\ stance \in {"idle", "faulted"}
  /\ output = "floating"
  /\ budget = 0

(***************************************************************************)
(* How the stance and the budget left may change in one step: an idle      *)
(* drive arms, an armed one is sent to idle with a ramp-down or none, any  *)
(* of them faults, a fault is cleared once nothing is left of its budget,  *)
(* and a budget is given up early.                                         *)
(***************************************************************************)
Moves(s, b) ==
  {<<s, b>>}
    \cup (IF s = "idle" THEN {<<"armed", 0>>} ELSE {})
    \cup (IF s = "armed" THEN {"idle"} \X {0, Budget} ELSE {})
    \cup (IF s # "faulted" THEN {"faulted"} \X {0, Budget} ELSE {<<"faulted", 0>>})
    \cup (IF s = "faulted" /\ b = 0 THEN {<<"idle", 0>>} ELSE {})

\* Between ticks the output stays as it is.
Command ==
  /\ <<stance', budget'>> \in Moves(stance, budget)
  /\ output' = output

(***************************************************************************)
(* One control tick arms or faults the drive, never clears a fault, and    *)
(* applies an output: a disarmed drive modulates only by spending budget.  *)
(***************************************************************************)
Tick ==
  \E s \in Stances, b \in 0 .. Budget :
    /\ \/ <<s, b>> = <<stance, budget>>
       \/ s = "faulted" /\ <<s, b>> \in Moves(stance, budget)
    /\ stance' = s
    /\ \/ output' = "modulating" /\ s = "armed" /\ budget' = b
       \/ output' = "modulating" /\ s # "armed" /\ b > 0 /\ budget' = b - 1
       \/ output' \in {"floating", "shorted"} /\ budget' \in {b, 0}

Next == Command \/ Tick

Spec == Init /\ [][Next]_vars
=============================================================================
