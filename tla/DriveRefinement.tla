--------------------------- MODULE DriveRefinement ---------------------------
(***************************************************************************)
(* The drive core keeps the promise of DrivePromise: the operating mode is *)
(* seen as a stance, the applied output as what the phases see, and the    *)
(* budget is what is left of the running ramp-down.                        *)
(***************************************************************************)
EXTENDS DriveProperties

StanceOf(m) ==
  CASE m.tag = "Idle" -> "idle"
    [] m.tag = "Fault" -> "faulted"
    [] OTHER -> "armed"

OutputOf(p) ==
  CASE p.out = "freewheel" -> "floating"
    [] p.out = "active_short" -> "shorted"
    [] OTHER -> "modulating"

BudgetOf(m) == IF RampingDown(m) THEN RampDownTicks - m.strategy.waited ELSE 0

Promise ==
  INSTANCE DrivePromise WITH
    Budget <- RampDownTicks,
    stance <- StanceOf(mode),
    output <- OutputOf(pwm),
    budget <- BudgetOf(mode)

(***************************************************************************)
(* Every behaviour of the drive core is one the promise allows: however    *)
(* requests, faults, fault clears, tasks and ticks interleave, a disarmed  *)
(* drive stops modulating within the ramp-down and a fault is not cleared  *)
(* before that.                                                            *)
(***************************************************************************)
KeepsPromise == Promise!Spec
=============================================================================
