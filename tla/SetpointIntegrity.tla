-------------------------- MODULE SetpointIntegrity ---------------------------
(***************************************************************************)
(* firmware-core/src/checks: the integrity check of the torque setpoint    *)
(* (integrity.rs: a checksum and a rolling counter) and the leaky bucket   *)
(* that turns repeated failures into a fault (debounce.rs).                *)
(*                                                                         *)
(* A frame is intact or corrupted; a checksum that a corrupted frame       *)
(* happens to match is left out.                                           *)
(***************************************************************************)
EXTENDS Integers

CONSTANTS
  Counters,                \* how many values the rolling counter has: 16
  FillRate, DrainRate, Capacity  \* TORQUE_SETPOINT_FAULT_*

ASSUME SetpointIntegrityAssumption ==
  /\ Counters \in Nat \ {0, 1}
  /\ {FillRate, DrainRate, Capacity} \subseteq Nat \ {0}

NoCounter == -1  \* last_counter: None

RollingCounter(number) == number % Counters

\* Mutants: repeats pass; a corrupted frame passes when its counter is new.
GenuineOrRepeated(last, frame) == frame.intact
GenuineOrCorrupted(last, frame) == last # RollingCounter(frame.number)

\* FrameIntegrity::check; only a frame that passes is remembered
Genuine(last, frame) == frame.intact /\ last # RollingCounter(frame.number)

\* A mutant of Filled: the bucket overflows instead of saturating.
FilledOver(level) == level + FillRate

Filled(level) == IF level + FillRate > Capacity THEN Capacity ELSE level + FillRate
Drained(level) == IF level < DrainRate THEN 0 ELSE level - DrainRate
Tripped(level) == level >= Capacity
=============================================================================
