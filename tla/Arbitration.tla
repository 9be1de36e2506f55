---------------------------- MODULE Arbitration ----------------------------
(***************************************************************************)
(* Which estimate of the rotor the drive uses: the FeedbackArbitrator of   *)
(* field-oriented/src/estimation/arbitration.rs.                           *)
(*                                                                         *)
(* Speeds are integers.  Of an angle only whether it is right is kept; the *)
(* kinds of faults are not told apart.  No encoder is fitted.              *)
(***************************************************************************)
EXTENDS Integers

CONSTANTS
  LowSpeed,   \* low_speed_threshold_omega_rads
  HighSpeed   \* high_speed_threshold_omega_rads

ASSUME ArbitrationAssumption == LowSpeed \in Nat /\ HighSpeed \in Nat /\ LowSpeed < HighSpeed

None == [tag |-> "none", omega |-> 0, right |-> FALSE]
Err == [tag |-> "err", omega |-> 0, right |-> FALSE]
Ok(omega, right) == [tag |-> "ok", omega |-> omega, right |-> right]
IsOk(r) == r.tag = "ok"

Size(x) == IF x < 0 THEN -x ELSE x
Clamped(x) == IF x > HighSpeed THEN HighSpeed ELSE IF x < -HighSpeed THEN -HighSpeed ELSE x

\* FeedbackArbitrator::new
NewArbitrator == [hall |-> None, sensorless |-> None, hall_pattern |-> 0, blend_omega |-> 0]

\* A pattern that no sensors have leaves the last one in place.
UpdateHall(arb, result, pattern) ==
  [arb EXCEPT !.hall = result, !.hall_pattern = IF pattern \in 1 .. 6 THEN pattern ELSE @]

\* The weight of the low speed estimate, as a part of the width of the blend.
BlendWidth == HighSpeed - LowSpeed
Weight(b) ==
  IF Size(b) > HighSpeed THEN 0 ELSE IF Size(b) < LowSpeed THEN BlendWidth ELSE HighSpeed - Size(b)

\* The weighted mean is rounded either way.
MeanSpeeds(a, low, high) ==
  LET sum == a * low + (BlendWidth - a) * high
  IN {sum \div BlendWidth, -((-sum) \div BlendWidth)}

\* Both estimates: as right as the ones that have a weight.
BlendBoth(b, low, high) ==
  LET a == Weight(b)
  IN {Ok(w, (a > 0 => low.right) /\ (a < BlendWidth => high.right)) : w \in MeanSpeeds(a, low.omega, high.omega)}

\* A lone estimate counts in its own range only.
LoneLow(low) == IF Size(low.omega) < HighSpeed THEN low ELSE Err
\* A mutant of LoneHigh: the range is not checked.
LoneAnywhere(high) == high
LoneHigh(high) == IF Size(high.omega) > LowSpeed THEN high ELSE Err

Blends(arb, low, high) ==
  CASE IsOk(low) /\ IsOk(high) -> BlendBoth(arb.blend_omega, low, high)
    [] IsOk(low) /\ ~IsOk(high) -> {LoneLow(low)}
    [] ~IsOk(low) /\ IsOk(high) -> {LoneHigh(high)}
    [] OTHER -> {None}

\* The speed the next blend is weighted by; with no estimate it is that of the hall sensors, or high.
NextBlendOmega(arb, blend) ==
  CASE IsOk(blend) -> Clamped(blend.omega)
    [] blend = None -> IF IsOk(arb.hall) THEN arb.hall.omega ELSE HighSpeed
    [] OTHER -> arb.blend_omega

UpdateSensorless(arb, low, high) ==
  {[arb EXCEPT !.sensorless = blend, !.blend_omega = NextBlendOmega(arb, blend)] :
     blend \in Blends(arb, low, high)}

\* Hall feedback first, except where it is too fast for it.
Read(arb) ==
  CASE IsOk(arb.hall) /\ IsOk(arb.sensorless) ->
         IF Size(arb.hall.omega) > HighSpeed THEN arb.sensorless ELSE arb.hall
    [] IsOk(arb.hall) /\ ~IsOk(arb.sensorless) -> arb.hall
    [] ~IsOk(arb.hall) /\ IsOk(arb.sensorless) -> arb.sensorless
    [] OTHER -> Err
=============================================================================
