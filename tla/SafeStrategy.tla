---------------------------- MODULE SafeStrategy ----------------------------
(***************************************************************************)
(* firmware-core/src/app/safe_strategy.rs: how the inverter is made safe   *)
(* while idle or faulted.  STO lets all switches float, ASC shorts the     *)
(* phases (when floating would rectify too much back-EMF into the DC       *)
(* link), STOf is an STO that never becomes ASC, and RampDown keeps        *)
(* modulating a zero torque demand for a bounded time before handing over. *)
(*                                                                         *)
(* Voltages are abstracted to the classes the two hysteresis comparisons   *)
(* tell apart, times to control ticks.                                     *)
(***************************************************************************)
EXTENDS Integers, Debounced

CONSTANTS
  SwitchDebounceTicks,  \* STO_ASC_DEBOUNCE_TICKS
  RampDownTicks         \* RAMPDOWN_DURATION_MS in ticks

ASSUME SafeStrategyAssumption ==
  /\ SwitchDebounceTicks \in Nat \ {0}
  /\ RampDownTicks \in Nat \ {0}

(***************************************************************************)
(* The DC bus voltage, against the configured limits: below dc_bus_min,    *)
(* ordinary, inside the STO/ASC dead band on either side of dc_bus_max,    *)
(* and above the ASC entry ratio.                                          *)
(***************************************************************************)
BusLevels == {"under", "ordinary", "band", "over", "high"}

\* The back-EMF a floating rotor would present, against the DC bus.
EmfClasses == {"unknown", "below", "band", "above"}

Kinds == {"RampDown", "STOf", "STO", "ASC"}

(***************************************************************************)
(* A strategy is one record for all four variants: "waited" is RampDown's  *)
(* timer, "should_switch" the debouncer of STO and ASC; a variant that has *)
(* no such field keeps it at its initial value.                            *)
(***************************************************************************)
Strategy(kind) == [kind |-> kind, waited |-> 0, should_switch |-> DebouncedNew(FALSE)]

sto == Strategy("STO")
asc == Strategy("ASC")
stof == Strategy("STOf")
ramp_down == Strategy("RampDown")

Strategies ==
  [kind : Kinds, waited : 0 .. RampDownTicks - 1,
   should_switch : DebouncedValues(SwitchDebounceTicks)]

\* asc_needed: ASC keeps the rotor from rectifying into the DC link.
AscNeeded(bus, emf, feedback_valid) ==
  \/ bus = "high"
  \/ emf = "unknown"
  \/ ~feedback_valid
  \/ emf = "above"

\* The two gates of the ASC arm of foc_tick.
AscReleasable(bus, emf, feedback_valid) ==
  /\ bus \in {"under", "ordinary"}
  /\ emf = "below"
  /\ feedback_valid

\* A debounced condition that replaces the strategy when it commits.
SwitchWhen(s, condition, next) ==
  LET d == DebouncedUpdate(s.should_switch, condition, SwitchDebounceTicks)
  IN  IF d.state THEN next ELSE [s EXCEPT !.should_switch = d]

\* A mutant of StrategyTick: the ramp-down waits for valid feedback.
StrategyTickStalling(s, bus, emf, feedback_valid) ==
  CASE s.kind = "RampDown" /\ ~feedback_valid -> s
    [] s.kind = "RampDown" /\ feedback_valid ->
         IF s.waited + 1 >= RampDownTicks
         THEN IF AscNeeded(bus, emf, feedback_valid) THEN asc ELSE sto
         ELSE [s EXCEPT !.waited = @ + 1]
    [] s.kind = "STO" -> SwitchWhen(s, AscNeeded(bus, emf, feedback_valid), asc)
    [] s.kind = "ASC" -> SwitchWhen(s, AscReleasable(bus, emf, feedback_valid), sto)
    [] OTHER -> s

\* foc_tick, "Evolve strategy": one control tick in idle or fault.
StrategyTick(s, bus, emf, feedback_valid) ==
  CASE s.kind = "RampDown" ->
         IF s.waited + 1 >= RampDownTicks
         THEN IF AscNeeded(bus, emf, feedback_valid) THEN asc ELSE sto
         ELSE [s EXCEPT !.waited = @ + 1]
    [] s.kind = "STO" -> SwitchWhen(s, AscNeeded(bus, emf, feedback_valid), asc)
    [] s.kind = "ASC" -> SwitchWhen(s, AscReleasable(bus, emf, feedback_valid), sto)
    [] OTHER -> s

\* Mutants of FaultEvolve: the latest reaction wins; a ramp-down restarts.
FaultEvolveLatest(s, new) == new
FaultEvolveRestarting(s, new) ==
  CASE new.kind = "STOf" -> stof
    [] s.kind = "STO" /\ new.kind = "ASC" -> asc
    [] s.kind = "ASC" /\ new.kind = "ASC" -> asc
    [] s.kind = "RampDown" -> new
    [] OTHER -> s

\* fault_evolve: how a further fault's reaction combines with the active one.
FaultEvolve(s, new) ==
  CASE new.kind = "STOf" -> stof
    [] s.kind = "STO" /\ new.kind = "ASC" -> asc
    [] s.kind = "ASC" /\ new.kind = "STO" /\ s.should_switch.state -> sto
    [] s.kind = "ASC" /\ new.kind = "ASC" -> asc
    [] s.kind = "RampDown" /\ new.kind \in {"STO", "ASC"} -> new
    [] OTHER -> s

RampDownCauses ==
  {"SetpointTimeout", "CANMessageIntegrity", "CalibrationTimeout", "Overtemperature", "Overspeed"}

\* From<FaultCause> for SafeControlStrategy
Reaction(cause) ==
  CASE cause = "Break2" -> stof
    [] cause = "DcOverVoltage" -> asc
    [] cause \in RampDownCauses -> ramp_down
    [] OTHER -> sto
=============================================================================
