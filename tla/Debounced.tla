------------------------------ MODULE Debounced ------------------------------
(***************************************************************************)
(* firmware-core/src/checks/debounce.rs: a boolean condition that commits  *)
(* to a new value once the raw input has held it for a whole period of     *)
(* consecutive samples.  Constant operators only: the debouncer's state is *)
(* a record, kept by whoever owns it (the safe strategy, the board         *)
(* diagnostics of the FOC interrupt).                                      *)
(***************************************************************************)
EXTENDS Naturals

\* Debounced::new
DebouncedNew(initial) == [state |-> initial, count |-> 0]

\* A mutant of DebouncedUpdate: commits one sample late.
DebouncedUpdateLate(d, raw, period) ==
  IF raw = d.state THEN [d EXCEPT !.count = 0]
  ELSE IF d.count + 1 > period THEN DebouncedNew(raw)
  ELSE [d EXCEPT !.count = @ + 1]

\* Debounced::update
DebouncedUpdate(d, raw, period) ==
  IF raw = d.state THEN [d EXCEPT !.count = 0]
  ELSE IF d.count + 1 >= period THEN DebouncedNew(raw)
  ELSE [d EXCEPT !.count = @ + 1]

\* Every value a debouncer of this period can hold.
DebouncedValues(period) == [state : BOOLEAN, count : 0 .. period - 1]
=============================================================================
