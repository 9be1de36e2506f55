--------------------------- MODULE HallCalibrator ---------------------------
(***************************************************************************)
(* field-oriented/src/commission/hall_calibration.rs: the rotor is dragged *)
(* one electrical revolution forward and one back, and the angle of each   *)
(* hall edge is the mean of the two passes.                                *)
(*                                                                         *)
(* An angle is a number of half steps: the target moves one step a tick,   *)
(* and the mean of two targets may lie half way between two steps.         *)
(***************************************************************************)
EXTENDS Integers, FiniteSetsExt

CONSTANTS
  Sector,     \* half steps between two hall edges (PI / 3)
  AlignTime   \* initial_settle_time_s, in ticks

\* A sector is more than a few steps long: the sweep is slow.
ASSUME HallCalibratorAssumption == Sector \in Nat /\ Sector % 4 = 0 /\ Sector >= 8 /\ AlignTime \in Nat \ {0}

Turn == 6 * Sector
Angles == 0 .. Turn - 1
Patterns == 0 .. 7
NoPattern == 8
Step == 2

Wrapped(angle) == angle % Turn
WrappedDiff(a, b) == LET d == (a - b) % Turn IN IF 2 * d > Turn THEN d - Turn ELSE d
Size(d) == IF d < 0 THEN -d ELSE d

\* num_edges is only compared with 5, so it is counted no further.
EdgesNeeded == 5
Counted(edges) == Min({edges + 1, EdgesNeeded})

\* The index of a pattern in the table: 0 and 7 are clamped to their neighbours.
Entry(pattern) == Max({1, Min({pattern, 6})})

Sweep(name, target, pattern) ==
  [sweep |-> name, target |-> target, first |-> NoPattern, prev |-> pattern, edges |-> 0]
Settling(waited) == [sweep |-> "Settle", target |-> 0, waited |-> waited]
Finished(target) == [sweep |-> "Done", target |-> target]

EmptyTable == [p \in 1 .. 6 |-> 0]
Started == [at |-> Settling(0), table |-> EmptyTable]

SettleStep(h, pattern) ==
  [h EXCEPT !.at = IF h.at.waited + 1 >= AlignTime THEN Sweep("Forward", 0, pattern)
                   ELSE Settling(h.at.waited + 1)]

\* The sweep goes on: the pattern is remembered and the target moves.
SweptOn(at, pattern, step) == [at EXCEPT !.prev = pattern, !.target = Wrapped(at.target + step)]

ForwardStep(h, pattern) ==
  LET at == h.at
      edge == at.prev # pattern
      closes == edge /\ at.first = pattern /\ at.edges >= EdgesNeeded
      first == IF at.first = NoPattern THEN pattern ELSE at.first
  IN  IF closes THEN [h EXCEPT !.at = Sweep("Reverse", at.target, pattern)]
      ELSE IF edge
      THEN [at |-> SweptOn([at EXCEPT !.first = first, !.edges = Counted(@)], pattern, Step),
            table |-> [h.table EXCEPT ![Entry(pattern)] = at.target]]
      ELSE [h EXCEPT !.at = SweptOn(at, pattern, Step)]

(***************************************************************************)
(* On the way back an edge is where its pattern is left.  The two passes   *)
(* must agree within half a sector; the entry becomes their mean.          *)
(***************************************************************************)
Disagreement(h) == WrappedDiff(h.at.target, h.table[Entry(h.at.prev)])

\* A mutant of Disagrees: a calibration is never rejected.
NeverDisagrees(h, pattern) == FALSE

Disagrees(h, pattern) ==
  /\ h.at.sweep = "Reverse" /\ h.at.prev # pattern /\ h.at.first # NoPattern
  /\ 2 * Size(Disagreement(h)) > Sector

ReverseStep(h, pattern) ==
  LET at == h.at
      edge == at.prev # pattern
      entry == Entry(at.prev)
      mean == Wrapped(h.table[entry] + Disagreement(h) \div 2)
      edges == Counted(at.edges)
      passed == [h EXCEPT !.table[entry] = mean]
  IN  IF edge /\ at.first # NoPattern
      THEN IF at.first = pattern /\ edges >= EdgesNeeded
           THEN [passed EXCEPT !.at = Finished(at.target)]
           ELSE [passed EXCEPT !.at = SweptOn([at EXCEPT !.edges = edges], pattern, -Step)]
      ELSE [h EXCEPT !.at = SweptOn([at EXCEPT !.first = IF edge THEN pattern ELSE @], pattern, -Step)]

\* calibration_step, when it is not rejected
HallStep(h, pattern) ==
  CASE h.at.sweep = "Settle" -> SettleStep(h, pattern)
    [] h.at.sweep = "Forward" -> ForwardStep(h, pattern)
    [] h.at.sweep = "Reverse" -> ReverseStep(h, pattern)
    [] OTHER -> h

HallDone(h) == h.at.sweep = "Done"
=============================================================================
