---------------------------- MODULE HallEstimator ----------------------------
(***************************************************************************)
(* The angle and the direction that the hall sensors give: the             *)
(* HallEstimator of field-oriented/src/estimation/hall_estimation.rs.      *)
(*                                                                         *)
(* Angles are counted in Turn units.  Of a speed only the sign is kept,    *)
(* and how far the rotor went since the last edge, the product of a        *)
(* counter and a period of the timer, is a number of units handed in.      *)
(***************************************************************************)
EXTENDS Integers, FiniteSets

CONSTANT Turn   \* units of a full electrical turn

Patterns == 1 .. 6
Angles == 0 .. Turn - 1
Directions == {-1, 0, 1}
NotCalibrated == <<>>   \* no table

Modes == {"Stationary", "DirectionChange", "Normal"}

\* HallEstimator::new
NewHallEstimator == [table |-> NotCalibrated, state |-> "Stationary", prev_pattern |-> 0, prev_dir |-> 0]

\* The tables are those of the sorted edges: who follows whom, and how far away.
Ahead(table, p, q) == (table[q] - table[p]) % Turn
ForwardNext(table, p) ==
  CHOOSE q \in Patterns \ {p} : \A r \in Patterns \ {p} : Ahead(table, p, q) <= Ahead(table, p, r)
SectorSpan(table, p) == Ahead(table, p, ForwardNext(table, p))

SetCalibration(est, table) == [est EXCEPT !.table = table]
Invalidate(est) == [est EXCEPT !.table = NotCalibrated]

\* Whether two patterns are neighbours, so that the step between them has a direction.
Adjacent(table, prev, p) ==
  /\ prev \in Patterns
  /\ p \in Patterns
  /\ \/ prev = p
     \/ ForwardNext(table, prev) = p
     \/ ForwardNext(table, p) = prev

Direction(table, prev, p) ==
  IF prev = p THEN 0 ELSE IF ForwardNext(table, prev) = p THEN 1 ELSE -1

\* HallInterpolationState::step
Step(state, moved, same_dir) ==
  CASE state = "Stationary" /\ moved -> "DirectionChange"
    [] state = "DirectionChange" /\ moved /\ same_dir -> "Normal"
    [] state = "Normal" /\ ~same_dir -> "DirectionChange"
    [] OTHER -> state

\* A reading needs a table and a pattern that the sensors can have.
Readable(est, p) == est.table # NotCalibrated /\ p \in Patterns

\* A mutant of EntryPattern: the edge is always that of the new sector.
OwnEdge(prev, p, dir) == p
\* The edge that the rotor came in by: in reverse it is that of the sector it left.
EntryPattern(prev, p, dir) == IF dir >= 0 THEN p ELSE prev

Least(a, b) == IF a < b THEN a ELSE b

\* Called only on what is Readable: the new state of the estimator and what it reports.
GetEstimate(est, prev, p, travelled) ==
  LET t == est.table
      adjacent == Adjacent(t, prev, p)
      dir == IF adjacent THEN Direction(t, prev, p) ELSE 0
      base == IF adjacent /\ est.prev_pattern # 0 THEN est.prev_pattern ELSE p
      state == Step(IF adjacent THEN est.state ELSE "Stationary", base # p, est.prev_dir = dir)
      span == SectorSpan(t, p)
      reach == CASE state = "Stationary" -> span \div 2
                 [] state = "DirectionChange" -> dir * Least(travelled, span \div 2)
                 [] state = "Normal" -> dir * Least(travelled, span)
      entry == IF state = "Stationary" THEN p ELSE EntryPattern(prev, p, dir)
  IN [est |-> [est EXCEPT !.state = state, !.prev_pattern = p, !.prev_dir = dir],
      theta |-> (t[entry] + reach) % Turn,
      omega |-> IF state = "Normal" THEN dir ELSE 0]
=============================================================================
