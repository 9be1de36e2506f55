--------------------------- MODULE MCCommissioning ---------------------------
(***************************************************************************)
(* The bench for TLC: healthy hall sensors, one stuck low, one stuck high  *)
(* and two stuck ones; no friction, friction in either direction or both,  *)
(* and a locked rotor; an open and a closed phase.                         *)
(***************************************************************************)
EXTENDS CommissioningProperties

\* The three sensor bits in each sector of a healthy motor.
Bits == <<{0}, {0, 1}, {1}, {1, 2}, {2}, {0, 2}>>
Value(bits) == MapThenSumSet(LAMBDA b : 2^b, bits)

\* The sensors in low stay low, those in high stay high.
SensorWith(low, high) == [k \in 0 .. 5 |-> Value((Bits[k + 1] \ low) \cup high)]

MCSensors == {SensorWith({}, {}), SensorWith({0}, {}), SensorWith({}, {1}), SensorWith({0}, {1})}

Locked == 100
MCFrictions == [forward : {0, 2}, reverse : {0, 3}] \cup {[forward |-> Locked, reverse |-> Locked]}
=============================================================================
