---------------------------- MODULE CanData_proofs ----------------------------
(***************************************************************************)
(* Proofs about what the CAN node does with the data it is given: that a   *)
(* setpoint takes effect once and in order, that a dump carries one        *)
(* capture, and that buffers, transfers and strategies keep their types.   *)
(***************************************************************************)
EXTENDS Can_proofs, FiniteSetTheorems

-----------------------------------------------------------------------------
\* Remainders

LEMMA DivisionParts ==
  ASSUME NEW a \in Nat, NEW c \in Nat \ {0}
  PROVE  a % c \in 0 .. c - 1 /\ a \div c \in Nat /\ a = c * (a \div c) + (a % c)
OBVIOUS

LEMMA MultiplesLeaveNothing ==
  ASSUME NEW k \in Int, NEW c \in Nat \ {0}
  PROVE  (c * k) % c = 0
OBVIOUS

\* Two numbers with the same rolling counter are whole rounds apart.
LEMMA SameRemainder ==
  ASSUME NEW a \in Nat, NEW b \in Nat, NEW c \in Nat \ {0}, a % c = b % c
  PROVE  (a - b) % c = 0
<1> DEFINE q == a \div c
           r == b \div c
<1>1. q \in Int /\ r \in Int /\ a = c * q + (a % c) /\ b = c * r + (b % c) /\ a % c \in Int
  BY DivisionParts
<1> HIDE DEF q, r
<1>2. a - b = c * q - c * r
  BY <1>1
<1>3. c * q - c * r = c * (q - r)
  BY <1>1
<1>4. (c * (q - r)) % c = 0
  BY <1>1, MultiplesLeaveNothing
<1> QED BY <1>2, <1>3, <1>4

LEMMA ProductGrows ==
  ASSUME NEW k \in Nat, NEW n \in Nat, k < n, NEW c \in Nat
  PROVE  k * c \in Nat /\ (k + 1) * c <= n * c
<1> DEFINE d == n - (k + 1)
<1>1. d \in Nat /\ n = (k + 1) + d
  OBVIOUS
<1> HIDE DEF d
<1>2. n * c = (k + 1) * c + d * c
  BY <1>1
<1>3. d * c \in Nat /\ (k + 1) * c \in Nat /\ k * c \in Nat
  BY <1>1
<1> QED BY <1>2, <1>3

LEMMA QuotientHolds ==
  ASSUME NEW n \in Nat, NEW c \in Nat \ {0}, NEW a \in Nat, n * c <= a
  PROVE  n \in 0 .. a \div c
<1> DEFINE q == a \div c
<1>1. q \in Nat /\ a % c \in 0 .. c - 1 /\ a = c * q + (a % c)
  BY DivisionParts
<1> HIDE DEF q
<1>2. ASSUME q < n PROVE FALSE
  <2>1. (q + 1) * c <= n * c
    BY <1>1, <1>2, ProductGrows
  <2>2. (q + 1) * c = c * q + c
    BY <1>1
  <2> QED BY <1>1, <2>1, <2>2
<1> QED BY <1>1, <1>2 DEF q

-----------------------------------------------------------------------------
(***************************************************************************)
(* What the control interrupt leaves alone, and the saving of the          *)
(* configuration and a drive that reboots with it.                         *)
(***************************************************************************)
LEMMA ControlKeeps ==
  ASSUME ControlTick \/ PersistConfig \/ Rebooting
  PROVE  /\ UNCHANGED <<hostVars, rx, tx, spawned, running, handling, setpointVars, updateVars>>
         /\ interrupted' = interrupted \/ (interrupted' \in BOOLEAN /\ (interrupted' => handling # NoFrame))
<1>1. CASE ControlTick
  <2>1. PICK live, polarity_known, causes : Control(live, polarity_known, causes)
    BY <1>1 DEF ControlTick
  <2> QED BY <2>1 DEF Control
<1>2. CASE PersistConfig
  BY <1>2 DEF PersistConfig, taskVars
<1>3. CASE Rebooting
  <2>1. UNCHANGED vars
    BY <1>3 DEF Rebooting
  <2> QED BY <2>1 DEF vars, hostVars, setpointVars, updateVars
<1> QED BY <1>1, <1>2, <1>3

(***************************************************************************)
(* The counters of what has happened.  Only a demand of the host's counts  *)
(* as a setpoint.                                                          *)
(***************************************************************************)
CountKinds == {"mishaps", "setpoints", "captures"}
CountsTyped == counts \in [CountKinds -> Nat]

LEMMA CountsChange ==
  ASSUME Next
  PROVE  \/ UNCHANGED counts
         \/ Counted("mishaps")
         \/ HostDemandsTorque
         \/ ControlTick
         \/ HandleCapture
<1>1. CASE Bus
  BY <1>1 DEF Bus, FrameArrives, FrameIsLost, FrameIsRepeated, SetpointIsCorrupted, FrameIsSent
<1>2. CASE Telemetry \/ DumpFrameIsQueued \/ PersistConfig \/ Rebooting
  BY <1>2 DEF Telemetry, DumpFrameIsQueued, PersistConfig, Rebooting, vars
<1>3. CASE Runs \/ Takes \/ FindsNone \/ Ends
  BY <1>3 DEF Runs, Takes, FindsNone, Ends
<1>4. CASE Handlers
  <2>1. CASE HandleModeRequest \/ AcceptSetpoint \/ RejectSetpoint \/ HandleConfig \/ HandleQuery
    BY <2>1 DEF HandleModeRequest, AcceptSetpoint, RejectSetpoint, HandleConfig, HandleQuery
  <2>2. CASE ChunkOutOfSequence \/ ChunkTooMuch \/ ChunkStaged \/ StageWritten \/ StageFails
    BY <2>2 DEF ChunkOutOfSequence, ChunkTooMuch, ChunkStaged, StageWritten, StageFails, WriteFails
  <2>3. CASE ApplyIncomplete \/ FlushFails \/ ApplyMismatched \/ MarkFails \/ ApplyUpdate
    BY <2>3 DEF ApplyIncomplete, FlushFails, ApplyMismatched, MarkFails, ApplyUpdate, WriteFails
  <2> QED BY <1>4, <2>1, <2>2, <2>3 DEF Handlers
<1>5. CASE Host /\ ~HostDemandsTorque
  BY <1>5 DEF Host, HostRequests, HostConfigures, HostQueries, HostCaptures,
     HostSendsChunk, HostTimesOut, HostApplies, HostRecovers, HostSwitches
<1> QED BY <1>1, <1>2, <1>3, <1>4, <1>5 DEF Next, ReceiveTask

LEMMA NextCounts ==
  ASSUME CountsTyped, Next
  PROVE  /\ CountsTyped'
         /\ ~HostDemandsTorque => counts'.setpoints = counts.setpoints
<1>1. ASSUME NEW kind \in CountKinds, Counted(kind)
      PROVE  CountsTyped' /\ (kind # "setpoints" => counts'.setpoints = counts.setpoints)
  BY <1>1 DEF CountsTyped, Counted, CountKinds
<1>2. CASE UNCHANGED counts
  BY <1>2 DEF CountsTyped
<1>3. CASE Counted("mishaps")
  BY <1>1, <1>3 DEF CountKinds
<1>4. CASE HostDemandsTorque
  BY <1>1, <1>4 DEF HostDemandsTorque, CountKinds
<1>5. CASE ControlTick
  <2>1. PICK live \in BOOLEAN, polarity_known \in BOOLEAN,
             causes \in {{}} \cup {{c} : c \in InterruptCauses} : Control(live, polarity_known, causes)
    BY <1>5 DEF ControlTick
  <2>2. Cardinality(causes) \in Nat
    <3>1. CASE causes = {}
      BY <3>1, FS_EmptySet
    <3>2. CASE \E c \in InterruptCauses : causes = {c}
      BY <3>2, FS_Singleton
    <3> QED BY <3>1, <3>2
  <2>3. PICK number \in {counts.captures, counts.captures + 1} :
          counts' = [counts EXCEPT !.mishaps = @ + Cardinality(causes), !.captures = number]
    BY <2>1 DEF Control
  <2>4. number \in Nat /\ counts.mishaps + Cardinality(causes) \in Nat
    BY <2>2, <2>3 DEF CountsTyped, CountKinds
  <2> QED BY <2>3, <2>4 DEF CountsTyped, CountKinds
<1>6. CASE HandleCapture
  <2>1. counts' \in {counts, [counts EXCEPT !.captures = @ + 1]}
    BY <1>6 DEF HandleCapture
  <2> QED BY <2>1 DEF CountsTyped, CountKinds
<1> QED BY <1>2, <1>3, <1>4, <1>5, <1>6, CountsChange

-----------------------------------------------------------------------------
(***************************************************************************)
(* The setpoints in flight.  A host that waits for one before it sends the *)
(* next has one number in flight, however often the bus repeats it: that   *)
(* of its last setpoint.                                                   *)
(***************************************************************************)
Current(f, n) == f # NoFrame /\ f.id = "Setpoint" => f.number = n /\ n > 0

SetpointsCurrent ==
  /\ Current(wire, counts.setpoints) /\ Current(handling, counts.setpoints)
  /\ \E S : rx \in Seq(S) /\ \A f \in S : Current(f, counts.setpoints)

LEMMA InterruptKeepsCurrent ==
  ASSUME SetpointsCurrent, NEW frame, Current(frame, counts.setpoints), CanInterrupt(frame)
  PROVE  \E S : rx' \in Seq(S) /\ \A f \in S : Current(f, counts.setpoints)
<1>1. PICK S : rx \in Seq(S) /\ \A f \in S : Current(f, counts.setpoints)
  BY DEF SetpointsCurrent
<1> DEFINE T == S \cup {frame}
<1>2. rx \in Seq(T)
  BY <1>1
<1>3. rx' \in Seq(T)
  <2>1. Append(rx, frame) \in Seq(T)
    BY <1>2
  <2> QED BY <1>2, <2>1 DEF CanInterrupt
<1>4. \A f \in T : Current(f, counts.setpoints)
  BY <1>1
<1> HIDE DEF T
<1> QED BY <1>3, <1>4

LEMMA NextCurrent ==
  ASSUME CountsTyped, SetpointsCurrent, Next PROVE SetpointsCurrent'
<1> DEFINE n == counts.setpoints
           Holding(x) == \E S : x \in Seq(S) /\ \A f \in S : Current(f, n)
<1>0. Current(wire, n) /\ Current(handling, n) /\ Current(NoFrame, n) /\ Holding(rx)
  BY DEF SetpointsCurrent, Current
<1>1. ASSUME ~HostDemandsTorque, Current(wire', n), Current(handling', n), Holding(rx')
      PROVE  SetpointsCurrent'
  <2>1. counts'.setpoints = n
    BY <1>1, NextCounts
  <2> QED BY <1>1, <2>1 DEF SetpointsCurrent, Current
<1> HIDE DEF Holding
<1>2. CASE UNCHANGED <<wire, rx, handling>> /\ ~HostDemandsTorque
  BY <1>0, <1>1, <1>2
<1>3. CASE HostDemandsTorque
  <2>1. /\ wire' = [id |-> "Setpoint", number |-> n + 1, intact |-> TRUE]
        /\ rx = <<>> /\ rx' = rx /\ handling = NoFrame /\ handling' = handling
    BY <1>3 DEF HostDemandsTorque, Puts, Quiet, taskVars
  <2>2. counts'.setpoints = n + 1 /\ n \in Nat
    BY <1>3 DEF HostDemandsTorque, Counted, CountsTyped, CountKinds
  <2>3. <<>> \in Seq({})
    OBVIOUS
  <2>4. Current(wire', n + 1) /\ Current(handling', n + 1)
    BY <2>1, <2>2 DEF Current
  <2>5. \E S : rx' \in Seq(S) /\ \A f \in S : Current(f, n + 1)
    <3>1. rx' \in Seq({}) /\ \A f \in {} : Current(f, n + 1)
      BY <2>1, <2>3
    <3> HIDE DEF n
    <3> QED BY <3>1
  <2> QED BY <2>2, <2>4, <2>5 DEF SetpointsCurrent
<1>4. CASE Bus
  <2>1. CASE FrameArrives
    <3>1. CanInterrupt(wire) /\ wire' = NoFrame /\ handling' = handling
      BY <2>1 DEF FrameArrives, taskVars
    <3>2. Holding(rx')
      BY <1>0, <3>1, InterruptKeepsCurrent DEF Holding
    <3> QED BY <1>0, <1>1, <2>1, <3>1, <3>2 DEF FrameArrives, HostDemandsTorque, Puts
  <2>2. CASE FrameIsLost
    <3>1. wire' = NoFrame /\ handling' = handling /\ rx' = rx
      BY <2>2 DEF FrameIsLost, taskVars
    <3> QED BY <1>0, <1>1, <2>2, <3>1 DEF FrameIsLost, Mishap, HostDemandsTorque, Quiet
  <2>3. CASE FrameIsRepeated
    <3>1. CanInterrupt(wire) /\ wire' = wire /\ handling' = handling
      BY <2>3 DEF FrameIsRepeated, taskVars
    <3>2. Holding(rx')
      BY <1>0, <3>1, InterruptKeepsCurrent DEF Holding
    <3> QED BY <1>0, <1>1, <2>3, <3>1, <3>2 DEF FrameIsRepeated, Mishap, HostDemandsTorque, Quiet
  <2>4. CASE SetpointIsCorrupted
    <3> DEFINE frame == [id |-> "Setpoint", number |-> wire.number, intact |-> FALSE]
    <3>1. wire # NoFrame /\ wire.id = "Setpoint"
      BY <2>4 DEF SetpointIsCorrupted, Mishap
    <3>2. Current(frame, n)
      BY <1>0, <3>1 DEF Current
    <3>3. CanInterrupt(frame) /\ wire' = NoFrame /\ handling' = handling
      BY <2>4 DEF SetpointIsCorrupted, taskVars
    <3>4. Holding(rx')
      BY <3>2, <3>3, InterruptKeepsCurrent DEF Holding
    <3> QED BY <1>0, <1>1, <3>1, <3>3, <3>4 DEF HostDemandsTorque, Quiet
  <2>5. CASE FrameIsSent
    <3>1. UNCHANGED <<wire, rx, handling>>
      BY <2>5 DEF FrameIsSent, taskVars
    <3> QED BY <1>2, <1>3, <3>1
  <2> QED BY <1>4, <2>1, <2>2, <2>3, <2>4, <2>5 DEF Bus
<1>5. CASE UNCHANGED <<wire, rx, handling>>
  BY <1>2, <1>3, <1>5
<1>6. CASE Telemetry \/ DumpFrameIsQueued \/ ControlTick \/ PersistConfig \/ Rebooting
  <2>1. UNCHANGED <<wire, rx, handling>>
    BY <1>6, ControlKeeps DEF Telemetry, DumpFrameIsQueued, hostVars, taskVars
  <2> QED BY <1>5, <2>1
<1>7. CASE Runs \/ FindsNone \/ Ends
  BY <1>5, <1>7 DEF Runs, FindsNone, Ends, hostVars
<1>8. CASE Takes
  <2>1. PICK S : rx \in Seq(S) /\ \A f \in S : Current(f, n)
    BY DEF SetpointsCurrent
  <2>2. rx # <<>> /\ rx' = Tail(rx) /\ handling' \in {Head(rx), NoFrame} /\ wire' = wire
    BY <1>8 DEF Takes, hostVars
  <2>3. Head(rx) \in S /\ Tail(rx) \in Seq(S)
    BY <2>1, <2>2
  <2>4. Current(handling', n) /\ Holding(rx')
    BY <1>0, <2>1, <2>2, <2>3 DEF Holding
  <2> QED BY <1>0, <1>1, <2>2, <2>4 DEF HostDemandsTorque, Quiet
<1>9. CASE Handlers
  <2>1. handling # NoFrame /\ handling' = NoFrame /\ wire' = wire /\ rx' = rx
    BY <1>9, HandlerTakesFrame
  <2> QED BY <1>0, <1>1, <2>1 DEF HostDemandsTorque, Quiet
<1>10. CASE Host /\ ~HostDemandsTorque
  <2>1. ASSUME NEW f, Puts(f), Current(f, n) PROVE SetpointsCurrent'
    <3>1. wire' = f /\ rx' = rx /\ handling' = handling
      BY <2>1 DEF Puts, taskVars
    <3> QED BY <1>0, <1>1, <1>10, <2>1, <3>1
  <2>2. \A f : f.id # "Setpoint" => Current(f, n)
    BY DEF Current
  <2>3. CASE HostRequests
    BY <2>1, <2>2, <2>3 DEF HostRequests
  <2>4. CASE HostConfigures
    <3>1. \A f \in ConfigFrames : f.id # "Setpoint"
      BY CanNodeAssumption DEF ConfigFrameType
    <3> QED BY <2>1, <2>2, <2>4, <3>1 DEF HostConfigures
  <2>5. CASE HostQueries
    BY <2>1, <2>2, <2>5 DEF HostQueries
  <2>6. CASE HostCaptures
    BY <2>1, <2>2, <2>6 DEF HostCaptures
  <2>7. CASE HostSendsChunk
    BY <2>1, <2>2, <2>7 DEF HostSendsChunk
  <2>8. CASE HostApplies
    BY <2>1, <2>2, <2>8 DEF HostApplies
  <2>9. CASE HostRecovers
    BY <2>1, <2>2, <2>9 DEF HostRecovers
  <2>10. CASE HostTimesOut \/ HostSwitches
    BY <1>2, <1>10, <2>10 DEF HostTimesOut, HostSwitches, busVars, taskVars
  <2> QED BY <1>10, <2>3, <2>4, <2>5, <2>6, <2>7, <2>8, <2>9, <2>10 DEF Host
<1> QED BY <1>3, <1>4, <1>6, <1>7, <1>8, <1>9, <1>10 DEF Next, ReceiveTask

-----------------------------------------------------------------------------
(***************************************************************************)
(* The integrity check remembers the rolling counter of the newest         *)
(* setpoint; the level of the bucket tells how long ago the last bad       *)
(* setpoint was and whether it tripped (debounce.rs with the rates and the *)
(* capacity of constants.rs).                                              *)
(***************************************************************************)
CodeBucket == FillRate = 2 /\ DrainRate = 1 /\ Capacity = 3

LevelAfter(b) ==
  LET top == IF b.tripped THEN 3 ELSE 2
  IN  IF b.quiet >= top THEN 0 ELSE top - b.quiet

Remembers ==
  /\ newest \in Nat /\ newest <= counts.setpoints
  /\ integrity.last = IF newest = 0 THEN NoCounter ELSE RollingCounter(newest)

Measures ==
  /\ integrity = [last |-> integrity.last, level |-> integrity.level]
  /\ burst \in [quiet : 0 .. QuietLong, tripped : BOOLEAN]
  /\ integrity.level = LevelAfter(burst)

LEMMA OthersKeepGuard ==
  ASSUME Next, ~AcceptSetpoint, ~RejectSetpoint PROVE UNCHANGED <<integrity, newest, burst>>
<1>1. CASE Bus
  BY <1>1 DEF Bus, FrameArrives, FrameIsLost, FrameIsRepeated, SetpointIsCorrupted, FrameIsSent, setpointVars
<1>2. CASE Telemetry \/ DumpFrameIsQueued \/ ControlTick \/ PersistConfig \/ Rebooting
  BY <1>2, ControlKeeps DEF Telemetry, DumpFrameIsQueued, setpointVars
<1>3. CASE Runs \/ Takes \/ FindsNone \/ Ends
  BY <1>3 DEF Runs, Takes, FindsNone, Ends, setpointVars
<1>4. CASE Handlers
  <2>1. CASE HandleModeRequest \/ HandleConfig \/ HandleQuery \/ HandleCapture
    BY <2>1 DEF HandleModeRequest, HandleConfig, HandleQuery, HandleCapture, setpointVars
  <2>2. CASE ChunkOutOfSequence \/ ChunkTooMuch \/ ChunkStaged \/ StageWritten \/ StageFails
    BY <2>2 DEF ChunkOutOfSequence, ChunkTooMuch, ChunkStaged, StageWritten, StageFails, FullStage, setpointVars
  <2>3. CASE ApplyIncomplete \/ FlushFails \/ ApplyMismatched \/ MarkFails \/ ApplyUpdate
    BY <2>3 DEF ApplyIncomplete, FlushFails, ApplyMismatched, MarkFails, ApplyUpdate, Applies, setpointVars
  <2> QED BY <1>4, <2>1, <2>2, <2>3 DEF Handlers
<1>5. CASE Host
  BY <1>5 DEF Host, HostRequests, HostConfigures, HostDemandsTorque, HostQueries, HostCaptures,
     HostSendsChunk, HostTimesOut, HostApplies, HostRecovers, HostSwitches, Puts, setpointVars
<1> QED BY <1>1, <1>2, <1>3, <1>4, <1>5 DEF Next, ReceiveTask

(***************************************************************************)
(* An accepted setpoint is the host's last one, and newer than the newest: *)
(* were it that one again, its rolling counter would be the remembered.    *)
(***************************************************************************)
LEMMA AcceptedIsNewer ==
  ASSUME CountsTyped, SetpointsCurrent, Remembers, AcceptSetpoint
  PROVE  /\ handling.intact /\ handling.number > newest
         /\ newest' = handling.number /\ newest' \in Nat /\ newest' = counts.setpoints
         /\ counts' = counts
<1>1. handling # NoFrame /\ handling.id = "Setpoint" /\ Genuine(integrity.last, handling)
  BY DEF AcceptSetpoint, Handles
<1>2. handling.number = counts.setpoints /\ counts.setpoints \in Nat /\ counts.setpoints > 0
  BY <1>1 DEF SetpointsCurrent, Current, CountsTyped, CountKinds
<1>3. handling.number # newest
  BY <1>1, <1>2 DEF Genuine, Remembers
<1>4. newest' = handling.number /\ counts' = counts
  BY DEF AcceptSetpoint
<1> QED BY <1>1, <1>2, <1>3, <1>4 DEF Remembers, Genuine

LEMMA NextRemembers ==
  ASSUME CountsTyped, SetpointsCurrent, Remembers, Next PROVE Remembers'
<1>1. counts.setpoints \in Nat /\ counts'.setpoints \in Nat
  BY NextCounts DEF CountsTyped, CountKinds
<1>2. CASE AcceptSetpoint
  <2>1. newest' \in Nat /\ newest' = counts.setpoints /\ counts' = counts /\ newest' > newest /\ newest \in Nat
    BY <1>2, AcceptedIsNewer DEF Remembers
  <2>2. integrity'.last = RollingCounter(handling.number) /\ newest' = handling.number
    BY <1>2 DEF AcceptSetpoint
  <2> QED BY <1>1, <2>1, <2>2 DEF Remembers
<1>3. CASE RejectSetpoint
  <2>1. newest' = newest /\ counts' = counts /\ integrity' = [integrity EXCEPT !.level = Filled(@)]
    BY <1>3 DEF RejectSetpoint
  <2> QED BY <2>1 DEF Remembers
<1>4. CASE ~AcceptSetpoint /\ ~RejectSetpoint
  <2>1. UNCHANGED <<integrity, newest>>
    BY <1>4, OthersKeepGuard
  <2>2. counts.setpoints <= counts'.setpoints
    <3>1. CASE HostDemandsTorque
      BY <1>1, <3>1 DEF HostDemandsTorque, Counted, CountsTyped, CountKinds
    <3>2. CASE ~HostDemandsTorque
      BY <1>1, <3>2, NextCounts
    <3> QED BY <3>1, <3>2
  <2> QED BY <1>1, <2>1, <2>2 DEF Remembers
<1> QED BY <1>2, <1>3, <1>4

LEMMA NextMeasures ==
  ASSUME CodeBucket, Measures, Next PROVE Measures'
<1>0. burst.quiet \in 0 .. 3 /\ burst.tripped \in BOOLEAN /\ integrity.level = LevelAfter(burst)
  BY DEF Measures, QuietLong
<1>1. CASE AcceptSetpoint
  <2> DEFINE quiet == IF burst.quiet < QuietLong THEN burst.quiet + 1 ELSE burst.quiet
  <2>1. burst' = [quiet |-> quiet, tripped |-> burst.tripped]
    BY <1>1 DEF AcceptSetpoint, Measures
  <2>2. integrity' = [last |-> integrity'.last, level |-> Drained(integrity.level)]
    BY <1>1 DEF AcceptSetpoint
  <2>3. quiet \in 0 .. 3
    BY <1>0 DEF QuietLong
  <2>4. Drained(integrity.level) = LevelAfter(burst')
    BY <1>0, <2>1 DEF Drained, LevelAfter, CodeBucket, QuietLong
  <2> HIDE DEF quiet
  <2> QED BY <1>0, <2>1, <2>2, <2>3, <2>4 DEF Measures, QuietLong
<1>2. CASE RejectSetpoint
  <2>1. burst' = [quiet |-> 0, tripped |-> SoonAfterBad]
    BY <1>2 DEF RejectSetpoint
  <2>2. integrity' = [last |-> integrity.last, level |-> Filled(integrity.level)]
    BY <1>2 DEF RejectSetpoint, Measures
  <2>3. SoonAfterBad \in BOOLEAN
    BY DEF SoonAfterBad
  <2>4. Filled(integrity.level) = IF SoonAfterBad THEN 3 ELSE 2
    BY <1>0 DEF Filled, LevelAfter, CodeBucket, QuietLong, SoonAfterBad
  <2>5. LevelAfter(burst') = IF SoonAfterBad THEN 3 ELSE 2
    BY <2>1 DEF LevelAfter
  <2> QED BY <2>1, <2>2, <2>3, <2>4, <2>5 DEF Measures, QuietLong
<1>3. CASE ~AcceptSetpoint /\ ~RejectSetpoint
  BY <1>3, OthersKeepGuard DEF Measures
<1> QED BY <1>1, <1>2, <1>3

LEMMA OnlySetpointHandlers ==
  ASSUME Next, handling # NoFrame, handling.id = "Setpoint", handling' = NoFrame
  PROVE  AcceptSetpoint \/ RejectSetpoint
<1>1. ASSUME NEW ids, Handles(ids) PROVE "Setpoint" \in ids
  BY <1>1 DEF Handles
<1>2. CASE Handlers
  <2>1. ~HandleModeRequest /\ ~HandleConfig /\ ~HandleQuery /\ ~HandleCapture
    BY <1>1 DEF HandleModeRequest, HandleConfig, HandleQuery, HandleCapture, ConfigIds
  <2>2. ~ChunkOutOfSequence /\ ~ChunkTooMuch /\ ~ChunkStaged /\ ~StageWritten /\ ~StageFails
    BY <1>1 DEF ChunkOutOfSequence, ChunkTooMuch, ChunkStaged, StageWritten, StageFails, FullStage
  <2>3. ~ApplyIncomplete /\ ~FlushFails /\ ~ApplyMismatched /\ ~MarkFails /\ ~ApplyUpdate
    BY <1>1 DEF ApplyIncomplete, FlushFails, ApplyMismatched, MarkFails, ApplyUpdate, Applies
  <2> QED BY <1>2, <2>1, <2>2, <2>3 DEF Handlers
<1>3. CASE Bus
  BY <1>3 DEF Bus, FrameArrives, FrameIsLost, FrameIsRepeated, SetpointIsCorrupted, FrameIsSent, taskVars
<1>4. CASE Telemetry \/ DumpFrameIsQueued \/ ControlTick \/ PersistConfig \/ Rebooting
  BY <1>4, ControlKeeps DEF Telemetry, DumpFrameIsQueued, taskVars
<1>5. CASE Runs \/ Takes \/ FindsNone \/ Ends
  BY <1>5 DEF Runs, Takes, FindsNone, Ends
<1>6. CASE Host
  BY <1>6 DEF Host, HostRequests, HostConfigures, HostDemandsTorque, HostQueries, HostCaptures,
     HostSendsChunk, HostTimesOut, HostApplies, HostRecovers, HostSwitches, Puts, taskVars
<1> QED BY <1>2, <1>3, <1>4, <1>5, <1>6 DEF Next, ReceiveTask

(***************************************************************************)
(* A refused setpoint that is intact repeats the remembered counter, and   *)
(* the drive faults exactly when the bucket was not empty before it.       *)
(***************************************************************************)
LEMMA RejectedIsOld ==
  ASSUME CodeBucket, CountsTyped, SetpointsCurrent, Remembers, Measures, RejectSetpoint
  PROVE  /\ newest' = newest
         /\ handling.intact /\ newest > 0 => (handling.number - newest) % Counters = 0
         /\ SoonAfterBad => mode'.tag = "Fault"
         /\ ~SoonAfterBad => mode' = mode
<1>1. newest' = newest /\ integrity' = [integrity EXCEPT !.level = Filled(@)]
  BY DEF RejectSetpoint
<1>2. ASSUME handling.intact, newest > 0
      PROVE  (handling.number - newest) % Counters = 0
  <2>1. handling # NoFrame /\ handling.id = "Setpoint" /\ ~Genuine(integrity.last, handling)
    BY DEF RejectSetpoint, Handles
  <2>2. handling.number = counts.setpoints /\ counts.setpoints \in Nat /\ newest \in Nat
    BY <2>1 DEF SetpointsCurrent, Current, CountsTyped, CountKinds, Remembers
  <2>3. RollingCounter(handling.number) = RollingCounter(newest)
    BY <1>2, <2>1, <2>2 DEF Genuine, Remembers
  <2>4. Counters \in Nat \ {0}
    BY SetpointIntegrityAssumption
  <2> QED BY <2>2, <2>3, <2>4, SameRemainder DEF RollingCounter
<1>3. Tripped(integrity'.level) <=> SoonAfterBad
  <2>1. integrity'.level = Filled(integrity.level)
    BY <1>1 DEF Measures
  <2>2. burst.quiet \in 0 .. 3 /\ integrity.level = LevelAfter(burst)
    BY DEF Measures, QuietLong
  <2> QED BY <2>1, <2>2 DEF Tripped, Filled, LevelAfter, CodeBucket, SoonAfterBad, QuietLong
<1>4. \A m, cause : AssertFault(m, cause).tag = "Fault"
  BY DEF AssertFault, Faulted, Mode
<1>5. IF Tripped(integrity'.level) THEN Asserts("CANMessageIntegrity") ELSE UNCHANGED mode
  BY DEF RejectSetpoint
<1> QED BY <1>1, <1>2, <1>3, <1>4, <1>5 DEF Asserts

GuardInv == CountsTyped /\ SetpointsCurrent /\ Remembers /\ Measures

LEMMA InitGuard == Init => GuardInv
<1> SUFFICES ASSUME Init PROVE GuardInv
  OBVIOUS
<1>1. CountsTyped
  BY DEF Init, CountsTyped, CountKinds
<1>2. SetpointsCurrent
  <2>1. <<>> \in Seq({})
    OBVIOUS
  <2>2. wire = NoFrame /\ handling = NoFrame /\ rx = <<>>
    BY DEF Init
  <2> QED BY <2>1, <2>2 DEF SetpointsCurrent, Current
<1>3. Remembers
  BY <1>1 DEF Init, Remembers, CountKinds
<1>4. Measures
  BY DEF Init, Measures, LevelAfter, QuietLong
<1> QED BY <1>1, <1>2, <1>3, <1>4 DEF GuardInv

LEMMA NextGuard == CodeBucket /\ GuardInv /\ [Next]_vars => GuardInv'
<1> SUFFICES ASSUME CodeBucket, GuardInv, [Next]_vars PROVE GuardInv'
  OBVIOUS
<1>1. CASE Next
  BY <1>1, NextCounts, NextCurrent, NextRemembers, NextMeasures DEF GuardInv
<1>2. CASE UNCHANGED vars
  BY <1>2 DEF GuardInv, vars, CountsTyped, SetpointsCurrent, Remembers, Measures
<1> QED BY <1>1, <1>2

(***************************************************************************)
(* A setpoint takes effect once and in order, however frames are lost,     *)
(* repeated or corrupted, and the drive faults on the second bad one of a  *)
(* burst and on no other (integrity.rs, debounce.rs and can_rx.rs, with    *)
(* the rates and the capacity of constants.rs and any counter width).      *)
(***************************************************************************)
THEOREM SetpointAlwaysGuarded == ASSUME CodeBucket PROVE Spec => SetpointGuarded
<1> DEFINE Handled == handling # NoFrame /\ handling.id = "Setpoint" /\ handling' = NoFrame
           Guarded ==
             LET accepted == newest' # newest
             IN  /\ accepted => handling.intact /\ handling.number > newest
                 /\ ~accepted /\ handling.intact /\ newest > 0
                      => (handling.number - newest) % Counters = 0
                 /\ ~accepted /\ SoonAfterBad => mode'.tag = "Fault"
                 /\ mode' # mode => ~accepted /\ SoonAfterBad
<1>1. GuardInv /\ [Next]_vars => [Handled => Guarded]_vars
  <2> SUFFICES ASSUME GuardInv, Next, Handled PROVE Guarded
    BY DEF vars
  <2>1. CASE AcceptSetpoint
    <3>1. handling.intact /\ handling.number > newest /\ newest' = handling.number /\ newest \in Nat /\ newest' \in Nat
      BY <2>1, AcceptedIsNewer DEF GuardInv, Remembers
    <3>2. mode' = mode
      BY <2>1 DEF AcceptSetpoint
    <3> QED BY <3>1, <3>2
  <2>2. CASE RejectSetpoint
    BY <2>2, RejectedIsOld DEF GuardInv
  <2> QED BY <2>1, <2>2, OnlySetpointHandlers
<1> HIDE DEF Handled, Guarded
<1>2. GuardInv /\ [Next]_vars => GuardInv'
  BY NextGuard
<1>3. Spec => [][Handled => Guarded]_vars
  BY <1>1, <1>2, InitGuard, PTL DEF Spec
<1> QED BY <1>3 DEF SetpointGuarded, Handled, Guarded

-----------------------------------------------------------------------------
(***************************************************************************)
(* The dump.  The buffer of a capture that is under way or full holds that *)
(* capture's records and no others; a dump that was not preempted is at    *)
(* rest until its capture is full, and carries words of that buffer only.  *)
(***************************************************************************)
CaptureType ==
  [state : {"IDLE", "RECORDING", "FULL"}, index : 0 .. CaptureLen - 1,
   cursor : 0 .. DumpFrames, buffer : [0 .. CaptureLen - 1 -> Nat]]
CaptureTyped == capture \in CaptureType

DumpTyped ==
  /\ dump = [frame |-> dump.frame, seen |-> dump.seen, preempted |-> dump.preempted]
  /\ dump.preempted \in BOOLEAN
  /\ running = "can_tx_task" => dump.frame \in 0 .. DumpFrames - 1

\* The buffer of capture c holds the records of the capture with this number.
HoldsCapture(c, number) ==
  /\ c.state # "IDLE" => number > 0
  /\ c.state = "RECORDING" => \A r \in 0 .. c.index - 1 : c.buffer[r] = number
  /\ c.state = "FULL" => \A r \in 0 .. CaptureLen - 1 : c.buffer[r] = number

DumpHonest ==
  ~dump.preempted =>
    /\ capture.state # "FULL" => capture.cursor = DumpFrames /\ dump.seen = {} /\ running # "can_tx_task"
    /\ capture.state = "FULL" => dump.seen \subseteq {counts.captures}

DumpInv == CountsTyped /\ CaptureTyped /\ DumpTyped /\ HoldsCapture(capture, counts.captures) /\ DumpHonest

LEMMA DumpFramesNat == DumpFrames \in Nat \ {0}
<1> DEFINE n == CaptureLen * WordsPerRecord
<1>1. n \in Nat /\ n >= 1
  BY DebugCaptureAssumption
<1> HIDE DEF n
<1>2. (n + WordsPerFrame - 1) \div WordsPerFrame \in Nat \ {0}
  BY <1>1, DebugCaptureAssumption
<1> QED BY <1>2 DEF DumpFrames, n

LEMMA StartCaptureTyped ==
  ASSUME NEW c \in CaptureType
  PROVE  /\ StartCapture(c) \in CaptureType
         /\ StartCapture(c).state = "RECORDING" /\ StartCapture(c).cursor = DumpFrames
         /\ StartCapture(c).index = 0
<1>1. StartCapture(c) =
        [state |-> "RECORDING", index |-> 0, cursor |-> DumpFrames, buffer |-> c.buffer]
  <2>1. StartCapture(c) = [c EXCEPT !.index = 0, !.cursor = DumpFrames, !.state = "RECORDING"]
    BY DEF StartCapture
  <2> QED BY <2>1 DEF CaptureType
<1>2. 0 \in 0 .. CaptureLen - 1 /\ DumpFrames \in 0 .. DumpFrames
  BY DumpFramesNat, DebugCaptureAssumption
<1>3. c.buffer \in [0 .. CaptureLen - 1 -> Nat]
  BY DEF CaptureType
<1> QED BY <1>1, <1>2, <1>3 DEF CaptureType

LEMMA RecordTyped ==
  ASSUME NEW c \in CaptureType, NEW n \in Nat
  PROVE  /\ Record(c, n) \in CaptureType
         /\ Record(c, n).cursor = c.cursor
         /\ c.state # "RECORDING" => Record(c, n) = c
         /\ c.state = "RECORDING" => Record(c, n).state \in {"RECORDING", "FULL"}
         /\ HoldsCapture(c, n) => HoldsCapture(Record(c, n), n)
<1>0. CaptureLen \in Nat \ {0}
  BY DebugCaptureAssumption
<1>1. CASE c.state # "RECORDING"
  BY <1>1 DEF Record
<1>2. CASE c.state = "RECORDING"
  <2> DEFINE full == c.index + 1 = CaptureLen
             buffer == [c.buffer EXCEPT ![c.index] = n]
             index == IF full THEN c.index ELSE c.index + 1
             state == IF full THEN "FULL" ELSE "RECORDING"
  <2>1. Record(c, n) = [c EXCEPT !.buffer = buffer, !.index = index, !.state = state]
    BY <1>2 DEF Record, Fills, CaptureType
  <2>2. c.index \in 0 .. CaptureLen - 1 /\ c.buffer \in [0 .. CaptureLen - 1 -> Nat]
    BY DEF CaptureType
  <2>3. buffer \in [0 .. CaptureLen - 1 -> Nat] /\ index \in 0 .. CaptureLen - 1 /\ state \in {"RECORDING", "FULL"}
    BY <1>0, <2>2
  <2>4. ASSUME HoldsCapture(c, n)
        PROVE  /\ n > 0
               /\ state = "RECORDING" => \A r \in 0 .. index - 1 : buffer[r] = n
               /\ state = "FULL" => \A r \in 0 .. CaptureLen - 1 : buffer[r] = n
    BY <1>0, <1>2, <2>2, <2>4 DEF HoldsCapture
  <2> HIDE DEF buffer, index, state
  <2>5. Record(c, n) = [state |-> state, index |-> index, cursor |-> c.cursor, buffer |-> buffer]
    BY <2>1 DEF CaptureType
  <2>6. Record(c, n) \in CaptureType
    BY <2>3, <2>5 DEF CaptureType
  <2> QED BY <1>2, <2>3, <2>4, <2>5, <2>6 DEF HoldsCapture
<1> QED BY <1>1, <1>2

\* A frame carries words of the buffer.
LEMMA WordsOfBuffer ==
  ASSUME NEW c \in CaptureType, NEW n, \A r \in 0 .. CaptureLen - 1 : c.buffer[r] = n
  PROVE  Words(c) \subseteq {n}
<1> SUFFICES ASSUME NEW v \in c.cursor * WordsPerFrame .. (c.cursor + 1) * WordsPerFrame - 1,
                    v \div WordsPerRecord < CaptureLen
             PROVE  c.buffer[v \div WordsPerRecord] = n
  BY DEF Words
<1>1. c.cursor \in Nat /\ WordsPerFrame \in Nat /\ WordsPerRecord \in Nat \ {0} /\ CaptureLen \in Nat
  BY DebugCaptureAssumption, DumpFramesNat DEF CaptureType
<1>2. c.cursor * WordsPerFrame \in Nat
  BY <1>1
<1>3. (c.cursor + 1) * WordsPerFrame \in Nat
  BY <1>1
<1>4. v \in Nat
  BY <1>2, <1>3
<1>5. v \div WordsPerRecord \in Nat
  BY <1>1, <1>4, DivisionParts
<1> QED BY <1>1, <1>5

LEMMA RequestDumpTyped ==
  ASSUME NEW c \in CaptureType
  PROVE  /\ RequestDump(c) \in CaptureType
         /\ RequestDump(c).state = c.state
         /\ RequestDump(c) # c => c.state = "FULL"
         /\ \A n : HoldsCapture(c, n) => HoldsCapture(RequestDump(c), n)
<1>1. CASE c.state # "FULL"
  BY <1>1 DEF RequestDump
<1>2. CASE c.state = "FULL"
  <2>1. RequestDump(c) = [c EXCEPT !.cursor = 0]
    BY <1>2 DEF RequestDump
  <2>2. 0 \in 0 .. DumpFrames
    BY DumpFramesNat
  <2>3. /\ RequestDump(c) \in CaptureType
        /\ RequestDump(c).state = c.state /\ RequestDump(c).index = c.index /\ RequestDump(c).buffer = c.buffer
    BY <2>1, <2>2 DEF CaptureType
  <2> QED BY <1>2, <2>3 DEF HoldsCapture
<1> QED BY <1>1, <1>2

LEMMA OthersKeepDump ==
  ASSUME Next, ~Telemetry, ~DumpFrameIsQueued, ~ControlTick, ~HandleCapture
  PROVE  UNCHANGED <<capture, dump>> /\ (running' = "can_tx_task" => running = "can_tx_task")
<1>1. CASE Bus
  BY <1>1 DEF Bus, FrameArrives, FrameIsLost, FrameIsRepeated, SetpointIsCorrupted, FrameIsSent, taskVars, captureVars
<1>2. CASE PersistConfig \/ Rebooting
  BY <1>2 DEF PersistConfig, Rebooting, vars, taskVars, captureVars
<1>3. CASE Runs \/ Takes \/ FindsNone \/ Ends
  BY <1>3 DEF Runs, Takes, FindsNone, Ends, captureVars
<1>4. CASE Handlers
  <2>1. CASE HandleModeRequest \/ AcceptSetpoint \/ RejectSetpoint \/ HandleConfig \/ HandleQuery
    BY <2>1 DEF HandleModeRequest, AcceptSetpoint, RejectSetpoint, HandleConfig, HandleQuery, captureVars
  <2>2. CASE ChunkOutOfSequence \/ ChunkTooMuch \/ ChunkStaged \/ StageWritten \/ StageFails
    BY <2>2 DEF ChunkOutOfSequence, ChunkTooMuch, ChunkStaged, StageWritten, StageFails, FullStage, captureVars
  <2>3. CASE ApplyIncomplete \/ FlushFails \/ ApplyMismatched \/ MarkFails
    BY <2>3 DEF ApplyIncomplete, FlushFails, ApplyMismatched, MarkFails, Applies, captureVars
  <2>4. CASE ApplyUpdate
    BY <2>4 DEF ApplyUpdate, Applies, captureVars
  <2> QED BY <1>4, <2>1, <2>2, <2>3, <2>4 DEF Handlers
<1>5. CASE Host
  BY <1>5 DEF Host, HostRequests, HostConfigures, HostDemandsTorque, HostQueries, HostCaptures,
     HostSendsChunk, HostTimesOut, HostApplies, HostRecovers, HostSwitches, Puts, taskVars, captureVars
<1> QED BY <1>1, <1>2, <1>3, <1>4, <1>5 DEF Next, ReceiveTask

LEMMA OthersKeepCaptureCount ==
  ASSUME CountsTyped, Next, ~ControlTick, ~HandleCapture PROVE counts'.captures = counts.captures
<1>1. CASE HostDemandsTorque
  BY <1>1 DEF HostDemandsTorque, Counted, CountsTyped, CountKinds
<1>2. CASE Counted("mishaps")
  BY <1>2 DEF Counted, CountsTyped, CountKinds
<1> QED BY <1>1, <1>2, CountsChange

LEMMA TelemetryDumps ==
  ASSUME DumpInv, Telemetry PROVE CaptureTyped' /\ DumpTyped' /\ HoldsCapture(capture', counts'.captures) /\ DumpHonest'
<1>1. capture' = capture /\ counts' = counts /\ running = "none"
  BY DEF Telemetry
<1>2. PICK dumps \in BOOLEAN :
        /\ dumps => Dumping(capture)
        /\ running' = IF dumps THEN "can_tx_task" ELSE "none"
        /\ dump' = IF dumps
                   THEN [dump EXCEPT !.frame = capture.cursor,
                                     !.seen = (IF capture.cursor = 0 THEN {} ELSE @) \cup Words(capture)]
                   ELSE dump
  BY DEF Telemetry
<1>3. CASE ~dumps
  BY <1>1, <1>2, <1>3 DEF DumpInv, CaptureTyped, DumpTyped, DumpHonest
<1>4. CASE dumps
  <2> DEFINE seen == (IF capture.cursor = 0 THEN {} ELSE dump.seen) \cup Words(capture)
  <2>1. dump' = [frame |-> capture.cursor, seen |-> seen, preempted |-> dump.preempted]
    BY <1>2, <1>4 DEF DumpInv, DumpTyped
  <2>2. capture.cursor \in 0 .. DumpFrames - 1
    BY <1>2, <1>4, DumpFramesNat DEF Dumping, DumpInv, CaptureTyped, CaptureType
  <2>3. ASSUME ~dump.preempted
        PROVE  capture.state = "FULL" /\ seen \subseteq {counts.captures}
    <3>1. capture.state = "FULL"
      BY <2>2, <2>3, DumpFramesNat DEF DumpInv, DumpHonest
    <3>2. Words(capture) \subseteq {counts.captures}
      BY <3>1, WordsOfBuffer DEF DumpInv, HoldsCapture, CaptureTyped
    <3>3. dump.seen \subseteq {counts.captures}
      BY <2>3, <3>1 DEF DumpInv, DumpHonest
    <3> QED BY <3>1, <3>2, <3>3
  <2> HIDE DEF seen
  <2> QED BY <1>1, <2>1, <2>2, <2>3 DEF DumpInv, CaptureTyped, DumpTyped, DumpHonest
<1> QED BY <1>3, <1>4

LEMMA QueuedDumps ==
  ASSUME DumpInv, DumpFrameIsQueued
  PROVE  CaptureTyped' /\ DumpTyped' /\ HoldsCapture(capture', counts'.captures) /\ DumpHonest'
<1>1. /\ running = "can_tx_task" /\ running' = "none" /\ counts' = counts
      /\ capture' = [capture EXCEPT !.cursor = dump.frame + 1]
      /\ dump' = [dump EXCEPT !.frame = DumpFrames]
  BY DEF DumpFrameIsQueued
<1>2. dump.frame + 1 \in 0 .. DumpFrames
  BY <1>1, DumpFramesNat DEF DumpInv, DumpTyped
<1>3. /\ capture' \in CaptureType
      /\ capture'.state = capture.state /\ capture'.index = capture.index /\ capture'.buffer = capture.buffer
  BY <1>1, <1>2 DEF DumpInv, CaptureTyped, CaptureType
<1>4. dump' = [frame |-> DumpFrames, seen |-> dump.seen, preempted |-> dump.preempted]
  BY <1>1 DEF DumpInv, DumpTyped
<1>5. HoldsCapture(capture', counts'.captures)
  BY <1>1, <1>3 DEF DumpInv, HoldsCapture
<1> QED BY <1>1, <1>3, <1>4, <1>5 DEF DumpInv, CaptureTyped, DumpTyped, DumpHonest

LEMMA ControlDumps ==
  ASSUME DumpInv, ControlTick
  PROVE  CaptureTyped' /\ DumpTyped' /\ HoldsCapture(capture', counts'.captures) /\ DumpHonest'
<1>1. PICK live \in BOOLEAN, polarity_known \in BOOLEAN,
           causes \in {{}} \cup {{c} : c \in InterruptCauses} : Control(live, polarity_known, causes)
  BY DEF ControlTick
<1> DEFINE starts == live /\ AlignEnds(test)
           begun == IF starts THEN StartCapture(capture) ELSE capture
           number == IF starts THEN counts.captures + 1 ELSE counts.captures
<1>2. /\ counts' = [counts EXCEPT !.mishaps = @ + Cardinality(causes), !.captures = number]
      /\ capture' \in {Record(begun, number), begun}
      /\ dump' = IF starts
                 THEN [dump EXCEPT !.seen = {}, !.preempted = running = "can_tx_task"]
                 ELSE dump
      /\ running' = running
  BY <1>1 DEF Control, taskVars
<1>3. counts.captures \in Nat /\ counts'.captures = number
  BY <1>2 DEF DumpInv, CountsTyped, CountKinds
<1>4. /\ number \in Nat /\ begun \in CaptureType /\ HoldsCapture(begun, number)
      /\ starts => begun.cursor = DumpFrames
  <2>1. CASE starts
    BY <1>3, <2>1, StartCaptureTyped, DebugCaptureAssumption DEF DumpInv, CaptureTyped, HoldsCapture
  <2>2. CASE ~starts
    BY <1>3, <2>2 DEF DumpInv, CaptureTyped
  <2> QED BY <2>1, <2>2
<1>5. /\ capture' \in CaptureType /\ HoldsCapture(capture', number) /\ capture'.cursor = begun.cursor
      /\ begun.state # "RECORDING" => capture' = begun
      /\ begun.state = "RECORDING" => capture'.state \in {"RECORDING", "FULL"}
  BY <1>2, <1>4, RecordTyped
<1>6. CASE starts
  <2>1. dump' = [frame |-> dump.frame, seen |-> {}, preempted |-> (running = "can_tx_task")]
    BY <1>2, <1>6 DEF DumpInv, DumpTyped
  <2>2. DumpTyped'
    BY <1>2, <2>1 DEF DumpInv, DumpTyped
  <2>3. DumpHonest'
    BY <1>2, <1>4, <1>5, <1>6, <2>1 DEF DumpHonest
  <2> QED BY <1>3, <1>5, <2>2, <2>3 DEF CaptureTyped
<1>7. CASE ~starts
  <2>1. dump' = dump /\ begun = capture /\ number = counts.captures
    BY <1>2, <1>7
  <2> HIDE DEF starts, begun, number
  <2>2. DumpTyped'
    BY <1>2, <2>1 DEF DumpInv, DumpTyped
  <2>3. capture.state = "FULL" => capture' = capture
    BY <1>5, <2>1
  <2>4. capture'.cursor = capture.cursor /\ running' = running /\ counts'.captures = counts.captures
    BY <1>2, <1>3, <1>5, <2>1
  <2>5. DumpHonest'
    <3> SUFFICES ASSUME ~dump.preempted
                 PROVE  /\ capture'.state # "FULL" =>
                             capture'.cursor = DumpFrames /\ dump.seen = {} /\ running # "can_tx_task"
                        /\ capture'.state = "FULL" => dump.seen \subseteq {counts.captures}
      BY <2>1, <2>4 DEF DumpHonest
    <3>1. CASE capture.state = "FULL"
      BY <2>3, <3>1 DEF DumpInv, DumpHonest
    <3>2. CASE capture.state # "FULL"
      BY <2>4, <3>2 DEF DumpInv, DumpHonest
    <3> QED BY <3>1, <3>2
  <2> QED BY <1>3, <1>5, <2>1, <2>2, <2>5 DEF CaptureTyped
<1> QED BY <1>6, <1>7

LEMMA HandledDumps ==
  ASSUME DumpInv, HandleCapture
  PROVE  CaptureTyped' /\ DumpTyped' /\ HoldsCapture(capture', counts'.captures) /\ DumpHonest'
<1>1. running = "can_process" /\ running' = running
  BY DEF HandleCapture, Handles
<1>2. dump' = IF capture' # capture THEN NoDump ELSE dump
  BY DEF HandleCapture
<1>3. DumpTyped'
  BY <1>1, <1>2 DEF DumpInv, DumpTyped, NoDump
<1>4. ~dump'.preempted => dump'.seen = {} \/ (capture' = capture /\ ~dump.preempted /\ dump'.seen = dump.seen)
  BY <1>2 DEF NoDump
<1>5. CASE handling.command = "Start"
  <2>1. capture' = StartCapture(capture) /\ counts' = [counts EXCEPT !.captures = @ + 1]
    BY <1>5 DEF HandleCapture
  <2>2. counts'.captures \in Nat /\ counts'.captures > 0
    BY <2>1 DEF DumpInv, CountsTyped, CountKinds
  <2>3. /\ capture' \in CaptureType /\ capture'.state = "RECORDING" /\ capture'.cursor = DumpFrames
        /\ capture'.index = 0
    BY <2>1, StartCaptureTyped DEF DumpInv, CaptureTyped
  <2>4. HoldsCapture(capture', counts'.captures)
    BY <2>2, <2>3 DEF HoldsCapture
  <2>5. DumpHonest'
    BY <1>1, <1>4, <2>3 DEF DumpInv, DumpHonest
  <2> QED BY <1>3, <2>3, <2>4, <2>5 DEF CaptureTyped
<1>6. CASE handling.command # "Start"
  <2>1. counts' = counts /\ capture' \in {RequestDump(capture), capture}
    BY <1>6 DEF HandleCapture
  <2>2. /\ capture' \in CaptureType /\ HoldsCapture(capture', counts'.captures)
        /\ capture' # capture => capture'.state = "FULL"
    BY <2>1, RequestDumpTyped DEF DumpInv, CaptureTyped
  <2>3. DumpHonest'
    BY <1>1, <1>2, <1>4, <2>1, <2>2 DEF DumpInv, DumpHonest
  <2> QED BY <1>3, <2>2, <2>3 DEF CaptureTyped
<1> QED BY <1>5, <1>6

LEMMA InitDump == Init => DumpInv
<1> SUFFICES ASSUME Init PROVE DumpInv
  OBVIOUS
<1>1. CountsTyped
  BY DEF Init, CountsTyped, CountKinds
<1>2. CaptureTyped
  BY DumpFramesNat, DebugCaptureAssumption DEF Init, CaptureTyped, CaptureType, NoCapture, NeverWritten
<1>3. DumpTyped
  BY DEF Init, DumpTyped, NoDump
<1>4. HoldsCapture(capture, counts.captures) /\ DumpHonest
  BY DEF Init, HoldsCapture, DumpHonest, NoCapture, NoDump
<1> QED BY <1>1, <1>2, <1>3, <1>4 DEF DumpInv

LEMMA NextDump == DumpInv /\ [Next]_vars => DumpInv'
<1> SUFFICES ASSUME DumpInv, [Next]_vars PROVE DumpInv'
  OBVIOUS
<1>1. CASE Next
  <2>1. CountsTyped'
    BY <1>1, NextCounts DEF DumpInv
  <2>2. CASE Telemetry \/ DumpFrameIsQueued \/ ControlTick \/ HandleCapture
    BY <2>1, <2>2, TelemetryDumps, QueuedDumps, ControlDumps, HandledDumps DEF DumpInv
  <2>3. CASE ~Telemetry /\ ~DumpFrameIsQueued /\ ~ControlTick /\ ~HandleCapture
    <3>1. /\ capture' = capture /\ dump' = dump /\ counts'.captures = counts.captures
          /\ running' = "can_tx_task" => running = "can_tx_task"
      BY <1>1, <2>3, OthersKeepDump, OthersKeepCaptureCount DEF DumpInv
    <3> QED BY <2>1, <3>1 DEF DumpInv, CaptureTyped, DumpTyped, DumpHonest
  <2> QED BY <2>2, <2>3
<1>2. CASE UNCHANGED vars
  BY <1>2 DEF vars, DumpInv, CountsTyped, CaptureTyped, DumpTyped, DumpHonest
<1> QED BY <1>1, <1>2

(***************************************************************************)
(* A dump carries the words of one capture, unless the bandwidth test has  *)
(* restarted the recording while a frame was prepared (capture.rs, for     *)
(* every length of the capture and every size of a record and a frame).    *)
(***************************************************************************)
THEOREM DumpsAlwaysOneCapture == Spec => []DumpsOneCapture
<1>1. DumpInv => DumpsOneCapture
  <2> SUFFICES ASSUME DumpInv, ~dump.preempted
               PROVE  Cardinality(dump.seen) <= 1 /\ NeverWritten \notin dump.seen
    BY DEF DumpsOneCapture
  <2>1. dump.seen = {} \/ (capture.state = "FULL" /\ dump.seen \subseteq {counts.captures})
    <3>1. CASE capture.state = "FULL"
      BY <3>1 DEF DumpInv, DumpHonest
    <3>2. CASE capture.state # "FULL"
      BY <3>2 DEF DumpInv, DumpHonest
    <3> QED BY <3>1, <3>2
  <2>2. CASE dump.seen = {}
    BY <2>2, FS_EmptySet
  <2>3. CASE capture.state = "FULL" /\ dump.seen = {counts.captures}
    <3>1. counts.captures > 0 /\ counts.captures \in Nat
      BY <2>3 DEF DumpInv, HoldsCapture, CountsTyped, CountKinds
    <3>2. Cardinality(dump.seen) = 1
      BY <2>3, FS_Singleton
    <3> QED BY <2>3, <3>1, <3>2 DEF NeverWritten
  <2> QED BY <2>1, <2>2, <2>3
<1>2. DumpInv /\ [Next]_vars => DumpInv'
  BY NextDump
<1> QED BY <1>1, <1>2, InitDump, PTL DEF Spec

-----------------------------------------------------------------------------
(***************************************************************************)
(* Types.  The frames and the buffers:                                     *)
(***************************************************************************)
LEMMA PrefixTyped ==
  ASSUME NEW S, NEW s \in Seq(S), NEW n \in 0 .. Len(s)
  PROVE  SubSeq(s, 1, n) \in Seq(S) /\ Len(SubSeq(s, 1, n)) = n
OBVIOUS

\* SetToSeq orders the elements of a finite set.
LEMMA SetToSeqTyped ==
  ASSUME NEW S, IsFiniteSet(S) PROVE SetToSeq(S) \in Seq(S)
<1>1. Cardinality(S) \in Nat /\ ExistsBijection(1 .. Cardinality(S), S)
  BY FS_CardinalityType
<1>2. PICK g \in Bijection(1 .. Cardinality(S), S) : TRUE
  BY <1>1 DEF ExistsBijection
<1>3. g \in [1 .. Cardinality(S) -> S] /\ IsInjective(g)
  BY <1>2 DEF Bijection, Injection, IsInjective
<1>4. SetToSeq(S) \in [1 .. Cardinality(S) -> S]
  BY <1>3 DEF SetToSeq
<1> QED BY <1>1, <1>4

AckTyped(f) == f.id = "FirmwareUpdateAck" => f.next \in Nat

\* The acknowledgements in a transmit buffer, which is no longer than it may be
TxTyped(buffer) == Len(buffer) <= TxSize /\ \E S : buffer \in Seq(S) /\ \A f \in S : AckTyped(f)

LEMMA QueuedTyped ==
  ASSUME TxTyped(tx), NEW T, NEW frames \in Seq(T), \A f \in T : AckTyped(f)
  PROVE  TxTyped(Queued(frames))
<1>1. PICK S : tx \in Seq(S) /\ \A f \in S : AckTyped(f)
  BY DEF TxTyped
<1> DEFINE U == S \cup T
           all == tx \o frames
           n == Lesser(Len(tx) + Len(frames), TxSize)
<1>2. TxSize \in Nat
  BY CanNodeAssumption
<1>3. all \in Seq(U) /\ Len(all) = Len(tx) + Len(frames) /\ Len(tx) \in Nat /\ Len(frames) \in Nat
  <2>1. tx \in Seq(U) /\ frames \in Seq(U)
    BY <1>1
  <2> QED BY <2>1
<1>4. n \in 0 .. Len(all) /\ n <= TxSize
  BY <1>2, <1>3 DEF Lesser
<1>5. \A f \in U : AckTyped(f)
  BY <1>1
<1>6. Queued(frames) = SubSeq(all, 1, n)
  BY DEF Queued
<1> HIDE DEF U, all, n
<1>7. Queued(frames) \in Seq(U) /\ Len(Queued(frames)) <= TxSize
  BY <1>3, <1>4, <1>6, PrefixTyped
<1> QED BY <1>5, <1>7 DEF TxTyped

-----------------------------------------------------------------------------
\* The DFU area and what is written to it.

FlashType == [0 .. FirmwareBytes - 1 -> Contents]

LEMMA ChunkTyped ==
  ASSUME NEW image \in Images, NEW counter \in Nat
  PROVE  Chunk(image, counter) \in Seq(Contents) /\ Len(Chunk(image, counter)) = ChunkBytes
<1>1. ChunkBytes \in Nat /\ counter * ChunkBytes \in Nat
  BY FirmwareUpdateAssumption
<1> DEFINE base == counter * ChunkBytes
<1> HIDE DEF base
<1>2. ASSUME NEW k \in 1 .. ChunkBytes PROVE ByteOf(image, base + k - 1) \in Contents
  <2>1. base + k - 1 \in Nat
    BY <1>1 DEF base
  <2> QED BY <2>1 DEF ByteOf, Contents
<1>3. Chunk(image, counter) = [k \in 1 .. ChunkBytes |-> ByteOf(image, base + k - 1)]
  BY DEF Chunk, base
<1> QED BY <1>1, <1>2, <1>3

LEMMA EraseTyped ==
  ASSUME NEW f \in FlashType, NEW start, NEW end PROVE EraseReached(f, start, end) \in FlashType
BY DEF FlashType, EraseReached, Contents

LEMMA ProgrammedTyped ==
  ASSUME NEW f \in FlashType, NEW start \in Nat, NEW data \in Seq(Contents)
  PROVE  Programmed(f, start, data) \in FlashType
<1>1. DOMAIN f = 0 .. FirmwareBytes - 1
  BY DEF FlashType
<1>2. ASSUME NEW k \in 0 .. FirmwareBytes - 1, start <= k, k < start + Len(data)
      PROVE  data[k - start + 1] \in Contents
  <2>1. k - start + 1 \in 1 .. Len(data)
    BY <1>2, FirmwareUpdateAssumption
  <2> QED BY <2>1
<1> QED BY <1>1, <1>2 DEF FlashType, Programmed

LEMMA TornTyped ==
  ASSUME NEW f \in FlashType, NEW start \in Nat, NEW data \in Seq(Contents)
  PROVE  TornWrites(f, start, data) \subseteq FlashType
<1>1. EraseReached(f, start, start + Len(data)) \in FlashType
  BY EraseTyped
<1>2. ASSUME NEW n \in 0 .. Len(data) \div WordBytes - 1
      PROVE  SubSeq(data, 1, n * WordBytes) \in Seq(Contents)
  <2>1. WordBytes \in Nat \ {0} /\ Len(data) \in Nat
    BY FirmwareUpdateAssumption
  <2> DEFINE len == Len(data)
             q == len \div WordBytes
  <2> HIDE DEF len
  <2>2. q \in Nat /\ WordBytes * q <= len
    <3>1. len \in Nat
      BY <2>1 DEF len
    <3>2. len % WordBytes \in 0 .. WordBytes - 1 /\ q \in Nat /\ len = WordBytes * q + (len % WordBytes)
      BY <2>1, <3>1, DivisionParts
    <3> HIDE DEF q
    <3> QED BY <2>1, <3>1, <3>2
  <2> HIDE DEF q
  <2>3. n \in Nat /\ n <= q
    BY <2>2 DEF q, len
  <2>4. n * WordBytes \in Nat /\ n * WordBytes <= WordBytes * q
    BY <2>1, <2>2, <2>3
  <2>5. n * WordBytes \in 0 .. Len(data)
    BY <2>1, <2>2, <2>4 DEF len
  <2> QED BY <2>5, PrefixTyped
<1> QED BY <1>1, <1>2, ProgrammedTyped DEF TornWrites

-----------------------------------------------------------------------------
(***************************************************************************)
(* A transfer: what was received are the chunks counted, in whole stages   *)
(* written and whole chunks staged, and no more than there is room for.    *)
(***************************************************************************)
Whole(u) ==
  /\ u \in [active : BOOLEAN, next : Nat, staged : Seq(Contents), offset : Nat]
  /\ \E k \in Nat : Len(u.staged) = k * ChunkBytes /\ k < StageChunks
  /\ u.offset + Len(u.staged) = u.next * ChunkBytes
  /\ u.next * ChunkBytes <= FirmwareBytes

LEMMA StagesOfChunks == StageChunks \in Nat \ {0} /\ StageBytes = StageChunks * ChunkBytes
<1>1. StageBytes \in Nat \ {0} /\ ChunkBytes \in Nat \ {0} /\ StageBytes % ChunkBytes = 0
  BY FirmwareUpdateAssumption
<1>2. StageBytes = ChunkBytes * StageChunks /\ StageChunks \in Nat
  BY <1>1, DivisionParts DEF StageChunks
<1> QED BY <1>1, <1>2

LEMMA NoTransferWhole == Whole(NoTransfer) /\ Whole(Started)
<1>1. ChunkBytes \in Nat /\ FirmwareBytes \in Nat
  BY FirmwareUpdateAssumption
<1>2. 0 * ChunkBytes = 0
  BY <1>1
<1>3. \E k \in Nat : 0 = k * ChunkBytes /\ k < StageChunks
  BY <1>2, StagesOfChunks
<1>5. <<>> \in Seq(Contents) /\ Len(<<>>) = 0
  OBVIOUS
<1>4. Started = [active |-> TRUE, next |-> 0, staged |-> <<>>, offset |-> 0]
  <2>1. /\ NoTransfer \in [active : BOOLEAN, next : Nat, staged : Seq(Contents), offset : Nat]
        /\ NoTransfer.next = 0 /\ NoTransfer.staged = <<>> /\ NoTransfer.offset = 0
    BY <1>5 DEF NoTransfer
  <2>2. Started = [NoTransfer EXCEPT !.active = TRUE]
    BY DEF Started
  <2> QED BY <2>1, <2>2
<1> QED BY <1>1, <1>2, <1>3, <1>4, <1>5 DEF Whole, NoTransfer

LEMMA JoinedTyped ==
  ASSUME NEW S, NEW s \in Seq(S), NEW t \in Seq(S)
  PROVE  s \o t \in Seq(S) /\ Len(s \o t) = Len(s) + Len(t) /\ Len(s) \in Nat /\ Len(t) \in Nat
OBVIOUS

\* A chunk that is expected and fits
LEMMA ChunkAdded ==
  ASSUME NEW u, Whole(u), ~TooLarge(u), NEW chunk \in Seq(Contents), Len(chunk) = ChunkBytes
  PROVE  LET w == Staged(u, u.next, chunk)
         IN  /\ w.staged \in Seq(Contents) /\ w.offset = u.offset /\ w.offset \in Nat /\ w.next \in Nat
             /\ IF StageFull(w) THEN Whole(StageTaken(w)) ELSE Whole(w)
<1> DEFINE w == Staged(u, u.next, chunk)
           received == u.next * ChunkBytes
<1>0. /\ u \in [active : BOOLEAN, next : Nat, staged : Seq(Contents), offset : Nat]
      /\ ChunkBytes \in Nat \ {0} /\ FirmwareBytes \in Nat /\ StageBytes \in Nat
      /\ received \in Nat /\ u.offset + Len(u.staged) = received
  BY FirmwareUpdateAssumption DEF Whole
<1>1. w = [active |-> u.active, next |-> u.next + 1, staged |-> u.staged \o chunk, offset |-> u.offset]
  <2>1. w = [u EXCEPT !.next = u.next + 1, !.staged = u.staged \o chunk]
    BY DEF Staged
  <2> HIDE DEF w, received
  <2> QED BY <1>0, <2>1
<1>2. w.staged \in Seq(Contents) /\ Len(w.staged) = Len(u.staged) + ChunkBytes /\ Len(u.staged) \in Nat
  <2>1. u.staged \in Seq(Contents) /\ w.staged = u.staged \o chunk
    BY <1>0, <1>1
  <2>2. /\ u.staged \o chunk \in Seq(Contents) /\ Len(u.staged) \in Nat
        /\ Len(u.staged \o chunk) = Len(u.staged) + Len(chunk)
    BY <1>0, JoinedTyped
  <2> QED BY <2>1, <2>2
<1>3. PICK k \in Nat : Len(u.staged) = k * ChunkBytes /\ k < StageChunks
  BY DEF Whole
<1>4. Len(w.staged) = (k + 1) * ChunkBytes
  BY <1>0, <1>2, <1>3
<1>5. (u.next + 1) * ChunkBytes = received + ChunkBytes
  BY <1>0
<1> HIDE DEF received
<1>6. /\ w.offset + Len(w.staged) = w.next * ChunkBytes
      /\ w.next * ChunkBytes <= FirmwareBytes
  BY <1>0, <1>1, <1>2, <1>5 DEF TooLarge
<1>7. ASSUME ~StageFull(w) PROVE Whole(w)
  <2>1. k + 1 # StageChunks
    BY <1>4, <1>7, StagesOfChunks DEF StageFull
  <2>2. k + 1 < StageChunks
    BY <1>3, <2>1, StagesOfChunks
  <2>3. w \in [active : BOOLEAN, next : Nat, staged : Seq(Contents), offset : Nat]
    BY <1>0, <1>1, <1>2
  <2>4. \E j \in Nat : Len(w.staged) = j * ChunkBytes /\ j < StageChunks
    <3>1. k + 1 \in Nat
      OBVIOUS
    <3> HIDE DEF w
    <3> WITNESS k + 1 \in Nat
    <3> QED BY <1>4, <2>2
  <2> HIDE DEF w
  <2> QED BY <1>6, <2>3, <2>4 DEF Whole
<1>8. ASSUME StageFull(w) PROVE Whole(StageTaken(w))
  <2>1. StageTaken(w) = [active |-> u.active, next |-> u.next + 1, staged |-> <<>>, offset |-> u.offset + StageBytes]
    <3>1. StageTaken(w) = [w EXCEPT !.offset = w.offset + StageBytes, !.staged = <<>>]
      BY DEF StageTaken
    <3> HIDE DEF w
    <3> QED BY <1>1, <3>1
  <2>2. Len(w.staged) = StageBytes
    BY <1>8 DEF StageFull
  <2>3. \E j \in Nat : 0 = j * ChunkBytes /\ j < StageChunks
    BY <1>0, StagesOfChunks
  <2>4. <<>> \in Seq(Contents) /\ Len(<<>>) = 0
    OBVIOUS
  <2>5. StageTaken(w) \in [active : BOOLEAN, next : Nat, staged : Seq(Contents), offset : Nat]
    BY <1>0, <2>1, <2>4
  <2>6. /\ StageTaken(w).offset + Len(StageTaken(w).staged) = StageTaken(w).next * ChunkBytes
        /\ StageTaken(w).next = w.next
    BY <1>0, <1>1, <1>6, <2>1, <2>2, <2>4
  <2>7. Len(StageTaken(w).staged) = 0
    BY <2>1, <2>4
  <2> HIDE DEF w
  <2> QED BY <1>6, <2>3, <2>5, <2>6, <2>7 DEF Whole
<1> QED BY <1>0, <1>1, <1>2, <1>7, <1>8

\* What is left in the stage at the end is written padded.
LEMMA RestTyped ==
  ASSUME Whole(update), NEW image \in Images, Complete(update, Length[image])
  PROVE  (IF update.staged = <<>> THEN <<>> ELSE Flush(update, Length[image])) \in Seq(Contents)
<1>1. CASE update.staged = <<>>
  BY <1>1
<1>2. CASE update.staged # <<>>
  <2> DEFINE n == RoundedUp(Length[image] - update.offset, WordBytes)
  <2>1. /\ update.staged \in Seq(Contents) /\ update.offset \in Nat /\ Length[image] \in Nat
        /\ ChunkBytes \in Nat \ {0} /\ WordBytes \in Nat \ {0}
    BY FirmwareUpdateAssumption DEF Whole
  <2>2. Len(update.staged) >= ChunkBytes
    <3>1. PICK k \in Nat : Len(update.staged) = k * ChunkBytes
      BY DEF Whole
    <3>2. k # 0
      BY <1>2, <2>1, <3>1
    <3> QED BY <2>1, <3>1, <3>2
  <2>3. Length[image] - update.offset \in Nat
    BY <2>1, <2>2 DEF Complete
  <2>4. n \in Nat
    <3> DEFINE m == Length[image] - update.offset + WordBytes - 1
    <3>1. m \in Nat
      BY <2>1, <2>3
    <3> HIDE DEF m
    <3>2. m \div WordBytes \in Nat
      BY <2>1, <3>1, DivisionParts
    <3>3. (m \div WordBytes) * WordBytes \in Nat
      BY <2>1, <3>2
    <3> QED BY <3>3 DEF RoundedUp, m
  <2>5. Flush(update, Length[image]) = [k \in 1 .. n |-> IF k <= Len(update.staged) THEN update.staged[k] ELSE Padding]
    BY DEF Flush
  <2> HIDE DEF n
  <2>6. \A k \in 1 .. n : (IF k <= Len(update.staged) THEN update.staged[k] ELSE Padding) \in Contents
    BY <2>1, <2>4 DEF Contents
  <2>7. Flush(update, Length[image]) \in Seq(Contents)
    BY <2>4, <2>5, <2>6
  <2> QED BY <1>2, <2>7
<1> QED BY <1>1, <1>2

-----------------------------------------------------------------------------
\* The type invariant, by the parts that change together

FramesTyped ==
  /\ wire \in Frame \cup {NoFrame} /\ handling \in Frame \cup {NoFrame}
  /\ rx \in Seq(Frame) /\ Len(rx) <= RxSize

TasksTyped ==
  /\ spawned \in BOOLEAN
  /\ running \in {"none", "can_process", "leaving", "can_tx_task", "reset"}
  /\ running \in {"can_process", "leaving"} => spawned
  /\ handling # NoFrame => running = "can_process"
  /\ interrupted \in BOOLEAN /\ (interrupted => handling # NoFrame)

HostTyped == sends \in Hosts /\ host \in [image : Images, next : Nat, acked : Nat]

LevelTyped == integrity \in [last : {NoCounter} \cup 0 .. Counters - 1, level : 0 .. Capacity]

UpdateTyped == Whole(update) /\ flash \in FlashType /\ status \in Images \cup {NoImage}

TypeInv ==
  /\ FramesTyped /\ TasksTyped /\ HostTyped /\ TxTyped(tx)
  /\ mode.strategy \in Strategies
  /\ LevelTyped /\ UpdateTyped

\* The frames

LEMMA FrameIds ==
  ASSUME NEW f \in Frame
  PROVE  /\ f.id = "Setpoint" => f.number \in Nat
         /\ f.id = "FirmwareUpdateData" => f.counter \in Nat /\ f.image \in Images
         /\ f.id = "FirmwareUpdateApply" => f.image \in Images
<1>1. ASSUME f \in ConfigFrames PROVE f.id \in ConfigIds
  BY <1>1, CanNodeAssumption DEF ConfigFrameType, ConfigIds
<1>2. CASE f \in ConfigFrames
  BY <1>1, <1>2 DEF ConfigIds
<1>3. CASE f \in UpdateFrame
  BY <1>3 DEF UpdateFrame
<1>4. CASE f \in OtherFrame
  BY <1>4 DEF OtherFrame
<1> QED BY <1>2, <1>3, <1>4 DEF Frame

LEMMA QueryBlock ==
  ASSUME NEW f \in Frame, f.id = "ConfigQuery" PROVE f.block \in {"All"} \cup Blocks
<1>1. ASSUME f \in ConfigFrames PROVE f.id \in ConfigIds
  BY <1>1, CanNodeAssumption DEF ConfigFrameType, ConfigIds
<1>2. f \notin ConfigFrames
  BY <1>1 DEF ConfigIds
<1>3. f \in OtherFrame
  BY <1>2 DEF Frame, UpdateFrame
<1> QED BY <1>3 DEF OtherFrame

LEMMA InterruptTyped ==
  ASSUME FramesTyped, NEW f \in Frame, CanInterrupt(f) PROVE rx' \in Seq(Frame) /\ Len(rx') <= RxSize
<1>1. rx \in Seq(Frame) /\ Len(rx) <= RxSize /\ RxSize \in Nat
  BY CanNodeAssumption DEF FramesTyped
<1>2. Append(rx, f) \in Seq(Frame) /\ Len(Append(rx, f)) = Len(rx) + 1 /\ Len(rx) \in Nat
  BY <1>1
<1> QED BY <1>1, <1>2 DEF CanInterrupt

LEMMA NextFramesTyped ==
  ASSUME FramesTyped, HostTyped, CountsTyped, Next PROVE FramesTyped'
<1>0. wire \in Frame \cup {NoFrame} /\ handling \in Frame \cup {NoFrame} /\ rx \in Seq(Frame) /\ Len(rx) <= RxSize
  BY DEF FramesTyped
<1>1. CASE UNCHANGED <<wire, rx, handling>>
  BY <1>1 DEF FramesTyped
<1>2. CASE Bus
  <2>1. CASE FrameArrives
    <3>1. wire \in Frame /\ CanInterrupt(wire) /\ wire' = NoFrame /\ handling' = handling
      BY <1>0, <2>1 DEF FrameArrives, taskVars
    <3> QED BY <1>0, <3>1, InterruptTyped DEF FramesTyped
  <2>2. CASE FrameIsLost
    <3>1. wire' = NoFrame /\ handling' = handling /\ rx' = rx
      BY <2>2 DEF FrameIsLost, taskVars
    <3> QED BY <1>0, <3>1 DEF FramesTyped
  <2>3. CASE FrameIsRepeated
    <3>1. wire \in Frame /\ CanInterrupt(wire) /\ wire' = wire /\ handling' = handling
      BY <1>0, <2>3 DEF FrameIsRepeated, Mishap, taskVars
    <3> QED BY <1>0, <3>1, InterruptTyped DEF FramesTyped
  <2>4. CASE SetpointIsCorrupted
    <3> DEFINE frame == [id |-> "Setpoint", number |-> wire.number, intact |-> FALSE]
    <3>1. wire \in Frame /\ wire.id = "Setpoint" /\ CanInterrupt(frame) /\ wire' = NoFrame /\ handling' = handling
      BY <1>0, <2>4 DEF SetpointIsCorrupted, Mishap, taskVars
    <3>2. frame \in Frame
      BY <3>1, FrameIds DEF Frame, OtherFrame
    <3> QED BY <1>0, <3>1, <3>2, InterruptTyped DEF FramesTyped
  <2>5. CASE FrameIsSent
    BY <1>1, <2>5 DEF FrameIsSent, taskVars
  <2> QED BY <1>2, <2>1, <2>2, <2>3, <2>4, <2>5 DEF Bus
<1>3. CASE Telemetry \/ DumpFrameIsQueued \/ ControlTick \/ PersistConfig \/ Rebooting
  <2>1. UNCHANGED <<wire, rx, handling>>
    BY <1>3, ControlKeeps DEF Telemetry, DumpFrameIsQueued, hostVars, taskVars
  <2> QED BY <1>1, <2>1
<1>4. CASE Runs \/ FindsNone \/ Ends
  BY <1>1, <1>4 DEF Runs, FindsNone, Ends, hostVars
<1>5. CASE Takes
  <2>1. rx # <<>> /\ rx' = Tail(rx) /\ handling' \in {Head(rx), NoFrame} /\ wire' = wire
    BY <1>5 DEF Takes, hostVars
  <2>2. Head(rx) \in Frame /\ Tail(rx) \in Seq(Frame) /\ Len(Tail(rx)) = Len(rx) - 1 /\ Len(rx) \in Nat
    BY <1>0, <2>1
  <2>3. RxSize \in Nat
    BY CanNodeAssumption
  <2> QED BY <1>0, <2>1, <2>2, <2>3 DEF FramesTyped
<1>6. CASE Handlers
  BY <1>0, <1>6, HandlerTakesFrame DEF FramesTyped
<1>7. CASE Host
  <2>1. ASSUME NEW f \in Frame, Puts(f) PROVE FramesTyped'
    <3>1. wire' = f /\ rx' = rx /\ handling' = handling
      BY <2>1 DEF Puts, taskVars
    <3> QED BY <1>0, <2>1, <3>1 DEF FramesTyped
  <2>2. \A f \in ConfigFrames \cup UpdateFrame \cup OtherFrame : f \in Frame
    BY DEF Frame
  <2>3. CASE HostRequests
    BY <2>1, <2>2, <2>3 DEF HostRequests, OtherFrame
  <2>4. CASE HostConfigures
    BY <2>1, <2>2, <2>4 DEF HostConfigures
  <2>5. CASE HostDemandsTorque
    <3>1. counts.setpoints + 1 \in Nat
      BY DEF CountsTyped, CountKinds
    <3> QED BY <2>1, <2>2, <2>5, <3>1 DEF HostDemandsTorque, OtherFrame
  <2>6. CASE HostQueries
    BY <2>1, <2>2, <2>6 DEF HostQueries, OtherFrame
  <2>7. CASE HostCaptures
    BY <2>1, <2>2, <2>7 DEF HostCaptures, OtherFrame
  <2>8. CASE HostSendsChunk
    BY <2>1, <2>2, <2>8 DEF HostSendsChunk, UpdateFrame, HostTyped
  <2>9. CASE HostApplies
    BY <2>1, <2>2, <2>9 DEF HostApplies, UpdateFrame, HostTyped
  <2>10. CASE HostRecovers
    BY <2>1, <2>2, <2>10 DEF HostRecovers, OtherFrame, Requests
  <2>11. CASE HostTimesOut \/ HostSwitches
    BY <1>1, <2>11 DEF HostTimesOut, HostSwitches, busVars, taskVars
  <2> QED BY <1>7, <2>3, <2>4, <2>5, <2>6, <2>7, <2>8, <2>9, <2>10, <2>11 DEF Host
<1> QED BY <1>2, <1>3, <1>4, <1>5, <1>6, <1>7 DEF Next, ReceiveTask

\* The tasks

LEMMA HandlersRun ==
  ASSUME Handlers
  PROVE  running' \in {running, "reset"} /\ spawned' = spawned /\ sends' = sends /\ host' = host
<1>1. ASSUME NEW ids, Handles(ids) PROVE spawned' = spawned /\ sends' = sends /\ host' = host
  BY <1>1 DEF Handles, hostVars
<1>2. CASE HandleModeRequest \/ AcceptSetpoint \/ RejectSetpoint \/ HandleConfig \/ HandleQuery \/ HandleCapture
  BY <1>1, <1>2 DEF HandleModeRequest, AcceptSetpoint, RejectSetpoint, HandleConfig, HandleQuery, HandleCapture
<1>3. CASE ChunkOutOfSequence \/ ChunkTooMuch \/ ChunkStaged \/ StageWritten \/ StageFails
  BY <1>1, <1>3 DEF ChunkOutOfSequence, ChunkTooMuch, ChunkStaged, StageWritten, StageFails, FullStage
<1>4. CASE ApplyIncomplete \/ FlushFails \/ ApplyMismatched \/ MarkFails
  BY <1>1, <1>4 DEF ApplyIncomplete, FlushFails, ApplyMismatched, MarkFails, Applies
<1>5. CASE ApplyUpdate
  BY <1>1, <1>5 DEF ApplyUpdate, Applies
<1> QED BY <1>2, <1>3, <1>4, <1>5 DEF Handlers

LEMMA NextTasks ==
  ASSUME TasksTyped, Next PROVE TasksTyped'
<1>1. CASE Bus
  <2>1. UNCHANGED <<running, handling, interrupted>> /\ spawned' \in {spawned, TRUE}
    BY <1>1 DEF Bus, FrameArrives, FrameIsLost, FrameIsRepeated, SetpointIsCorrupted, FrameIsSent, CanInterrupt,
       taskVars
  <2> QED BY <2>1 DEF TasksTyped
<1>2. CASE Telemetry
  <2>1. /\ running = "none" /\ running' \in {"none", "can_tx_task"} /\ spawned' = spawned
        /\ handling' = handling /\ interrupted' = interrupted
    BY <1>2 DEF Telemetry
  <2> QED BY <2>1 DEF TasksTyped
<1>3. CASE DumpFrameIsQueued
  BY <1>3 DEF DumpFrameIsQueued, TasksTyped
<1>4. CASE ControlTick \/ PersistConfig \/ Rebooting
  <2>1. /\ UNCHANGED <<running, spawned, handling>>
        /\ interrupted' = interrupted \/ (interrupted' \in BOOLEAN /\ (interrupted' => handling # NoFrame))
    BY <1>4, ControlKeeps
  <2> QED BY <2>1 DEF TasksTyped
<1>5. CASE Runs \/ Takes \/ FindsNone \/ Ends
  <2>1. CASE Runs \/ FindsNone \/ Ends
    <3>1. /\ UNCHANGED <<handling, interrupted>>
          /\ \/ running = "none" /\ spawned /\ running' = "can_process" /\ spawned' = spawned
             \/ /\ running = "can_process" /\ handling = NoFrame
                /\ running' = "leaving" /\ spawned' = spawned
             \/ running = "leaving" /\ running' = "none" /\ spawned' = FALSE
      BY <2>1 DEF Runs, FindsNone, Ends
    <3> QED BY <3>1 DEF TasksTyped
  <2>2. CASE Takes
    <3>1. running = "can_process" /\ running' = running /\ spawned' = spawned /\ interrupted' = FALSE
      BY <2>2 DEF Takes
    <3> QED BY <3>1 DEF TasksTyped
  <2> QED BY <1>5, <2>1, <2>2
<1>6. CASE Handlers
  BY <1>6, HandlersRun, HandlerTakesFrame DEF TasksTyped
<1>7. CASE Host
  <2>1. UNCHANGED <<running, spawned, handling, interrupted>>
    BY <1>7 DEF Host, HostRequests, HostConfigures, HostDemandsTorque, HostQueries, HostCaptures,
       HostSendsChunk, HostTimesOut, HostApplies, HostRecovers, HostSwitches, Puts, taskVars, busVars
  <2> QED BY <2>1 DEF TasksTyped
<1> QED BY <1>1, <1>2, <1>3, <1>4, <1>5, <1>6, <1>7 DEF Next, ReceiveTask

\* The host

LEMMA NextHost ==
  ASSUME HostTyped, TxTyped(tx), Next PROVE HostTyped'
<1>0. host \in [image : Images, next : Nat, acked : Nat] /\ sends \in Hosts
  BY DEF HostTyped
<1>1. CASE UNCHANGED <<sends, host>>
  BY <1>1 DEF HostTyped
<1>2. ASSUME NEW image \in Images PROVE NewHost(image) \in [image : Images, next : Nat, acked : Nat]
  BY <1>2 DEF NewHost
<1>3. CASE FrameIsSent
  <2>1. Head(tx).id = "FirmwareUpdateAck" => Head(tx).next \in Nat
    BY <1>3 DEF FrameIsSent, TxTyped, AckTyped
  <2>2. sends' = sends /\ (host' = host \/ (Head(tx).next \in Nat /\ host' = [host EXCEPT !.acked = Head(tx).next]))
    BY <1>3, <2>1 DEF FrameIsSent
  <2> QED BY <1>0, <2>2 DEF HostTyped
<1>4. CASE FrameArrives \/ FrameIsLost \/ FrameIsRepeated \/ SetpointIsCorrupted
  BY <1>1, <1>4 DEF FrameArrives, FrameIsLost, FrameIsRepeated, SetpointIsCorrupted
<1>5. CASE Telemetry \/ DumpFrameIsQueued \/ ControlTick \/ PersistConfig \/ Rebooting
  <2>1. UNCHANGED <<sends, host>>
    BY <1>5, ControlKeeps DEF Telemetry, DumpFrameIsQueued, hostVars
  <2> QED BY <1>1, <2>1
<1>6. CASE Runs \/ Takes \/ FindsNone \/ Ends
  BY <1>1, <1>6 DEF Runs, Takes, FindsNone, Ends, hostVars
<1>7. CASE Handlers
  BY <1>1, <1>7, HandlersRun
<1>8. CASE HostRequests \/ HostConfigures \/ HostDemandsTorque \/ HostQueries \/ HostCaptures \/ HostApplies
  BY <1>1, <1>8 DEF HostRequests, HostConfigures, HostDemandsTorque, HostQueries, HostCaptures, HostApplies, Puts
<1>9. CASE HostSendsChunk
  BY <1>0, <1>9 DEF HostSendsChunk, Puts, HostTyped
<1>10. CASE HostTimesOut
  BY <1>0, <1>10 DEF HostTimesOut, HostTyped
<1>11. CASE HostRecovers
  BY <1>0, <1>2, <1>11 DEF HostRecovers, Puts, HostTyped
<1>12. CASE HostSwitches
  BY <1>0, <1>2, <1>12 DEF HostSwitches, HostTyped
<1> QED BY <1>3, <1>4, <1>5, <1>6, <1>7, <1>8, <1>9, <1>10, <1>11, <1>12 DEF Next, Bus, ReceiveTask, Host

\* The transmit buffer

LEMMA SomeAreFinite ==
  ASSUME NEW a, NEW b, NEW c, NEW d, NEW e, NEW f
  PROVE  IsFiniteSet({a, b, c, d, e, f})
<1>1. IsFiniteSet({})
  BY FS_EmptySet
<1>2. IsFiniteSet({} \cup {a})
  BY <1>1, FS_AddElement
<1>3. IsFiniteSet(({} \cup {a}) \cup {b})
  BY <1>2, FS_AddElement
<1>4. IsFiniteSet((({} \cup {a}) \cup {b}) \cup {c})
  BY <1>3, FS_AddElement
<1>5. IsFiniteSet(((({} \cup {a}) \cup {b}) \cup {c}) \cup {d})
  BY <1>4, FS_AddElement
<1>6. IsFiniteSet((((({} \cup {a}) \cup {b}) \cup {c}) \cup {d}) \cup {e})
  BY <1>5, FS_AddElement
<1>7. IsFiniteSet(((((({} \cup {a}) \cup {b}) \cup {c}) \cup {d}) \cup {e}) \cup {f})
  BY <1>6, FS_AddElement
<1>8. ((((({} \cup {a}) \cup {b}) \cup {c}) \cup {d}) \cup {e}) \cup {f} = {a, b, c, d, e, f}
  OBVIOUS
<1> QED BY <1>7, <1>8

LEMMA BlocksFinite == IsFiniteSet(Blocks)
<1>1. IsFiniteSet({"CurrentGainsD", "CurrentGainsQ", "ProtectionLimits", "MotorConfig", "MotorLimits", "CalibrationTargets"})
  BY SomeAreFinite
<1>2. IsFiniteSet({"MotorParameters", "SensorlessConfig1", "SensorlessConfig2", "FirmwareVersion",
                   "FirmwareVersion", "FirmwareVersion"})
  BY SomeAreFinite
<1> DEFINE a == {"CurrentGainsD", "CurrentGainsQ", "ProtectionLimits", "MotorConfig", "MotorLimits", "CalibrationTargets"}
           b == {"MotorParameters", "SensorlessConfig1", "SensorlessConfig2", "FirmwareVersion",
                   "FirmwareVersion", "FirmwareVersion"}
<1>3. Blocks = a \cup b
  BY DEF Blocks, Gains
<1>4. IsFiniteSet(a) /\ IsFiniteSet(b)
  BY <1>1, <1>2
<1> HIDE DEF a, b
<1> QED BY <1>3, <1>4, FS_Union

\* The answer to a query has as many reports as blocks, and one more for each that has two.
LEMMA AnswerTyped ==
  ASSUME NEW block \in {"All"} \cup Blocks, NEW has_gains \in BOOLEAN
  PROVE  Answer(block, has_gains) \in Seq({[id |-> "Report"]})
<1> DEFINE known == (IF block = "All" THEN Blocks ELSE {block}) \ (IF has_gains THEN {} ELSE Gains)
           doubled == known \cap {"ProtectionLimits", "MotorParameters"}
           n == Cardinality(known) + Cardinality(doubled)
<1>1. known \subseteq Blocks /\ doubled \subseteq Blocks
  OBVIOUS
<1> HIDE DEF known, doubled
<1>2. IsFiniteSet(known) /\ IsFiniteSet(doubled)
  BY <1>1, BlocksFinite, FS_Subset
<1>3. n \in Nat
  BY <1>2, FS_CardinalityType
<1>4. Answer(block, has_gains) = [i \in 1 .. n |-> [id |-> "Report"]]
  BY DEF Answer, known, doubled
<1> HIDE DEF n
<1> QED BY <1>3, <1>4

\* The frames of the messages that are due
LEMMA DueTyped ==
  ASSUME NEW now \in SUBSET Periodic[sends], sends \in Hosts
  PROVE  LET due == {[id |-> k] : k \in {n \in now \ {"CaptureDump"} : HasFrame(n)}}
         IN  SetToSeq(due) \in Seq(due) /\ \A f \in due : AckTyped(f)
<1> DEFINE kinds == {n \in now \ {"CaptureDump"} : HasFrame(n)}
           due == {[id |-> k] : k \in kinds}
           all == {"MotorCurrents", "RotorEstimates", "EncoderReading", "Fault", "CaptureDump", "Heartbeat"}
           g == [k \in kinds |-> [id |-> k]]
<1>1. Periodic[sends] \subseteq all
  BY CanNodeAssumption
<1>2. IsFiniteSet(all)
  BY SomeAreFinite
<1>3. kinds \subseteq all
  BY <1>1
<1>4. \A f \in due : AckTyped(f)
  <2>1. ASSUME NEW f \in due PROVE f.id # "FirmwareUpdateAck"
    <3>1. PICK k \in kinds : f = [id |-> k]
      OBVIOUS
    <3>2. k \in all
      BY <1>3
    <3>3. k # "FirmwareUpdateAck"
      BY <3>2
    <3> QED BY <3>1, <3>3
  <2> HIDE DEF due
  <2> QED BY <2>1 DEF AckTyped
<1> HIDE DEF kinds, all
<1>5. IsFiniteSet(kinds)
  BY <1>2, <1>3, FS_Subset
<1>6. g \in Surjection(kinds, due)
  BY DEF Surjection
<1> HIDE DEF g, due
<1>7. IsFiniteSet(due)
  BY <1>5, <1>6, FS_Surjection
<1>8. SetToSeq(due) \in Seq(due)
  BY <1>7, SetToSeqTyped
<1> QED BY <1>4, <1>8 DEF due, kinds

LEMMA AckQueued ==
  ASSUME TxTyped(tx), NEW n \in Nat, Ack(n) PROVE TxTyped(tx')
<1> DEFINE T == {[id |-> "FirmwareUpdateAck", next |-> n]}
<1>1. <<[id |-> "FirmwareUpdateAck", next |-> n]>> \in Seq(T) /\ \A f \in T : AckTyped(f)
  BY DEF AckTyped
<1> HIDE DEF T
<1>2. TxTyped(Queued(<<[id |-> "FirmwareUpdateAck", next |-> n]>>))
  BY <1>1, QueuedTyped
<1> QED BY <1>2 DEF Ack

\* The update

LEMMA ChunkContinues ==
  ASSUME UpdateTyped, FramesTyped, Handles({"FirmwareUpdateData"}),
         InSequence(update, handling.counter), ~TooLarge(Continued)
  PROVE  /\ Continued.offset \in Nat /\ WithChunk.staged \in Seq(Contents)
         /\ IF StageFull(WithChunk) THEN Whole(StageTaken(WithChunk)) ELSE Whole(WithChunk)
<1>1. handling \in Frame /\ handling.id = "FirmwareUpdateData"
  BY DEF FramesTyped, Handles
<1>2. handling.counter \in Nat /\ handling.image \in Images
  BY <1>1, FrameIds
<1>3. Chunk(handling.image, handling.counter) \in Seq(Contents) /\ Len(Chunk(handling.image, handling.counter)) = ChunkBytes
  BY <1>2, ChunkTyped
<1>4. Whole(Continued)
  BY NoTransferWhole DEF Continued, UpdateTyped
<1>5. Continued.next = handling.counter
  BY DEF Continued, InSequence, Started, NoTransfer
<1>6. WithChunk = Staged(Continued, Continued.next, Chunk(handling.image, handling.counter))
  BY <1>5 DEF WithChunk
<1>7. Continued.offset \in Nat /\ WithChunk.offset = Continued.offset
  <2> DEFINE u == Continued
  <2>1. Whole(u)
    BY <1>4
  <2> HIDE DEF u
  <2>2. u.offset \in Nat
    BY <2>1 DEF Whole
  <2>3. Continued.offset \in Nat
    BY <2>2 DEF u
  <2> QED BY <1>3, <1>4, <1>6, <2>3, ChunkAdded
<1> QED BY <1>3, <1>4, <1>6, <1>7, ChunkAdded

LEMMA WritesTyped ==
  ASSUME flash \in FlashType, NEW start \in Nat, NEW data \in Seq(Contents)
  PROVE  Written(start, data) \in FlashType /\ (WriteFails(start, data) => flash' \in FlashType)
<1>1. AfterErase(start, data) \in FlashType
  BY EraseTyped DEF AfterErase
<1>2. Written(start, data) \in FlashType
  BY <1>1, ProgrammedTyped DEF Written
<1>3. WriteFails(start, data) => flash' = AfterErase(start, data) \/ flash' \in TornWrites(flash, start, data)
  BY DEF WriteFails
<1> QED BY <1>1, <1>2, <1>3, TornTyped

LEMMA ChunksTyped ==
  ASSUME UpdateTyped, FramesTyped, TxTyped(tx),
         ChunkOutOfSequence \/ ChunkTooMuch \/ ChunkStaged \/ StageWritten \/ StageFails
  PROVE  UpdateTyped' /\ TxTyped(tx')
<1>0. Whole(update) /\ flash \in FlashType /\ status \in Images \cup {NoImage} /\ Whole(NoTransfer)
  BY NoTransferWhole DEF UpdateTyped
<1>1. CASE ChunkOutOfSequence
  <2>1. UNCHANGED <<update, flash, status>> /\ Ack(update.next)
    BY <1>1 DEF ChunkOutOfSequence, updateVars
  <2>2. update.next \in Nat
    BY <1>0 DEF Whole
  <2> QED BY <1>0, <2>1, <2>2, AckQueued DEF UpdateTyped, Whole
<1>2. CASE ChunkTooMuch
  <2>1. update' = NoTransfer /\ UNCHANGED <<tx, flash, status>>
    BY <1>2 DEF ChunkTooMuch
  <2> QED BY <1>0, <2>1 DEF UpdateTyped
<1>3. CASE ChunkStaged
  <2>1. update' = WithChunk /\ UNCHANGED <<tx, flash, status>> /\ ~StageFull(WithChunk)
    BY <1>3 DEF ChunkStaged
  <2>2. Whole(WithChunk)
    BY <1>3, <2>1, ChunkContinues DEF ChunkStaged
  <2> QED BY <1>0, <2>1, <2>2 DEF UpdateTyped
<1>4. ASSUME FullStage
      PROVE  /\ Continued.offset \in Nat /\ WithChunk.staged \in Seq(Contents)
             /\ Whole(StageTaken(WithChunk)) /\ status' = status
  BY <1>4, ChunkContinues DEF FullStage
<1>5. CASE StageWritten
  <2>1. /\ flash' = Written(Continued.offset, WithChunk.staged)
        /\ update' = StageTaken(WithChunk) /\ Ack(update'.next) /\ FullStage
    BY <1>5 DEF StageWritten
  <2>2. flash' \in FlashType
    BY <1>0, <1>4, <2>1, WritesTyped
  <2>3. Whole(update')
    BY <1>4, <2>1
  <2>4. update'.next \in Nat
    BY <2>3 DEF Whole
  <2> QED BY <1>0, <1>4, <2>1, <2>2, <2>3, <2>4, AckQueued DEF UpdateTyped
<1>6. CASE StageFails
  <2>1. WriteFails(Continued.offset, WithChunk.staged) /\ update' = NoTransfer /\ tx' = tx /\ FullStage
    BY <1>6 DEF StageFails
  <2>2. flash' \in FlashType
    BY <1>0, <1>4, <2>1, WritesTyped
  <2> QED BY <1>0, <1>4, <2>1, <2>2 DEF UpdateTyped
<1> QED BY <1>1, <1>2, <1>3, <1>5, <1>6

LEMMA AppliesTyped ==
  ASSUME UpdateTyped, FramesTyped, TxTyped(tx),
         ApplyIncomplete \/ FlushFails \/ ApplyMismatched \/ MarkFails \/ ApplyUpdate
  PROVE  UpdateTyped' /\ TxTyped(tx')
<1>0. Whole(update) /\ flash \in FlashType /\ status \in Images \cup {NoImage} /\ Whole(NoTransfer)
  BY NoTransferWhole DEF UpdateTyped
<1>1. Applies
  BY DEF ApplyIncomplete, FlushFails, ApplyMismatched, MarkFails, ApplyUpdate
<1>2. update' = NoTransfer /\ tx' = tx /\ handling \in Frame /\ handling.id = "FirmwareUpdateApply"
  BY <1>1 DEF Applies, Handles, FramesTyped
<1>3. handling.image \in Images
  BY <1>2, FrameIds
<1>4. update.offset \in Nat
  BY <1>0 DEF Whole
<1>5. Complete(update, Length[handling.image]) => Rest \in Seq(Contents)
  BY <1>0, <1>3, RestTyped DEF Rest
<1>6. status' \in {status, handling.image}
  BY DEF ApplyIncomplete, FlushFails, ApplyMismatched, MarkFails, ApplyUpdate
<1>7. flash' \in FlashType
  <2>1. CASE ApplyIncomplete
    BY <1>0, <2>1 DEF ApplyIncomplete
  <2>2. CASE FlushFails
    BY <1>0, <1>4, <1>5, <2>2, WritesTyped DEF FlushFails
  <2>3. CASE ApplyMismatched \/ MarkFails \/ ApplyUpdate
    <3>1. Flushes
      BY <2>3 DEF ApplyMismatched, MarkFails, ApplyUpdate
    <3> QED BY <1>0, <1>4, <1>5, <3>1, WritesTyped DEF Flushes
  <2> QED BY <2>1, <2>2, <2>3
<1> QED BY <1>0, <1>2, <1>3, <1>6, <1>7 DEF UpdateTyped

LEMMA NextUpdate ==
  ASSUME UpdateTyped, FramesTyped, HostTyped, TxTyped(tx), Next PROVE UpdateTyped' /\ TxTyped(tx')
<1>1. CASE UNCHANGED <<update, flash, status, tx>>
  BY <1>1 DEF UpdateTyped, Whole, TxTyped
<1>2. UNCHANGED <<update, flash, status>> => UpdateTyped'
  BY DEF UpdateTyped, Whole
<1>3. CASE FrameIsSent
  <2>1. tx # <<>> /\ tx' = Tail(tx) /\ UNCHANGED <<update, flash, status>>
    BY <1>3 DEF FrameIsSent, updateVars
  <2>2. PICK S : tx \in Seq(S) /\ \A f \in S : AckTyped(f)
    BY DEF TxTyped
  <2>3. Tail(tx) \in Seq(S) /\ Len(Tail(tx)) = Len(tx) - 1 /\ Len(tx) \in Nat
    BY <2>1, <2>2
  <2>4. Len(Tail(tx)) <= TxSize
    BY <2>3, CanNodeAssumption DEF TxTyped
  <2> QED BY <1>2, <2>1, <2>2, <2>3, <2>4 DEF TxTyped
<1>4. CASE FrameArrives \/ FrameIsLost \/ FrameIsRepeated \/ SetpointIsCorrupted
  <2>1. UNCHANGED <<update, flash, status, tx>>
    BY <1>4 DEF FrameArrives, FrameIsLost, FrameIsRepeated, SetpointIsCorrupted, updateVars
  <2> QED BY <1>1, <2>1
<1>5. CASE Telemetry
  <2>1. UNCHANGED <<update, flash, status>>
    BY <1>5 DEF Telemetry, updateVars
  <2>2. PICK now \in SUBSET Periodic[sends] :
          tx' = Queued(SetToSeq({[id |-> k] : k \in {n \in now \ {"CaptureDump"} : HasFrame(n)}}))
    BY <1>5 DEF Telemetry
  <2> DEFINE due == {[id |-> k] : k \in {n \in now \ {"CaptureDump"} : HasFrame(n)}}
  <2>3. SetToSeq(due) \in Seq(due) /\ \A f \in due : AckTyped(f)
    BY DueTyped DEF HostTyped
  <2>4. tx' = Queued(SetToSeq(due))
    BY <2>2
  <2> HIDE DEF due
  <2>5. TxTyped(Queued(SetToSeq(due)))
    BY <2>3, QueuedTyped
  <2> QED BY <1>2, <2>1, <2>4, <2>5
<1>6. CASE DumpFrameIsQueued
  <2>1. UNCHANGED <<update, flash, status>> /\ tx' = Queued(<<[id |-> "CaptureDump"]>>)
    BY <1>6 DEF DumpFrameIsQueued, updateVars
  <2> DEFINE T == {[id |-> "CaptureDump"]}
  <2>2. <<[id |-> "CaptureDump"]>> \in Seq(T) /\ \A f \in T : AckTyped(f)
    BY DEF AckTyped
  <2> HIDE DEF T
  <2>3. TxTyped(Queued(<<[id |-> "CaptureDump"]>>))
    BY <2>2, QueuedTyped
  <2> QED BY <1>2, <2>1, <2>3
<1>7. CASE ControlTick \/ PersistConfig \/ Rebooting
  <2>1. UNCHANGED <<update, flash, status, tx>>
    BY <1>7, ControlKeeps DEF updateVars
  <2> QED BY <1>1, <2>1
<1>8. CASE Runs \/ Takes \/ FindsNone \/ Ends
  <2>1. UNCHANGED <<update, flash, status, tx>>
    BY <1>8 DEF Runs, Takes, FindsNone, Ends, updateVars
  <2> QED BY <1>1, <2>1
<1>9. CASE HandleModeRequest \/ AcceptSetpoint \/ RejectSetpoint \/ HandleConfig \/ HandleCapture
  <2>1. UNCHANGED <<update, flash, status, tx>>
    BY <1>9 DEF HandleModeRequest, AcceptSetpoint, RejectSetpoint, HandleConfig, HandleCapture, updateVars
  <2> QED BY <1>1, <2>1
<1>10. CASE HandleQuery
  <2>1. UNCHANGED <<update, flash, status>> /\ handling \in Frame /\ handling.id = "ConfigQuery"
    BY <1>10 DEF HandleQuery, Handles, FramesTyped, updateVars
  <2>2. PICK has_gains \in BOOLEAN : tx' = Queued(Answer(handling.block, has_gains))
    BY <1>10 DEF HandleQuery
  <2>3. handling.block \in {"All"} \cup Blocks
    BY <2>1, QueryBlock
  <2> DEFINE T == {[id |-> "Report"]}
  <2>4. Answer(handling.block, has_gains) \in Seq(T) /\ \A f \in T : AckTyped(f)
    BY <2>3, AnswerTyped DEF AckTyped
  <2> HIDE DEF T
  <2>5. TxTyped(Queued(Answer(handling.block, has_gains)))
    BY <2>4, QueuedTyped
  <2> QED BY <1>2, <2>1, <2>2, <2>5
<1>11. CASE ChunkOutOfSequence \/ ChunkTooMuch \/ ChunkStaged \/ StageWritten \/ StageFails
  BY <1>11, ChunksTyped
<1>12. CASE ApplyIncomplete \/ FlushFails \/ ApplyMismatched \/ MarkFails \/ ApplyUpdate
  BY <1>12, AppliesTyped
<1>13. CASE Host
  <2>1. UNCHANGED <<update, flash, status, tx>>
    BY <1>13 DEF Host, HostRequests, HostConfigures, HostDemandsTorque, HostQueries, HostCaptures,
       HostSendsChunk, HostTimesOut, HostApplies, HostRecovers, HostSwitches, Puts, updateVars
  <2> QED BY <1>1, <2>1
<1> QED BY <1>3, <1>4, <1>5, <1>6, <1>7, <1>8, <1>9, <1>10, <1>11, <1>12, <1>13
    DEF Next, Bus, ReceiveTask, Handlers

\* The strategy

LEMMA KindsTyped == \A s \in {sto, asc, stof, ramp_down} : s \in Strategies
<1>1. 0 \in 0 .. RampDownTicks - 1 /\ 0 \in 0 .. SwitchDebounceTicks - 1
  BY SafeStrategyAssumption
<1>2. DebouncedNew(FALSE) \in DebouncedValues(SwitchDebounceTicks)
  BY <1>1 DEF DebouncedNew, DebouncedValues
<1>3. \A kind \in Kinds : Strategy(kind) \in Strategies
  BY <1>1, <1>2 DEF Strategy, Strategies
<1>4. {"STO", "ASC", "STOf", "RampDown"} \subseteq Kinds
  BY DEF Kinds
<1> QED BY <1>3, <1>4 DEF sto, asc, stof, ramp_down

LEMMA FaultTyped ==
  ASSUME NEW m, m.strategy \in Strategies, NEW cause
  PROVE  AssertFault(m, cause).strategy \in Strategies
<1>1. Reaction(cause) \in {sto, asc, stof, ramp_down}
  BY ReactionShaped
<1>2. FaultEvolve(m.strategy, Reaction(cause)) \in Strategies
  BY <1>1, KindsTyped DEF FaultEvolve
<1>3. \A s, t : Faulted(s, t).strategy = s
  BY DEF Faulted, Mode
<1> QED BY <1>1, <1>2, <1>3, KindsTyped DEF AssertFault

LEMMA SwitchTyped ==
  ASSUME NEW s \in Strategies, NEW condition \in BOOLEAN, NEW next \in Strategies
  PROVE  SwitchWhen(s, condition, next) \in Strategies
<1> DEFINE d == DebouncedUpdate(s.should_switch, condition, SwitchDebounceTicks)
<1>1. /\ s \in [kind : Kinds, waited : 0 .. RampDownTicks - 1,
                should_switch : [state : BOOLEAN, count : 0 .. SwitchDebounceTicks - 1]]
  BY DEF Strategies, DebouncedValues
<1>2. d \in [state : BOOLEAN, count : 0 .. SwitchDebounceTicks - 1]
  BY <1>1, SafeStrategyAssumption DEF DebouncedUpdate, DebouncedNew
<1>3. SwitchWhen(s, condition, next) \in {next, [s EXCEPT !.should_switch = d]}
  BY DEF SwitchWhen
<1> HIDE DEF d
<1> QED BY <1>1, <1>2, <1>3 DEF Strategies, DebouncedValues

LEMMA StrategyTickTyped ==
  ASSUME NEW s \in Strategies
  PROVE  StrategyTick(s, "ordinary", "below", TRUE) \in Strategies
<1>1. CASE s.kind = "RampDown"
  <2>1. \/ StrategyTick(s, "ordinary", "below", TRUE) \in {sto, asc}
        \/ /\ ~(s.waited + 1 >= RampDownTicks)
           /\ StrategyTick(s, "ordinary", "below", TRUE) = [s EXCEPT !.waited = s.waited + 1]
    BY <1>1 DEF StrategyTick
  <2>2. ~(s.waited + 1 >= RampDownTicks) => s.waited + 1 \in 0 .. RampDownTicks - 1
    BY SafeStrategyAssumption DEF Strategies
  <2> QED BY <2>1, <2>2, KindsTyped DEF Strategies
<1>2. CASE s.kind \in {"STO", "ASC"}
  <2>1. /\ AscNeeded("ordinary", "below", TRUE) \in BOOLEAN
        /\ AscReleasable("ordinary", "below", TRUE) \in BOOLEAN
    BY DEF AscNeeded, AscReleasable
  <2> QED BY <1>2, <2>1, SwitchTyped, KindsTyped DEF StrategyTick
<1>3. CASE s.kind \notin {"RampDown", "STO", "ASC"}
  BY <1>3 DEF StrategyTick
<1> QED BY <1>1, <1>2, <1>3

LEMMA CommandsTyped ==
  ASSUME NEW m, m.strategy \in Strategies
  PROVE  /\ RequestTorqueControl(m).strategy \in Strategies /\ RequestIdle(m).strategy \in Strategies
         /\ ClearFault(m).strategy \in Strategies /\ EnableTorqueControl(m).strategy \in Strategies
<1>1. \A tag : Mode(tag).strategy \in Strategies
  BY KindsTyped DEF Mode
<1>2. \A s : Idle(s).strategy = s
  BY DEF Idle, Mode
<1> QED BY <1>1, <1>2, KindsTyped DEF RequestTorqueControl, RequestIdle, ClearFault, EnableTorqueControl

LEMMA NextStrategy ==
  ASSUME Shape(mode), mode.strategy \in Strategies, Next PROVE mode'.strategy \in Strategies
<1>1. CASE UNCHANGED mode
  BY <1>1
<1>2. CASE ControlTick
  <2>1. PICK live \in BOOLEAN, polarity_known \in BOOLEAN,
             causes \in {{}} \cup {{c} : c \in InterruptCauses} : Control(live, polarity_known, causes)
    BY <1>2 DEF ControlTick
  <2> DEFINE m == IF causes = {} THEN mode ELSE AssertFault(mode, CHOOSE c \in causes : TRUE)
             ticked == ModeTicks(m, polarity_known)
  <2>2. m.strategy \in Strategies /\ Shape(m)
    BY FaultTyped, FaultShaped
  <2>3. mode' \in {ticked, RequestIdle(ticked)}
    BY <2>1 DEF Control
  <2> HIDE DEF m
  <2>4. ticked.strategy \in Strategies
    <3>1. CASE m.tag \in {"Idle", "Fault"}
      <4>1. ticked = [m EXCEPT !.strategy = StrategyTick(m.strategy, "ordinary", "below", TRUE)]
        BY <3>1 DEF ModeTicks
      <4>2. PICK S : m \in [tag : Tags, strategy : StrategyShape, trace : S, phase : Phases]
        BY <2>2 DEF Shape
      <4>3. ticked.strategy = StrategyTick(m.strategy, "ordinary", "below", TRUE)
        BY <4>1, <4>2
      <4> QED BY <2>2, <4>3, StrategyTickTyped
    <3>2. CASE m.tag \notin {"Idle", "Fault"}
      <4>1. ticked \in {m, EnableTorqueControl(m)}
        BY <3>2 DEF ModeTicks
      <4> QED BY <2>2, <4>1, CommandsTyped
    <3> QED BY <3>1, <3>2
  <2> HIDE DEF ticked
  <2> QED BY <2>3, <2>4, CommandsTyped
<1>3. CASE HandleModeRequest
  <2>1. mode' = CASE handling.requested = "TorqueControl" -> RequestTorqueControl(mode)
                  [] handling.requested = "Idle" -> RequestIdle(mode)
                  [] OTHER -> ClearFault(mode)
    BY <1>3 DEF HandleModeRequest
  <2> QED BY <2>1, CommandsTyped
<1>4. CASE Handlers /\ ~HandleModeRequest
  <2>1. mode' = mode \/ \E cause : mode' = AssertFault(mode, cause)
    <3>1. CASE AcceptSetpoint \/ HandleConfig \/ HandleQuery \/ HandleCapture \/ RejectSetpoint
      BY <3>1 DEF AcceptSetpoint, RejectSetpoint, HandleConfig, HandleQuery, HandleCapture, Asserts
    <3>2. CASE ChunkOutOfSequence \/ ChunkTooMuch \/ ChunkStaged \/ StageWritten \/ StageFails
      BY <3>2 DEF ChunkOutOfSequence, ChunkTooMuch, ChunkStaged, StageWritten, StageFails, WriteFails, Asserts
    <3>3. CASE ApplyIncomplete \/ FlushFails \/ ApplyMismatched \/ MarkFails \/ ApplyUpdate
      BY <3>3 DEF ApplyIncomplete, FlushFails, ApplyMismatched, MarkFails, ApplyUpdate, WriteFails, Asserts
    <3> QED BY <1>4, <3>1, <3>2, <3>3 DEF Handlers
  <2> QED BY <2>1, FaultTyped
<1>5. CASE Bus
  BY <1>1, <1>5 DEF Bus, FrameArrives, FrameIsLost, FrameIsRepeated, SetpointIsCorrupted, FrameIsSent
<1>6. CASE Telemetry \/ DumpFrameIsQueued \/ PersistConfig \/ Rebooting
  BY <1>1, <1>6 DEF Telemetry, DumpFrameIsQueued, PersistConfig, Rebooting, vars
<1>7. CASE Runs \/ Takes \/ FindsNone \/ Ends
  BY <1>1, <1>7 DEF Runs, Takes, FindsNone, Ends
<1>8. CASE Host
  BY <1>1, <1>8 DEF Host, HostRequests, HostConfigures, HostDemandsTorque, HostQueries, HostCaptures,
     HostSendsChunk, HostTimesOut, HostApplies, HostRecovers, HostSwitches, Puts
<1> QED BY <1>2, <1>3, <1>4, <1>5, <1>6, <1>7, <1>8 DEF Next, ReceiveTask

\* The bucket

LEMMA NextLevel ==
  ASSUME LevelTyped, FramesTyped, Next PROVE LevelTyped'
<1>0. /\ integrity.last \in {NoCounter} \cup 0 .. Counters - 1 /\ integrity.level \in 0 .. Capacity
      /\ integrity \in [last : {NoCounter} \cup 0 .. Counters - 1, level : 0 .. Capacity]
  BY DEF LevelTyped
<1>1. CASE AcceptSetpoint
  <2>1. handling \in Frame /\ handling.id = "Setpoint"
    BY <1>1 DEF AcceptSetpoint, Handles, FramesTyped
  <2>2. handling.number \in Nat
    BY <2>1, FrameIds
  <2>3. RollingCounter(handling.number) \in 0 .. Counters - 1
    BY <2>2, SetpointIntegrityAssumption DEF RollingCounter
  <2>4. Drained(integrity.level) \in 0 .. Capacity
    BY <1>0, SetpointIntegrityAssumption DEF Drained
  <2>5. integrity' = [last |-> RollingCounter(handling.number), level |-> Drained(integrity.level)]
    BY <1>1 DEF AcceptSetpoint
  <2> QED BY <2>3, <2>4, <2>5 DEF LevelTyped
<1>2. CASE RejectSetpoint
  <2>1. Filled(integrity.level) \in 0 .. Capacity
    BY <1>0, SetpointIntegrityAssumption DEF Filled
  <2>2. integrity' = [integrity EXCEPT !.level = Filled(integrity.level)]
    BY <1>2 DEF RejectSetpoint
  <2> QED BY <1>0, <2>1, <2>2 DEF LevelTyped
<1>3. CASE ~AcceptSetpoint /\ ~RejectSetpoint
  BY <1>3, OthersKeepGuard DEF LevelTyped
<1> QED BY <1>1, <1>2, <1>3

-----------------------------------------------------------------------------
LEMMA InitTypes == Init => TypeInv
<1> SUFFICES ASSUME Init PROVE TypeInv
  OBVIOUS
<1>1. FramesTyped
  <2>1. wire = NoFrame /\ handling = NoFrame /\ rx = <<>>
    BY DEF Init
  <2>2. <<>> \in Seq(Frame) /\ Len(<<>>) = 0
    OBVIOUS
  <2> QED BY <2>1, <2>2, CanNodeAssumption DEF FramesTyped
<1>2. TasksTyped
  BY DEF Init, TasksTyped
<1>3. HostTyped
  BY DEF Init, HostTyped, NewHost
<1>4. TxTyped(tx)
  <2>1. <<>> \in Seq({}) /\ Len(<<>>) = 0
    OBVIOUS
  <2>2. tx = <<>>
    BY DEF Init
  <2>3. 0 <= TxSize /\ \A f \in {} : AckTyped(f)
    BY CanNodeAssumption
  <2>4. tx \in Seq({}) /\ Len(tx) <= TxSize
    BY <2>1, <2>2, <2>3
  <2> QED BY <2>3, <2>4 DEF TxTyped
<1>5. mode.strategy \in Strategies
  <2>1. mode.strategy = sto
    BY DEF Init, Idle, Mode
  <2> QED BY <2>1, KindsTyped
<1>6. LevelTyped
  BY SetpointIntegrityAssumption DEF Init, LevelTyped
<1>7. UpdateTyped
  BY NoTransferWhole DEF Init, UpdateTyped, FlashType, Contents
<1> QED BY <1>1, <1>2, <1>3, <1>4, <1>5, <1>6, <1>7 DEF TypeInv

LEMMA NextTypes == CountsTyped /\ Shape(mode) /\ TypeInv /\ [Next]_vars => TypeInv'
<1> SUFFICES ASSUME CountsTyped, Shape(mode), TypeInv, [Next]_vars PROVE TypeInv'
  OBVIOUS
<1>1. CASE Next
  BY <1>1, NextFramesTyped, NextTasks, NextHost, NextUpdate, NextStrategy, NextLevel DEF TypeInv
<1>2. CASE UNCHANGED vars
  BY <1>2 DEF TypeInv, vars, FramesTyped, TasksTyped, HostTyped, TxTyped, LevelTyped, UpdateTyped, Whole
<1> QED BY <1>1, <1>2

\* What the typing of the parts says of the node
LEMMA TypesSuffice == IInv /\ DumpInv /\ TypeInv => TypeOK
<1> SUFFICES ASSUME IInv, DumpInv, TypeInv PROVE TypeOK
  OBVIOUS
<1>1. mode \in [tag : Tags, strategy : Strategies, trace : {mode.trace}, phase : Phases]
  <2>1. PICK S : mode \in [tag : Tags, strategy : StrategyShape, trace : S, phase : Phases]
    BY DEF IInv, Shape
  <2> QED BY <2>1 DEF TypeInv
<1>2. config \in ConfigType
  BY DEF IInv, ConfigInOrder
<1>3. update.next \in 0 .. FirmwareBytes \div ChunkBytes
  <2>1. update.next \in Nat /\ update.next * ChunkBytes <= FirmwareBytes
    BY DEF TypeInv, UpdateTyped, Whole
  <2>2. ChunkBytes \in Nat \ {0} /\ FirmwareBytes \in Nat
    BY FirmwareUpdateAssumption
  <2> QED BY <2>1, <2>2, QuotientHolds
<1>4. Len(update.staged) \in 0 .. StageBytes - 1
  <2>1. PICK k \in Nat : Len(update.staged) = k * ChunkBytes /\ k < StageChunks
    BY DEF TypeInv, UpdateTyped, Whole
  <2>2. ChunkBytes \in Nat \ {0}
    BY FirmwareUpdateAssumption
  <2>3. k * ChunkBytes \in Nat /\ (k + 1) * ChunkBytes <= StageChunks * ChunkBytes
    BY <2>1, <2>2, StagesOfChunks, ProductGrows
  <2>4. (k + 1) * ChunkBytes = k * ChunkBytes + ChunkBytes
    BY <2>1, <2>2
  <2> QED BY <2>1, <2>2, <2>3, <2>4, StagesOfChunks
<1>5. \A k \in DOMAIN flash : flash[k] \in Contents
  BY DEF TypeInv, UpdateTyped, FlashType
<1>6. capture.index \in 0 .. CaptureLen - 1 /\ capture.cursor \in 0 .. DumpFrames
  BY DEF DumpInv, CaptureTyped, CaptureType
<1>7. Len(tx) <= TxSize /\ status \in Images \cup {NoImage}
  BY DEF TypeInv, TxTyped, UpdateTyped
<1> QED BY <1>1, <1>2, <1>3, <1>4, <1>5, <1>6, <1>7 DEF TypeInv, TypeOK, FramesTyped, TasksTyped, HostTyped, LevelTyped

(***************************************************************************)
(* Type correctness of the node: every buffer keeps its size, a transfer   *)
(* its whole chunks within the capacity (update.rs), the bucket its bounds *)
(* (debounce.rs), the recording its buffer (capture.rs).                   *)
(***************************************************************************)
THEOREM CanNodeTyped == Spec => []TypeOK
<1>1. DumpInv => CountsTyped
  BY DEF DumpInv
<1>2. IInv => Shape(mode)
  BY DEF IInv
<1>3. IInv /\ DumpInv /\ TypeInv /\ [Next]_vars => TypeInv' /\ DumpInv'
  BY <1>1, <1>2, NextTypes, NextDump
<1>4. Init => TypeInv /\ DumpInv
  BY InitTypes, InitDump
<1> QED BY <1>3, <1>4, InductiveInvariant, TypesSuffice, PTL DEF Spec
=============================================================================
