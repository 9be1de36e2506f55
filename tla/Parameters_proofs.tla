--------------------------- MODULE Parameters_proofs ---------------------------
(***************************************************************************)
(* Proofs about the motor parameters in RAM and flash, for every number of *)
(* slots, every assignment of layout versions to firmwares, and any number *)
(* of calibrations, failed stores, power losses and image swaps.           *)
(***************************************************************************)
EXTENDS ParametersProperties, RecordStore_proofs

-----------------------------------------------------------------------------
\* What the tasks write, and how a page may change in a step.

LEMMA EstimatesTyped ==
  /\ NoEstimate \in Estimates
  /\ \A p \in Pages : Nothing(p) \in Values(p)
  /\ Values("config") = Configs \cup {Default}
  /\ Values("params") = Estimates /\ Values("gains") = Estimates /\ Values("hall") = Estimates
BY ParametersAssumption DEF NoEstimate, Estimates, Unmeasured, Pages, Nothing, Values

LEMMA VersionTyped ==
  ASSUME NEW fw \in Firmwares, NEW p \in Pages
  PROVE  Version[fw][p] \in Nat \ {NoVersion}
BY ParametersAssumption

LEMMA TypedFlash ==
  ASSUME TypeOK, NEW p \in Pages
  PROVE  flash[p] \in Page(Values(p))
BY DEF TypeOK, Page, Slot

LEMMA WritesDomain ==
  ASSUME NEW s
  PROVE  /\ s.task = "persist_config" =>
              /\ DOMAIN Writes(s) = {"config", "params", "gains"} \cup (IF HasHall THEN {"hall"} ELSE {})
              /\ Writes(s)["config"] = config /\ Writes(s)["params"] = motor
              /\ Writes(s)["gains"] = gains
              /\ HasHall => Writes(s)["hall"] = hall
         /\ s.task = "store_hall_table" => DOMAIN Writes(s) = {"hall"} /\ Writes(s)["hall"] = s.estimate
         /\ s.task = "tune_pi" => DOMAIN Writes(s) = {"gains"} /\ Writes(s)["gains"] = s.estimate
         /\ s.task = "store_motor_params" => DOMAIN Writes(s) = {"params"} /\ Writes(s)["params"] = s.estimate
<1>1. CASE s.task = "persist_config"
  <2> DEFINE own == {"config", "params", "gains"} \cup (IF HasHall THEN {"hall"} ELSE {})
  <2>1. Writes(s) = [p \in own |-> CASE p = "config" -> config [] p = "params" -> motor
                                      [] p = "gains" -> gains [] p = "hall" -> hall]
    BY <1>1 DEF Writes
  <2> QED BY <1>1, <2>1
<1>2. CASE s.task = "store_hall_table"
  BY <1>2 DEF Writes
<1>3. CASE s.task = "tune_pi"
  BY <1>3 DEF Writes
<1>4. CASE s.task = "store_motor_params"
  BY <1>4 DEF Writes
<1> QED BY <1>1, <1>2, <1>3, <1>4

LEMMA SpawnedTyped ==
  ASSUME TypeOK, NEW s \in spawned
  PROVE  /\ s.task \in Tasks /\ s.estimate \in Estimates
         /\ s.task \in {"persist_config", "store_hall_table", "tune_pi", "store_motor_params"}
BY DEF TypeOK, Tasks, CalibrationTasks

LEMMA WritesTyped ==
  ASSUME TypeOK, NEW s \in spawned, NEW p \in DOMAIN Writes(s)
  PROVE  p \in Pages /\ Writes(s)[p] \in Values(p)
<1>1. s.estimate \in Estimates /\ config \in Configs \cup {Default}
      /\ motor \in Estimates /\ gains \in Estimates /\ hall \in Estimates
  BY SpawnedTyped DEF TypeOK
<1>2. CASE s.task = "persist_config"
  <2>1. p \in {"config", "params", "gains", "hall"} /\ (p = "hall" => HasHall)
    BY <1>2, WritesDomain
  <2> QED BY <1>1, <1>2, <2>1, WritesDomain, EstimatesTyped DEF Pages
<1>3. CASE s.task # "persist_config"
  BY <1>1, <1>3, SpawnedTyped, WritesDomain, EstimatesTyped DEF Pages
<1> QED BY <1>2, <1>3

\* What one store leaves of a page: stored, or cut short.
StoreOf(s, p) == {Stored(flash[p], RecordOf(Writes(s), p))} \cup CutShort(flash[p], RecordOf(Writes(s), p))

LEMMA TaskWrites ==
  ASSUME NEW s, NEW failed \in SUBSET DOMAIN Writes(s), WriteAll(Writes(s), failed), NEW p \in Pages
  PROVE  /\ p \notin DOMAIN Writes(s) => flash'[p] = flash[p]
         /\ p \in DOMAIN Writes(s) \ failed => flash'[p] = Stored(flash[p], RecordOf(Writes(s), p))
         /\ p \in DOMAIN Writes(s) => flash'[p] \in StoreOf(s, p)
<1>1. PICK c \in PageAfter(Writes(s), failed, "config"), m \in PageAfter(Writes(s), failed, "params"),
           g \in PageAfter(Writes(s), failed, "gains"), h \in PageAfter(Writes(s), failed, "hall") :
        flash' = [q \in Pages |-> CASE q = "config" -> c [] q = "params" -> m [] q = "gains" -> g [] q = "hall" -> h]
  BY DEF WriteAll
<1>2. flash'[p] \in PageAfter(Writes(s), failed, p)
  BY <1>1 DEF Pages
<1> QED BY <1>2 DEF PageAfter, StoreOf

LEMMA PowerLossWrites ==
  ASSUME PowerLoss
  PROVE  /\ Boot(flash', firmware)
         /\ \/ flash' = flash
            \/ \E s \in spawned : \A p \in Pages :
                 flash'[p] = flash[p] \/ (p \in DOMAIN Writes(s) /\ flash'[p] \in StoreOf(s, p))
<1>1. CASE Boot(flash, firmware)
  BY <1>1 DEF Boot
<1>2. ASSUME NEW s \in spawned, NEW q \in DOMAIN Writes(s),
             NEW cut \in CutShort(flash[q], RecordOf(Writes(s), q)),
             Boot([p \in Pages |->
                     IF p = q THEN cut
                     ELSE IF p \in Before(q) \cap DOMAIN Writes(s) THEN Stored(flash[p], RecordOf(Writes(s), p))
                     ELSE flash[p]], firmware)
      PROVE  /\ Boot(flash', firmware)
             /\ \E t \in spawned : \A p \in Pages :
                  flash'[p] = flash[p] \/ (p \in DOMAIN Writes(t) /\ flash'[p] \in StoreOf(t, p))
  <2> DEFINE after == [p \in Pages |->
                     IF p = q THEN cut
                     ELSE IF p \in Before(q) \cap DOMAIN Writes(s) THEN Stored(flash[p], RecordOf(Writes(s), p))
                     ELSE flash[p]]
  <2>1. flash' = after /\ Boot(flash', firmware)
    BY <1>2 DEF Boot
  <2>2. ASSUME NEW p \in Pages
        PROVE  flash'[p] = flash[p] \/ (p \in DOMAIN Writes(s) /\ flash'[p] \in StoreOf(s, p))
    BY <1>2, <2>1 DEF StoreOf
  <2> QED BY <2>1, <2>2
<1>3. \/ Boot(flash, firmware)
      \/ \E s \in spawned : \E q \in DOMAIN Writes(s) : \E cut \in CutShort(flash[q], RecordOf(Writes(s), q)) :
           Boot([p \in Pages |->
                     IF p = q THEN cut
                     ELSE IF p \in Before(q) \cap DOMAIN Writes(s) THEN Stored(flash[p], RecordOf(Writes(s), p))
                     ELSE flash[p]], firmware)
  BY DEF PowerLoss
<1> QED BY <1>1, <1>2, <1>3

\* Every action that neither runs a task nor boots leaves the flash alone.
Frames == ReceiveConfig \/ ReceiveMotorConfig \/ ReceiveCalibration \/ ReceiveCancelCalibration \/ ReceiveMode

LEMMA FramesKeepFlash ==
  ASSUME Frames \/ Fault \/ CalibrationTick
  PROVE  /\ UNCHANGED <<flash, firmware, refused, mishaps>>
         /\ overtaken' \in {overtaken, overtaken \/ Pending}
BY DEF Frames, ReceiveConfig, ReceiveMotorConfig, ReceiveCalibration, ReceiveCancelCalibration, ReceiveMode,
   Fault, CalibrationTick, Forgotten

LEMMA FlashSteps ==
  ASSUME TypeOK, Next, NEW p \in Pages
  PROVE  \/ flash'[p] = flash[p]
         \/ \E s \in spawned : p \in DOMAIN Writes(s) /\ flash'[p] \in StoreOf(s, p)
<1>1. CASE Frames \/ Fault \/ CalibrationTick
  BY <1>1, FramesKeepFlash
<1>2. CASE RunTask
  <2>1. PICK s \in spawned : TaskSucceeds(s) \/ TaskFails(s) \/ TuningFails(s)
    BY <1>2 DEF RunTask
  <2>2. CASE TaskSucceeds(s)
    <3>1. WriteAll(Writes(s), {})
      BY <2>2 DEF TaskSucceeds
    <3> QED BY <3>1, TaskWrites
  <2>3. CASE TaskFails(s)
    <3>1. PICK failed \in SUBSET DOMAIN Writes(s) : WriteAll(Writes(s), failed)
      BY <2>3 DEF TaskFails
    <3> QED BY <3>1, TaskWrites
  <2>4. CASE TuningFails(s)
    BY <2>4 DEF TuningFails
  <2> QED BY <2>1, <2>2, <2>3, <2>4
<1>3. CASE PowerLoss
  BY <1>3, PowerLossWrites
<1>4. CASE ImageSwapped
  BY <1>4 DEF ImageSwapped, Boot
<1> QED BY <1>1, <1>2, <1>3, <1>4 DEF Next, Frames

\* A store keeps a page's type and its current record, replaces it, or loses it from a full page.
LEMMA StoreOfPage ==
  ASSUME TypeOK, NEW s \in spawned, NEW p \in DOMAIN Writes(s), NEW after \in StoreOf(s, p)
  PROVE  /\ after \in Page(Values(p))
         /\ \A v : \/ Latest(after, v) = {RecordOf(Writes(s), p)}
                   \/ Latest(after, v) = Latest(flash[p], v)
                   \/ Len(flash[p]) = Slots /\ Latest(after, v) = {}
<1>1. p \in Pages /\ Writes(s)[p] \in Values(p)
  BY WritesTyped
<1>2. flash[p] \in Page(Values(p)) /\ Version[firmware][p] \in Nat \ {NoVersion}
  BY <1>1, TypedFlash, VersionTyped DEF TypeOK
<1>3. RecordOf(Writes(s), p) = Record(Version[firmware][p], Writes(s)[p])
  BY DEF RecordOf
<1>4. CASE after = Stored(flash[p], RecordOf(Writes(s), p))
  BY <1>1, <1>2, <1>3, <1>4, StoredIsLatest
<1>5. CASE after \in CutShort(flash[p], RecordOf(Writes(s), p))
  BY <1>1, <1>2, <1>3, <1>5, CutShortKeepsOrLoses
<1> QED BY <1>4, <1>5 DEF StoreOf

-----------------------------------------------------------------------------
\* Type correctness.

LEMMA LoadTyped ==
  ASSUME NEW fl, NEW fw, NEW p \in Pages, fl[p] \in Page(Values(p))
  PROVE  LoadPage(fl, fw, p) \in Values(p)
<1>1. fl[p] \in Seq(Slot(Values(p)))
  BY DEF Page
<1>2. \/ LoadPage(fl, fw, p) = Nothing(p)
      \/ \E r \in Latest(fl[p], NoVersion) : LoadPage(fl, fw, p) = r.value
  BY <1>1, LoadedValue DEF LoadPage
<1>3. \A r \in Latest(fl[p], NoVersion) : r.value \in Values(p)
  <2> SUFFICES ASSUME NEW r \in Latest(fl[p], NoVersion) PROVE r.value \in Values(p)
    OBVIOUS
  <2>1. r \in Slot(Values(p))
    BY <1>1, LatestProperties
  <2> QED BY <2>1 DEF Slot
<1> QED BY <1>2, <1>3, EstimatesTyped

LEMMA BootTyped ==
  ASSUME TypeOK, \A p \in Pages : flash'[p] \in Page(Values(p)), NEW fw \in Firmwares, Boot(flash', fw),
         mishaps' \in 0 .. MaxMishaps
  PROVE  TypeOK'
<1>1. /\ config' \in Values("config") /\ motor' \in Values("params") /\ gains' \in Values("gains")
      /\ hall' \in Values("hall")
  BY LoadTyped, EstimatesTyped DEF Boot, Pages
<1>2. \A p \in Pages : flash'[p] \in Seq([version : Nat, value : Values(p)]) /\ Len(flash'[p]) <= Slots
  BY DEF Page, Slot
<1>3. /\ mode' \in {"Idle", "Fault"} /\ stage' = "hall" /\ session' = NoEstimate /\ spawned' = {}
      /\ refused' = FALSE /\ UNCHANGED <<epoch, overtaken>> /\ firmware' = fw
  BY DEF Boot
<1> QED BY <1>1, <1>2, <1>3, EstimatesTyped DEF TypeOK, Stages

LEMMA SpawnTyped ==
  ASSUME TypeOK, NEW task \in Tasks, NEW estimate \in Estimates
  PROVE  Spawn(task, estimate) \subseteq [task : Tasks, estimate : Estimates]
BY DEF TypeOK, Spawn

LEMMA FlashTyped ==
  ASSUME TypeOK, Next
  PROVE  \A p \in Pages : flash'[p] \in Page(Values(p))
BY FlashSteps, StoreOfPage, TypedFlash

LEMMA FramesTyped ==
  ASSUME TypeOK, Frames \/ Fault \/ CalibrationTick
  PROVE  /\ mode' \in {"Idle", "Torque", "Fault"} \cup Phases /\ stage' \in Stages
         /\ session' \in Estimates /\ epoch' \in 0 .. MaxEpoch /\ config' \in Configs \cup {Default}
         /\ motor' \in Estimates /\ gains' \in Estimates /\ hall' \in Estimates
         /\ spawned' \subseteq [task : Tasks, estimate : Estimates]
<1>0. /\ NoEstimate \in Estimates /\ Tasks = {"store_hall_table", "tune_pi", "store_motor_params", "persist_config"}
      /\ spawned \subseteq [task : Tasks, estimate : Estimates] /\ session \in Estimates
      /\ mode \in {"Idle", "Torque", "Fault"} \cup Phases /\ stage \in Stages
  BY EstimatesTyped DEF TypeOK, Tasks, CalibrationTasks
<1>1. \A task \in Tasks : \A e \in {session, NoEstimate} : Spawn(task, e) \subseteq [task : Tasks, estimate : Estimates]
  BY <1>0, SpawnTyped
<1>2. ASSUME NEW pairs \in PolePairs \cup {None}, Forgotten(pairs)
      PROVE  /\ motor' \in Estimates /\ gains' \in Estimates /\ hall' \in Estimates
             /\ spawned' \subseteq [task : Tasks, estimate : Estimates]
  <2>1. [pairs |-> pairs, epoch |-> Unmeasured] \in Estimates
    BY ParametersAssumption DEF Estimates, Unmeasured
  <2> QED BY <1>0, <1>1, <1>2, <2>1 DEF Forgotten
<1>3. CASE ReceiveConfig
  BY <1>0, <1>1, <1>3 DEF ReceiveConfig, TypeOK
<1>4. CASE ReceiveMotorConfig
  BY <1>0, <1>1, <1>2, <1>4 DEF ReceiveMotorConfig, TypeOK
<1>5. CASE ReceiveCalibration
  <2>1. CASE motor.pairs = None
    BY <1>5, <2>1 DEF ReceiveCalibration, TypeOK
  <2>2. CASE motor.pairs # None
    <3>1. motor.pairs \in PolePairs /\ epoch \in 0 .. MaxEpoch /\ MaxEpoch \in Nat
      BY <2>2, ParametersAssumption DEF TypeOK, Estimates
    <3>2. /\ epoch < MaxEpoch /\ epoch' = epoch + 1 /\ mode' = "ClearingExistingParameters"
          /\ session' = [pairs |-> motor.pairs, epoch |-> epoch + 1] /\ Forgotten(motor.pairs)
          /\ UNCHANGED <<stage, config>>
      BY <1>5, <2>2 DEF ReceiveCalibration
    <3>3. session' \in Estimates /\ epoch' \in 0 .. MaxEpoch
      BY <3>1, <3>2 DEF Estimates
    <3> QED BY <1>2, <3>1, <3>2, <3>3 DEF TypeOK, Phases
  <2> QED BY <2>1, <2>2
<1>6. CASE ReceiveCancelCalibration \/ ReceiveMode \/ Fault
  BY <1>6 DEF ReceiveCancelCalibration, ReceiveMode, Fault, TypeOK
<1>7. CASE CalibrationTick
  BY <1>0, <1>1, <1>7 DEF CalibrationTick, Requests, TypeOK, Phases, Stages
<1> QED BY <1>3, <1>4, <1>5, <1>6, <1>7 DEF Frames

LEMMA TasksTyped ==
  ASSUME TypeOK, RunTask
  PROVE  /\ mode' \in {"Idle", "Torque", "Fault"} \cup Phases /\ stage' \in Stages
         /\ motor' \in Estimates /\ gains' \in Estimates /\ hall' \in Estimates
         /\ spawned' \subseteq [task : Tasks, estimate : Estimates]
         /\ refused' \in BOOLEAN /\ overtaken' \in BOOLEAN /\ mishaps' \in 0 .. MaxMishaps
         /\ UNCHANGED <<session, epoch, config, firmware>>
<1>1. PICK s \in spawned : TaskSucceeds(s) \/ TaskFails(s) \/ TuningFails(s)
  BY DEF RunTask
<1>2. s.estimate \in Estimates
  BY SpawnedTyped
<1>3. ASSUME Applied(s) PROVE motor' \in Estimates /\ gains' \in Estimates /\ hall' \in Estimates
  BY <1>2, <1>3 DEF Applied, TypeOK
<1>4. CASE TaskSucceeds(s)
  <2>1. mode' \in {"Idle", "Torque", "Fault"} \cup Phases /\ stage' \in Stages
    <3>1. Completed(s)
      BY <1>4 DEF TaskSucceeds
    <3>2. \A phase \in Phases : ResumesTo(phase) => mode' \in Phases /\ stage' \in Stages
      BY DEF ResumesTo, Resumed, Phases, WaitPhases, Stages, TypeOK
    <3> QED BY <3>1, <3>2 DEF Completed, Calibrates, TypeOK
  <2> QED BY <1>3, <1>4, <2>1 DEF TaskSucceeds, TypeOK
<1>5. CASE TaskFails(s)
  <2>1. mishaps \in 0 .. MaxMishaps /\ MaxMishaps \in Nat /\ mishaps < MaxMishaps /\ mishaps' = mishaps + 1
    BY <1>5, ParametersAssumption DEF TaskFails, TypeOK
  <2> QED BY <1>3, <1>5, <2>1 DEF TaskFails, TypeOK
<1>6. CASE TuningFails(s)
  BY <1>6, EstimatesTyped DEF TuningFails, TypeOK
<1> QED BY <1>1, <1>4, <1>5, <1>6

LEMMA InitTyped == Init => TypeOK
<1> SUFFICES ASSUME Init PROVE TypeOK
  OBVIOUS
<1>1. \A p \in Pages : flash[p] = <<>>
  BY DEF Init
<1>2. MaxEpoch \in Nat /\ MaxMishaps \in Nat /\ Slots \in Nat \ {0} /\ Factory \in Firmwares
  BY ParametersAssumption, SlotsAssumption
<1>3. \A p \in Pages : flash[p] \in Seq([version : Nat, value : Values(p)]) /\ Len(flash[p]) <= Slots
  <2>1. \A p \in Pages : flash[p] \in Page(Values(p))
    BY <1>1, EmptyPage
  <2> QED BY <2>1 DEF Page, Slot
<1>4. /\ mode = "Idle" /\ stage = "hall" /\ session = NoEstimate /\ epoch = 0 /\ config = Default
      /\ motor = NoEstimate /\ gains = NoEstimate /\ hall = NoEstimate
      /\ spawned = {} /\ firmware = Factory /\ refused = FALSE /\ overtaken = FALSE /\ mishaps = 0
  BY DEF Init
<1>5. /\ mode \in {"Idle", "Torque", "Fault"} \cup Phases /\ stage \in Stages /\ session \in Estimates
      /\ motor \in Estimates /\ gains \in Estimates /\ hall \in Estimates
      /\ config \in Configs \cup {Default} /\ spawned \subseteq [task : Tasks, estimate : Estimates]
  BY <1>4, EstimatesTyped DEF Stages
<1>6. epoch \in 0 .. MaxEpoch /\ mishaps \in 0 .. MaxMishaps
  BY <1>2, <1>4
<1>7. firmware \in Firmwares /\ refused \in BOOLEAN /\ overtaken \in BOOLEAN
  BY <1>2, <1>4
<1> QED BY <1>3, <1>5, <1>6, <1>7 DEF TypeOK

LEMMA NextTyped ==
  ASSUME TypeOK, [Next]_vars PROVE TypeOK'
<1>1. CASE Frames \/ Fault \/ CalibrationTick
  <2>1. UNCHANGED <<flash, firmware, refused, mishaps>>
    BY <1>1, FramesKeepFlash
  <2>2. overtaken' \in BOOLEAN
    BY <1>1, FramesKeepFlash DEF TypeOK, Pending
  <2> QED BY <1>1, <2>1, <2>2, FramesTyped DEF TypeOK
<1>2. CASE RunTask
  <2>1. Next
    BY <1>2 DEF Next
  <2>2. \A p \in Pages : flash'[p] \in Seq([version : Nat, value : Values(p)]) /\ Len(flash'[p]) <= Slots
    BY <2>1, FlashTyped DEF Page, Slot
  <2> QED BY <1>2, <2>2, TasksTyped DEF TypeOK
<1>3. CASE PowerLoss
  <2>1. mishaps' \in 0 .. MaxMishaps
    BY <1>3, ParametersAssumption DEF PowerLoss, TypeOK
  <2>2. Boot(flash', firmware)
    BY <1>3, PowerLossWrites
  <2> QED BY <1>3, <2>1, <2>2, FlashTyped, BootTyped DEF Next, TypeOK
<1>4. CASE ImageSwapped
  <2>1. mishaps' \in 0 .. MaxMishaps
    BY <1>4, ParametersAssumption DEF ImageSwapped, TypeOK
  <2>2. PICK fw \in Firmwares : Boot(flash, fw)
    BY <1>4 DEF ImageSwapped
  <2>3. Boot(flash', fw)
    BY <2>2 DEF Boot
  <2> QED BY <1>4, <2>1, <2>3, FlashTyped, BootTyped DEF Next
<1>5. CASE UNCHANGED vars
  BY <1>5 DEF vars, TypeOK
<1> QED BY <1>1, <1>2, <1>3, <1>4, <1>5 DEF Next, Frames

(***************************************************************************)
(* Type correctness of the parameter store.                                *)
(***************************************************************************)
THEOREM ParametersTyped == Spec => []TypeOK
BY InitTyped, NextTyped, PTL DEF Spec

(***************************************************************************)
(* A page's current record is the old one or the one that a task was to    *)
(* store, and it is lost only from a full page (config.rs: store_record),  *)
(* whatever store is refused or cut short in whatever page.                *)
(***************************************************************************)
THEOREM AlwaysOldOrNew == Spec => OldOrNew
<1>1. TypeOK /\ [Next]_vars =>
        [\A p \in Pages :
           LET old == Latest(flash[p], NoVersion)
               new == Latest(flash'[p], NoVersion)
           IN  /\ new \subseteq old \cup {RecordOf(Writes(s), p) : s \in {t \in spawned : p \in DOMAIN Writes(t)}}
               /\ old # {} /\ new = {} => Len(flash[p]) = Slots]_vars
  <2> DEFINE Kept(p) ==
        LET old == Latest(flash[p], NoVersion)
            new == Latest(flash'[p], NoVersion)
        IN  /\ new \subseteq old \cup {RecordOf(Writes(s), p) : s \in {t \in spawned : p \in DOMAIN Writes(t)}}
            /\ old # {} /\ new = {} => Len(flash[p]) = Slots
  <2> SUFFICES ASSUME TypeOK, Next, NEW p \in Pages PROVE Kept(p)
    OBVIOUS
  <2>1. CASE flash'[p] = flash[p]
    BY <2>1
  <2>2. ASSUME NEW s \in spawned, p \in DOMAIN Writes(s), flash'[p] \in StoreOf(s, p) PROVE Kept(p)
    <3>1. \/ Latest(flash'[p], NoVersion) = {RecordOf(Writes(s), p)}
          \/ Latest(flash'[p], NoVersion) = Latest(flash[p], NoVersion)
          \/ Len(flash[p]) = Slots /\ Latest(flash'[p], NoVersion) = {}
      BY <2>2, StoreOfPage
    <3> QED BY <2>2, <3>1
  <2> QED BY <2>1, <2>2, FlashSteps
<1> QED BY <1>1, ParametersTyped, PTL DEF Spec, OldOrNew

-----------------------------------------------------------------------------
(***************************************************************************)
(* The invariant of a drive in which no frame has dropped the values over  *)
(* a queued task (~overtaken): a calibration goes through its phases in    *)
(* order, what it measures meets only values of its own session, and a     *)
(* task left over from a cancelled one still belongs to the last session.  *)
(***************************************************************************)
Held(p) == {r.value : r \in Latest(flash[p], NoVersion)}
Motors == {motor} \cup Held("params")
Measurements == {gains} \cup Held("gains") \cup (IF HasHall THEN {hall} \cup Held("hall") ELSE {})

Clearing == mode = "ClearingExistingParameters"

\* A calibration's task carries what its session measured.
CarrySession == \A s \in spawned : s.task \in CalibrationTasks => s.estimate = session

\* While a calibration runs, the only task of it that is queued is the one its phase waits for.
Awaited ==
  {t \in CalibrationTasks : \/ mode = "WaitingHallCompletion" /\ t = "store_hall_table"
                            \/ mode = "WaitingTuning" /\ t = "tune_pi"
                            \/ mode = "Done" /\ t = "store_motor_params"}
InTurn == Calibrates => \A s \in spawned : s.task \in CalibrationTasks => s.task \in Awaited

\* The values in RAM are dropped before the pages are cleared, ...
Cleared == Clearing => motor.epoch = Unmeasured /\ gains = NoEstimate /\ hall = NoEstimate

\* ... and there are no gains until the tuning of the session has run.
Untuned ==
  \/ Queued("tune_pi")
  \/ mode \in {"HallCalibration", "WaitingHallCompletion", "WaitingTuning"}
  \/ mode = "MotorEstimation" /\ stage # "done"
  => gains = NoEstimate

\* From the moment the pages are cleared there is nothing of another session, in RAM or flash.
OfSession ==
  (Calibrates /\ ~Clearing) \/ Pending =>
    /\ \A m \in Motors : m.epoch = Unmeasured \/ m = session
    /\ \A v \in Measurements : v \in {NoEstimate, session}

\* RunsOneMotor and LoadsOneMotor at once: any pair of values, from RAM or from a page.
AllFit == \A m \in Motors, v \in Measurements : m.epoch # Unmeasured => v \in {NoEstimate, m}

Ordered == CarrySession /\ InTurn /\ Cleared /\ Untuned

-----------------------------------------------------------------------------
\* Tasks and phases.

LEMMA TaskNames ==
  /\ CalibrationTasks = {"store_hall_table", "tune_pi", "store_motor_params"}
  /\ "persist_config" \notin CalibrationTasks
  /\ Phases = {"ClearingExistingParameters", "HallCalibration", "MotorEstimation",
               "WaitingHallCompletion", "WaitingTuning", "Done"}
  /\ "Idle" \notin Phases /\ "Fault" \notin Phases /\ "Torque" \notin Phases
BY DEF CalibrationTasks, Phases

\* A task of the running calibration is the only one of its kind.
LEMMA OnlyTask ==
  ASSUME TypeOK, CarrySession, NEW s \in spawned, NEW t \in spawned,
         s.task \in CalibrationTasks, t.task = s.task
  PROVE  t = s
<1>1. s \in [task : Tasks, estimate : Estimates] /\ t \in [task : Tasks, estimate : Estimates]
  BY DEF TypeOK
<1>2. s.estimate = session /\ t.estimate = session
  BY DEF CarrySession
<1> QED BY <1>1, <1>2

LEMMA SpawnCarries ==
  ASSUME CarrySession, NEW task,
         \/ spawned' = Spawn(task, session) /\ session' = session
         \/ task = "persist_config" /\ spawned' = Spawn(task, NoEstimate) /\ (session' = session \/ ~Pending)
  PROVE  CarrySession'
<1>1. \A s \in spawned' : s \in spawned \/ (s.task = task /\ (s.estimate = session \/ task = "persist_config"))
  BY DEF Spawn
<1>2. ~Pending => \A s \in spawned : s.task \notin CalibrationTasks
  BY DEF Pending, Queued
<1> QED BY <1>1, <1>2, TaskNames DEF CarrySession

LEMMA PersistQueued ==
  ASSUME NEW estimate, spawned' = Spawn("persist_config", estimate)
  PROVE  /\ spawned \subseteq spawned' /\ Queued("persist_config")'
         /\ \A s \in spawned' : s.task \in CalibrationTasks => s \in spawned
<1> DEFINE new == [task |-> "persist_config", estimate |-> estimate]
<1>1. CASE Queued("persist_config")
  BY <1>1 DEF Spawn, Queued
<1>2. CASE ~Queued("persist_config")
  <2>1. spawned' = spawned \cup {new} /\ new.task = "persist_config"
    BY <1>2 DEF Spawn
  <2> HIDE DEF new
  <2> QED BY <2>1, TaskNames DEF Queued
<1> QED BY <1>1, <1>2

\* What a frame changes.
LEMMA FramesEffect ==
  ASSUME Frames
  PROVE  /\ \/ UNCHANGED spawned /\ UNCHANGED <<config, motor, gains, hall>>
            \/ spawned' = Spawn("persist_config", NoEstimate)
         /\ \/ UNCHANGED <<motor, gains, hall, overtaken>>
            \/ /\ motor'.epoch = Unmeasured /\ gains' = NoEstimate /\ hall' = NoEstimate
               /\ overtaken' = (overtaken \/ Pending)
         /\ \/ mode' = mode /\ UNCHANGED <<stage, session>>
            \/ mode' \notin Phases /\ UNCHANGED <<stage, session>>
            \/ /\ mode' = "ClearingExistingParameters" /\ stage' = stage
               /\ motor'.epoch = Unmeasured /\ gains' = NoEstimate /\ hall' = NoEstimate
               /\ spawned' = Spawn("persist_config", NoEstimate)
               /\ overtaken' = (overtaken \/ Pending)
<1>1. CASE ReceiveConfig
  BY <1>1 DEF ReceiveConfig
<1>2. CASE ReceiveMotorConfig
  BY <1>2 DEF ReceiveMotorConfig, Forgotten
<1>3. CASE ReceiveCalibration
  BY <1>3, TaskNames DEF ReceiveCalibration, Forgotten
<1>4. CASE ReceiveCancelCalibration \/ ReceiveMode
  BY <1>4, TaskNames DEF ReceiveCancelCalibration, ReceiveMode
<1> QED BY <1>1, <1>2, <1>3, <1>4 DEF Frames

\* The mode and the estimator's next wish after a task that succeeded.
LEMMA CompletedEffect ==
  ASSUME TypeOK, InTurn, NEW s \in spawned, Completed(s)
  PROVE  \/ mode' = mode /\ stage' = stage /\ (s.task \in CalibrationTasks => mode \notin Phases)
         \/ mode' = "Idle" /\ stage' = stage
         \/ s.task = "persist_config" /\ Clearing /\ mode' = "MotorEstimation" /\ stage' = "hall"
         \/ /\ s.task = "store_hall_table" /\ mode = "WaitingHallCompletion"
            /\ mode' = "MotorEstimation" /\ stage' = "tuning"
         \/ s.task = "tune_pi" /\ mode = "WaitingTuning" /\ mode' = "MotorEstimation" /\ stage' = "done"
<1>1. CASE s.task = "store_motor_params"
  BY <1>1 DEF Completed, Calibrates
<1>2. CASE s.task = "persist_config"
  BY <1>2, TaskNames DEF Completed, Calibrates, Clearing, ResumesTo, Resumed, WaitPhases
<1>3. CASE s.task \in {"store_hall_table", "tune_pi"} /\ mode \notin Phases
  BY <1>3 DEF Completed, Calibrates
<1>4. CASE s.task \in {"store_hall_table", "tune_pi"} /\ mode \in Phases
  <2>1. s.task \in Awaited
    BY <1>4, TaskNames DEF InTurn, Calibrates
  <2>2. \/ s.task = "store_hall_table" /\ mode = "WaitingHallCompletion"
        \/ s.task = "tune_pi" /\ mode = "WaitingTuning"
    BY <1>4, <2>1 DEF Awaited
  <2>3. ResumesTo(mode)
    BY <1>4, <2>2 DEF Completed, Calibrates
  <2> QED BY <2>2, <2>3 DEF ResumesTo, Resumed, WaitPhases
<1> QED BY <1>1, <1>2, <1>3, <1>4, SpawnedTyped

LEMMA OrderedFrames ==
  ASSUME Ordered, Frames, ~overtaken' PROVE Ordered'
<1>1. \A s \in spawned' : s.task \in CalibrationTasks => s \in spawned
  BY FramesEffect, PersistQueued
<1>2. ASSUME Pending
      PROVE  session' = session /\ (mode' = mode \/ mode' \notin Phases)
  BY <1>2, FramesEffect, TaskNames
<1>3. ASSUME ~Pending
      PROVE  \A s \in spawned' : s.task \notin CalibrationTasks
  BY <1>1, <1>3 DEF Pending, Queued
<1>4. CarrySession' /\ InTurn'
  <2>1. CASE Pending
    BY <1>1, <1>2, <2>1 DEF Ordered, CarrySession, InTurn, Calibrates, Awaited
  <2>2. CASE ~Pending
    BY <1>3, <2>2 DEF CarrySession, InTurn
  <2> QED BY <2>1, <2>2
<1>5. Cleared'
  BY FramesEffect, TaskNames DEF Ordered, Cleared, Clearing
<1>6. Untuned'
  <2>1. Queued("tune_pi")' => Queued("tune_pi")
    BY <1>1, TaskNames DEF Queued
  <2>2. gains' \in {gains, NoEstimate}
    BY FramesEffect
  <2> QED BY <2>1, <2>2, FramesEffect, TaskNames DEF Ordered, Untuned
<1> QED BY <1>4, <1>5, <1>6 DEF Ordered

LEMMA OrderedFault ==
  ASSUME Ordered, Fault PROVE Ordered'
BY TaskNames DEF Ordered, Fault, CarrySession, InTurn, Calibrates, Cleared, Clearing, Untuned, Queued

LEMMA OrderedTick ==
  ASSUME Ordered, CalibrationTick PROVE Ordered'
<1>1. UNCHANGED <<session, gains>> /\ mode \in {"MotorEstimation", "HallCalibration"}
      /\ mode' # "ClearingExistingParameters"
  BY DEF CalibrationTick, Requests
<1>2. \A s \in spawned : s.task \notin CalibrationTasks
  BY <1>1, TaskNames DEF Ordered, InTurn, Calibrates, Awaited
<1>3. \/ /\ spawned' = spawned /\ mode = "MotorEstimation" /\ stage = "hall"
         /\ \/ mode' = "HallCalibration"
            \/ mode' = mode /\ stage' = "tuning"
      \/ mode' = "WaitingHallCompletion" /\ spawned' = Spawn("store_hall_table", session)
         /\ mode = "HallCalibration"
      \/ mode' = "WaitingTuning" /\ spawned' = Spawn("tune_pi", session)
         /\ mode = "MotorEstimation" /\ stage = "tuning"
      \/ mode' = "Done" /\ spawned' = Spawn("store_motor_params", session)
         /\ mode = "MotorEstimation" /\ stage = "done"
  <2>1. CASE HasHall
    BY <2>1 DEF CalibrationTick, Requests
  <2>2. CASE ~HasHall
    BY <2>2 DEF CalibrationTick, Requests
  <2> QED BY <2>1, <2>2
<1>4. CarrySession'
  <2>1. CASE spawned' = spawned
    BY <1>1, <2>1 DEF Ordered, CarrySession
  <2>2. ASSUME NEW task, spawned' = Spawn(task, session) PROVE CarrySession'
    BY <1>1, <2>2, SpawnCarries DEF Ordered
  <2> QED BY <1>3, <2>1, <2>2
<1>5. \A task : spawned' = Spawn(task, session) => \A s \in spawned' : s \in spawned \/ s.task = task
  BY DEF Spawn
<1>6. InTurn'
  BY <1>2, <1>3, <1>5, TaskNames DEF InTurn, Awaited, Calibrates
<1>7. Cleared'
  BY <1>1 DEF Cleared, Clearing
<1>8. Untuned'
  <2>1. Queued("tune_pi")' => Queued("tune_pi") \/ mode' = "WaitingTuning"
    BY <1>3, <1>5 DEF Queued
  <2> QED BY <1>1, <1>3, <2>1 DEF Ordered, Untuned
<1> QED BY <1>4, <1>6, <1>7, <1>8 DEF Ordered

LEMMA OrderedTask ==
  ASSUME TypeOK, Ordered, NEW s \in spawned, TaskSucceeds(s) \/ TaskFails(s) \/ TuningFails(s)
  PROVE  Ordered'
<1>1. /\ spawned' = spawned \ {s} /\ session' = session
      /\ (gains' = NoEstimate \/ gains' = gains \/ s.task = "tune_pi")
  BY DEF TaskSucceeds, TaskFails, TuningFails, Applied
<1>2. CarrySession'
  BY <1>1 DEF Ordered, CarrySession
<1>3. s.task = "tune_pi" => ~Queued("tune_pi")'
  BY <1>1, OnlyTask, TaskNames DEF Ordered, Queued
<1>4. Queued("tune_pi")' => Queued("tune_pi") /\ s.task # "tune_pi"
  BY <1>1, <1>3 DEF Queued
<1>5. CASE TaskFails(s) \/ TuningFails(s)
  <2>1. mode' = "Fault"
    BY <1>5 DEF TaskFails, TuningFails
  <2>2. InTurn' /\ Cleared'
    BY <2>1, TaskNames DEF InTurn, Calibrates, Cleared, Clearing
  <2>3. Untuned'
    BY <1>1, <1>4, <2>1 DEF Ordered, Untuned
  <2> QED BY <1>2, <2>2, <2>3 DEF Ordered
<1>6. CASE TaskSucceeds(s)
  <2>0. InTurn
    BY DEF Ordered
  <2>1. Completed(s) /\ Applied(s)
    BY <1>6 DEF TaskSucceeds
  <2>2. \/ mode' = mode /\ stage' = stage /\ (s.task \in CalibrationTasks => mode \notin Phases)
        \/ mode' = "Idle" /\ stage' = stage
        \/ s.task = "persist_config" /\ Clearing /\ mode' = "MotorEstimation" /\ stage' = "hall"
        \/ /\ s.task = "store_hall_table" /\ mode = "WaitingHallCompletion"
           /\ mode' = "MotorEstimation" /\ stage' = "tuning"
        \/ s.task = "tune_pi" /\ mode = "WaitingTuning" /\ mode' = "MotorEstimation" /\ stage' = "done"
    BY <2>0, <2>1, CompletedEffect
  <2>3. InTurn'
    <3>1. CASE mode' = mode
      BY <1>1, <2>0, <3>1 DEF InTurn, Calibrates, Awaited
    <3>2. CASE mode' = "Idle"
      BY <3>2, TaskNames DEF InTurn, Calibrates
    <3>3. CASE s.task = "persist_config" /\ Clearing /\ mode' = "MotorEstimation"
      <4>1. \A t \in spawned : t.task \notin CalibrationTasks
        BY <2>0, <3>3, TaskNames DEF InTurn, Calibrates, Clearing, Awaited
      <4> QED BY <1>1, <4>1 DEF InTurn
    <3>4. CASE /\ mode' = "MotorEstimation"
               /\ \/ s.task = "store_hall_table" /\ mode = "WaitingHallCompletion"
                  \/ s.task = "tune_pi" /\ mode = "WaitingTuning"
      <4>1. \A t \in spawned : t.task \in CalibrationTasks => t.task = s.task
        BY <2>0, <3>4, TaskNames DEF InTurn, Calibrates, Awaited
      <4>2. \A t \in spawned' : t.task \notin CalibrationTasks
        BY <1>1, <4>1, OnlyTask DEF Ordered
      <4> QED BY <4>2 DEF InTurn
    <3> QED BY <2>2, <3>1, <3>2, <3>3, <3>4
  <2>4. Cleared'
    <3>1. CASE mode' = "ClearingExistingParameters"
      <4>1. Clearing /\ s.task \notin CalibrationTasks
        BY <2>2, <3>1, TaskNames DEF Clearing
      <4>2. UNCHANGED <<motor, gains, hall>>
        BY <2>1, <4>1, TaskNames DEF Applied
      <4> QED BY <4>1, <4>2 DEF Ordered, Cleared, Clearing
    <3> QED BY <3>1 DEF Cleared, Clearing
  <2>5. Untuned'
    <3>1. CASE s.task = "tune_pi"
      BY <1>4, <2>2, <3>1, TaskNames DEF Untuned
    <3>2. CASE s.task # "tune_pi"
      <4>1. gains' = gains
        BY <2>1, <3>2 DEF Applied
      <4>2. CASE Clearing
        BY <4>1, <4>2 DEF Ordered, Cleared, Untuned
      <4>3. CASE ~Clearing
        BY <1>4, <2>2, <3>2, <4>1, <4>3 DEF Ordered, Untuned
      <4> QED BY <4>2, <4>3
    <3> QED BY <3>1, <3>2
  <2> QED BY <1>2, <2>3, <2>4, <2>5 DEF Ordered
<1> QED BY <1>5, <1>6

LEMMA OrderedBoot ==
  ASSUME NEW fl, NEW fw, Boot(fl, fw) PROVE Ordered' /\ ~Pending' /\ ~Calibrates'
<1>1. spawned' = {} /\ mode' \in {"Idle", "Fault"}
  BY DEF Boot
<1> QED BY <1>1, TaskNames DEF Ordered, CarrySession, InTurn, Calibrates, Cleared, Clearing, Untuned, Queued, Pending

LEMMA OrderedInit == Init => Ordered
BY TaskNames DEF Init, Ordered, CarrySession, InTurn, Calibrates, Cleared, Clearing, Untuned, Queued

LEMMA OrderedNext ==
  ASSUME TypeOK, Ordered, [Next]_vars, ~overtaken' PROVE Ordered'
<1>1. CASE RunTask
  BY <1>1, OrderedTask DEF RunTask
<1>2. CASE PowerLoss
  BY <1>2, PowerLossWrites, OrderedBoot
<1>3. CASE ImageSwapped
  BY <1>3, OrderedBoot DEF ImageSwapped
<1>4. CASE UNCHANGED vars
  BY <1>4 DEF vars, Ordered, CarrySession, InTurn, Calibrates, Awaited, Cleared, Clearing, Untuned, Queued
<1> QED BY <1>1, <1>2, <1>3, <1>4, OrderedFrames, OrderedFault, OrderedTick DEF Next, Frames

-----------------------------------------------------------------------------
\* The values a step brings into RAM and flash.

LEMMA LoadHeld ==
  ASSUME NEW fl, NEW fw, NEW p \in Pages, fl[p] \in Page(Values(p))
  PROVE  LoadPage(fl, fw, p) \in {r.value : r \in Latest(fl[p], NoVersion)} \cup {Nothing(p)}
<1>1. fl[p] \in Seq(Slot(Values(p)))
  BY DEF Page
<1> QED BY <1>1, LoadedValue DEF LoadPage

LEMMA HeldAfter ==
  ASSUME TypeOK, Next, NEW p \in Pages, NEW v \in Held(p)'
  PROVE  v \in Held(p) \/ \E s \in spawned : p \in DOMAIN Writes(s) /\ v = Writes(s)[p]
<1>1. PICK r \in Latest(flash'[p], NoVersion) : v = r.value
  BY DEF Held
<1>2. CASE flash'[p] = flash[p]
  BY <1>1, <1>2 DEF Held
<1>3. ASSUME NEW s \in spawned, p \in DOMAIN Writes(s), flash'[p] \in StoreOf(s, p)
      PROVE  v \in Held(p) \/ v = Writes(s)[p]
  <2>1. \/ Latest(flash'[p], NoVersion) = {RecordOf(Writes(s), p)}
        \/ Latest(flash'[p], NoVersion) = Latest(flash[p], NoVersion)
        \/ Latest(flash'[p], NoVersion) = {}
    BY <1>3, StoreOfPage
  <2>2. RecordOf(Writes(s), p).value = Writes(s)[p]
    BY DEF RecordOf, Record
  <2> QED BY <1>1, <2>1, <2>2 DEF Held
<1> QED BY <1>2, <1>3, FlashSteps

\* A task writes what is in RAM, or what its session measured.
LEMMA WritesKnown ==
  ASSUME TypeOK, CarrySession, NEW s \in spawned, NEW p \in DOMAIN Writes(s)
  PROVE  \/ Pending /\ Writes(s)[p] = session /\ s.task \in CalibrationTasks
         \/ /\ s.task = "persist_config"
            /\ \/ p = "config"
               \/ p = "params" /\ Writes(s)[p] = motor
               \/ p = "gains" /\ Writes(s)[p] = gains
               \/ p = "hall" /\ HasHall /\ Writes(s)[p] = hall
<1>1. CASE s.task \in CalibrationTasks
  <2>1. s.estimate = session /\ Pending
    BY <1>1 DEF CarrySession, Pending, Queued
  <2>2. Writes(s)[p] = s.estimate
    BY <1>1, WritesDomain, TaskNames
  <2> QED BY <1>1, <2>1, <2>2
<1>2. CASE s.task = "persist_config"
  BY <1>2, WritesDomain
<1> QED BY <1>1, <1>2, SpawnedTyped, TaskNames

\* What a task puts into RAM.
LEMMA TaskRam ==
  ASSUME TypeOK, CarrySession, RunTask
  PROVE  /\ motor' = motor \/ (Pending /\ motor' = session)
         /\ gains' \in {gains, NoEstimate} \/ (Pending /\ gains' = session)
         /\ hall' = hall \/ (Pending /\ hall' = session)
<1>1. PICK s \in spawned : TaskSucceeds(s) \/ TaskFails(s) \/ TuningFails(s)
  BY DEF RunTask
<1>2. s.task \in CalibrationTasks => Pending /\ s.estimate = session
  BY DEF CarrySession, Pending, Queued
<1>3. CASE TuningFails(s)
  BY <1>3 DEF TuningFails
<1>4. CASE TaskSucceeds(s) \/ TaskFails(s)
  <2>1. Applied(s)
    BY <1>4 DEF TaskSucceeds, TaskFails
  <2> QED BY <1>2, <2>1, TaskNames DEF Applied
<1> QED BY <1>1, <1>3, <1>4

LEMMA TickRam ==
  ASSUME Fault \/ CalibrationTick PROVE UNCHANGED <<motor, gains, hall, session>>
BY DEF Fault, CalibrationTick

\* What is loaded at boot was held, or is nothing.
LEMMA BootRam ==
  ASSUME TypeOK, Next, PowerLoss \/ ImageSwapped
  PROVE  /\ motor' \in Held("params")' \cup {NoEstimate}
         /\ gains' \in Held("gains")' \cup {NoEstimate}
         /\ HasHall => hall' \in Held("hall")' \cup {NoEstimate}
<1>1. \E fw : Boot(flash', fw)
  BY PowerLossWrites DEF ImageSwapped, Boot
<1>2. \A p \in Pages : flash'[p] \in Page(Values(p))
  BY FlashTyped
<1>3. \A fw : \A p \in Pages \ {"config"} : LoadPage(flash', fw, p) \in Held(p)' \cup {NoEstimate}
  BY <1>2, LoadHeld DEF Held, Nothing
<1>4. {"params", "gains", "hall"} \subseteq Pages \ {"config"}
  BY DEF Pages
<1> QED BY <1>1, <1>3, <1>4 DEF Boot

LEMMA MotorAfter ==
  ASSUME TypeOK, CarrySession, Next, NEW m \in Motors'
  PROVE  m \in Motors \/ m.epoch = Unmeasured \/ (Pending /\ m = session)
<1>0. NoEstimate.epoch = Unmeasured /\ "params" \in Pages
  BY DEF NoEstimate, Pages
<1>1. CASE m \in Held("params")'
  <2>1. CASE m \in Held("params")
    BY <2>1 DEF Motors
  <2>2. CASE \E s \in spawned : "params" \in DOMAIN Writes(s) /\ m = Writes(s)["params"]
    BY <2>2, WritesKnown DEF Motors
  <2> QED BY <1>0, <1>1, <2>1, <2>2, HeldAfter
<1>2. CASE m = motor'
  <2>1. CASE Frames
    BY <1>2, <2>1, FramesEffect DEF Motors
  <2>2. CASE Fault \/ CalibrationTick
    BY <1>2, <2>2, TickRam DEF Motors
  <2>3. CASE RunTask
    BY <1>2, <2>3, TaskRam DEF Motors
  <2>4. CASE PowerLoss \/ ImageSwapped
    BY <1>0, <1>1, <1>2, <2>4, BootRam
  <2> QED BY <2>1, <2>2, <2>3, <2>4 DEF Next, Frames
<1> QED BY <1>1, <1>2 DEF Motors

LEMMA MeasurementAfter ==
  ASSUME TypeOK, CarrySession, Next, NEW v \in Measurements'
  PROVE  v \in Measurements \/ v = NoEstimate \/ (Pending /\ v = session)
<1>0. "gains" \in Pages /\ "hall" \in Pages /\ "gains" # "hall"
  BY DEF Pages
<1>1. ASSUME NEW p \in {"gains", "hall"}, p = "hall" => HasHall, v \in Held(p)'
      PROVE  v \in Measurements \/ v = NoEstimate \/ (Pending /\ v = session)
  <2>1. CASE v \in Held(p)
    BY <1>1, <2>1 DEF Measurements
  <2>2. CASE \E s \in spawned : p \in DOMAIN Writes(s) /\ v = Writes(s)[p]
    BY <1>1, <2>2, WritesKnown DEF Measurements
  <2> QED BY <1>0, <1>1, <2>1, <2>2, HeldAfter
<1>2. CASE v = gains'
  <2>1. CASE Frames
    BY <1>2, <2>1, FramesEffect DEF Measurements
  <2>2. CASE Fault \/ CalibrationTick
    BY <1>2, <2>2, TickRam DEF Measurements
  <2>3. CASE RunTask
    BY <1>2, <2>3, TaskRam DEF Measurements
  <2>4. CASE PowerLoss \/ ImageSwapped
    BY <1>0, <1>1, <1>2, <2>4, BootRam
  <2> QED BY <2>1, <2>2, <2>3, <2>4 DEF Next, Frames
<1>3. CASE v = hall' /\ HasHall
  <2>1. CASE Frames
    BY <1>3, <2>1, FramesEffect DEF Measurements
  <2>2. CASE Fault \/ CalibrationTick
    BY <1>3, <2>2, TickRam DEF Measurements
  <2>3. CASE RunTask
    BY <1>3, <2>3, TaskRam DEF Measurements
  <2>4. CASE PowerLoss \/ ImageSwapped
    BY <1>0, <1>1, <1>3, <2>4, BootRam
  <2> QED BY <2>1, <2>2, <2>3, <2>4 DEF Next, Frames
<1> QED BY <1>1, <1>2, <1>3 DEF Measurements

-----------------------------------------------------------------------------
\* A calibration past its first phase, or a task of one: only values of its session.
Active == (Calibrates /\ ~Clearing) \/ Pending

\* persist_config stores all pages of a RAM that holds nothing measured: nothing measured is left.
LEMMA ClearedAfter ==
  ASSUME TypeOK, NEW s \in spawned, s.task = "persist_config", TaskSucceeds(s),
         motor.epoch = Unmeasured, gains = NoEstimate, hall = NoEstimate
  PROVE  (\A m \in Motors' : m.epoch = Unmeasured) /\ (\A v \in Measurements' : v = NoEstimate)
<1>1. WriteAll(Writes(s), {}) /\ Applied(s)
  BY DEF TaskSucceeds
<1>2. UNCHANGED <<motor, gains, hall>>
  BY <1>1, TaskNames DEF Applied
<1>3. ASSUME NEW p \in DOMAIN Writes(s) PROVE Held(p)' = {Writes(s)[p]}
  <2>1. p \in Pages /\ Writes(s)[p] \in Values(p)
    BY WritesTyped
  <2>2. flash[p] \in Page(Values(p)) /\ Version[firmware][p] \in Nat \ {NoVersion}
    BY <2>1, TypedFlash, VersionTyped DEF TypeOK
  <2>3. flash'[p] = Stored(flash[p], RecordOf(Writes(s), p))
    BY <1>1, <2>1, TaskWrites
  <2>4. Latest(flash'[p], NoVersion) = {Record(Version[firmware][p], Writes(s)[p])}
    BY <2>1, <2>2, <2>3, StoredIsLatest DEF RecordOf
  <2> QED BY <2>4 DEF Held, Record
<1>4. Held("params")' = {motor} /\ Held("gains")' = {gains} /\ (HasHall => Held("hall")' = {hall})
  BY <1>3, WritesDomain
<1> QED BY <1>2, <1>4 DEF Motors, Measurements

\* Where an active calibration comes from.
LEMMA ActiveAfter ==
  ASSUME TypeOK, Ordered, Next, Active', ~overtaken'
  PROVE  \/ Active /\ session' = session
         \/ (\A m \in Motors' : m.epoch = Unmeasured) /\ (\A v \in Measurements' : v = NoEstimate)
<1>1. CASE Frames
  <2>1. \A s \in spawned' : s.task \in CalibrationTasks => s \in spawned
    BY <1>1, FramesEffect, PersistQueued
  <2>2. Pending' => Pending
    BY <2>1 DEF Pending, Queued
  <2>3. CASE mode' = "ClearingExistingParameters" /\ mode # "ClearingExistingParameters"
    <3>1. ~Pending
      BY <1>1, <2>3, FramesEffect, TaskNames
    <3> QED BY <2>2, <2>3, <3>1 DEF Active, Clearing
  <2>4. CASE mode' # "ClearingExistingParameters" \/ mode = "ClearingExistingParameters"
    <3>1. CASE Pending'
      <4>1. session' = session
        BY <1>1, <2>2, <3>1, FramesEffect
      <4> QED BY <2>2, <3>1, <4>1 DEF Active
    <3>2. CASE ~Pending'
      BY <1>1, <2>4, <3>2, FramesEffect DEF Active, Calibrates, Clearing
    <3> QED BY <3>1, <3>2
  <2> QED BY <2>3, <2>4
<1>2. CASE Fault
  BY <1>2, TaskNames DEF Fault, Active, Calibrates, Clearing, Pending, Queued
<1>3. CASE CalibrationTick
  BY <1>3, TaskNames DEF CalibrationTick, Active, Calibrates, Clearing
<1>4. ASSUME NEW s \in spawned, TaskSucceeds(s) \/ TaskFails(s) \/ TuningFails(s)
      PROVE  \/ Active /\ session' = session
             \/ (\A m \in Motors' : m.epoch = Unmeasured) /\ (\A v \in Measurements' : v = NoEstimate)
  <2>1. session' = session /\ spawned' = spawned \ {s}
    BY <1>4 DEF TaskSucceeds, TaskFails, TuningFails
  <2>2. Pending' => Pending
    BY <2>1 DEF Pending, Queued
  <2>3. CASE TaskFails(s) \/ TuningFails(s)
    BY <2>1, <2>2, <2>3, TaskNames DEF TaskFails, TuningFails, Active, Calibrates, Clearing
  <2>4. CASE TaskSucceeds(s)
    <3>1. Completed(s) /\ InTurn /\ Cleared
      BY <2>4 DEF TaskSucceeds, Ordered
    <3>2. CASE s.task = "persist_config" /\ Clearing
      BY <2>4, <3>1, <3>2, ClearedAfter DEF Cleared
    <3>3. CASE ~(s.task = "persist_config" /\ Clearing)
      BY <2>1, <2>2, <3>1, <3>3, CompletedEffect, TaskNames DEF Active, Calibrates, Clearing
    <3> QED BY <3>2, <3>3
  <2> QED BY <1>4, <2>3, <2>4
<1>5. CASE PowerLoss
  BY <1>5, PowerLossWrites, OrderedBoot DEF Active
<1>6. CASE ImageSwapped
  BY <1>6, OrderedBoot DEF ImageSwapped, Active
<1> QED BY <1>1, <1>2, <1>3, <1>4, <1>5, <1>6 DEF Next, Frames, RunTask

LEMMA OfSessionNext ==
  ASSUME TypeOK, Ordered, OfSession, [Next]_vars, ~overtaken' PROVE OfSession'
<1>1. CASE Next
  <2> SUFFICES ASSUME Active'
               PROVE  /\ \A m \in Motors' : m.epoch = Unmeasured \/ m = session'
                      /\ \A v \in Measurements' : v \in {NoEstimate, session'}
    BY DEF OfSession, Active
  <2>1. CASE Active /\ session' = session
    <3>1. /\ \A m \in Motors : m.epoch = Unmeasured \/ m = session
          /\ \A v \in Measurements : v \in {NoEstimate, session}
      BY <2>1 DEF OfSession, Active
    <3> QED BY <1>1, <2>1, <3>1, MotorAfter, MeasurementAfter DEF Ordered
  <2> QED BY <1>1, <2>1, ActiveAfter
<1>2. CASE UNCHANGED vars
  BY <1>2 DEF vars, OfSession, Calibrates, Clearing, Pending, Queued, Motors, Measurements, Held
<1> QED BY <1>1, <1>2

LEMMA AllFitNext ==
  ASSUME TypeOK, CarrySession, OfSession, AllFit, [Next]_vars PROVE AllFit'
<1>1. CASE Next
  <2> SUFFICES ASSUME NEW m \in Motors', NEW v \in Measurements', m.epoch # Unmeasured
               PROVE  v \in {NoEstimate, m}
    BY DEF AllFit
  <2>1. m \in Motors \/ (Pending /\ m = session)
    BY <1>1, MotorAfter
  <2>2. v \in Measurements \/ v = NoEstimate \/ (Pending /\ v = session)
    BY <1>1, MeasurementAfter
  <2>3. CASE m \in Motors /\ v \in Measurements
    BY <2>3 DEF AllFit
  <2>4. CASE Pending
    <3>1. m = session /\ v \in {NoEstimate, session}
      BY <2>1, <2>2, <2>4 DEF OfSession
    <3> QED BY <3>1
  <2> QED BY <2>1, <2>2, <2>3, <2>4
<1>2. CASE UNCHANGED vars
  BY <1>2 DEF vars, AllFit, Motors, Measurements, Held
<1> QED BY <1>1, <1>2

LEMMA ValuesInit == Init => OfSession /\ AllFit
<1> SUFFICES ASSUME Init PROVE OfSession /\ AllFit
  OBVIOUS
<1>1. \A p \in Pages : Held(p) = {}
  BY EmptyLatest DEF Init, Held
<1>2. Motors = {NoEstimate} /\ Measurements = {NoEstimate}
  BY <1>1 DEF Init, Motors, Measurements, Pages
<1> QED BY <1>2 DEF OfSession, AllFit, NoEstimate, Unmeasured

\* The store that ends an exemption leaves nothing measured and no task of a calibration.
LEMMA ClearedAgain ==
  ASSUME TypeOK, overtaken, Next, ~overtaken'
  PROVE  /\ Ordered' /\ OfSession' /\ AllFit'
         /\ \E s \in spawned : s.task = "persist_config" /\ TaskSucceeds(s)
<1>1. PICK s \in spawned : TaskSucceeds(s) /\ AllCleared(s)
  <2>1. CASE Frames \/ Fault \/ CalibrationTick
    BY <2>1, FramesKeepFlash
  <2>2. CASE RunTask
    BY <2>2 DEF RunTask, TaskSucceeds, TaskFails, TuningFails
  <2>3. CASE PowerLoss
    BY <2>3, PowerLossWrites DEF Boot
  <2>4. CASE ImageSwapped
    BY <2>4 DEF ImageSwapped, Boot
  <2> QED BY <2>1, <2>2, <2>3, <2>4 DEF Next, Frames
<1>2. /\ s.task = "persist_config" /\ ~Pending
      /\ motor.epoch = Unmeasured /\ gains = NoEstimate /\ hall = NoEstimate
  BY <1>1 DEF AllCleared
<1>3. UNCHANGED <<motor, gains, hall>> /\ spawned' = spawned \ {s}
  BY <1>1, <1>2, TaskNames DEF TaskSucceeds, Applied
<1>4. \A t \in spawned' : t.task \notin CalibrationTasks
  BY <1>2, <1>3 DEF Pending, Queued
<1>5. CarrySession' /\ InTurn' /\ Cleared' /\ Untuned'
  BY <1>2, <1>3, <1>4 DEF CarrySession, InTurn, Cleared, Untuned
<1>6. (\A m \in Motors' : m.epoch = Unmeasured) /\ (\A v \in Measurements' : v = NoEstimate)
  BY <1>1, <1>2, ClearedAfter
<1> QED BY <1>1, <1>2, <1>5, <1>6 DEF Ordered, OfSession, AllFit

\* The invariant proved: everything the theorems below follow from.
OneSession == TypeOK /\ (~overtaken => Ordered /\ OfSession /\ AllFit)

LEMMA OneSessionAlways == Spec => []OneSession
<1>1. Init => OneSession
  BY InitTyped, OrderedInit, ValuesInit DEF OneSession
<1>2. OneSession /\ [Next]_vars => OneSession'
  <2> SUFFICES ASSUME OneSession, [Next]_vars, ~overtaken'
               PROVE  Ordered' /\ OfSession' /\ AllFit'
    BY NextTyped DEF OneSession
  <2>1. CASE ~overtaken
    BY <2>1, OrderedNext, OfSessionNext, AllFitNext DEF OneSession, Ordered
  <2>2. CASE overtaken
    BY <2>2, ClearedAgain DEF OneSession, vars
  <2> QED BY <2>1, <2>2
<1> QED BY <1>1, <1>2, PTL DEF Spec

(***************************************************************************)
(* A complete set of motor parameters in RAM comes with gains and a hall   *)
(* table of the same measurement or with none, whatever was invalidated,   *)
(* half cleared, half stored, reloaded or hidden by a newer layout before  *)
(* and whatever task of a cancelled calibration is still queued, unless a  *)
(* frame dropped the values over such a task (can_rx.rs: can_process       *)
(* drains its frames first) and they were not all cleared since.           *)
(***************************************************************************)
THEOREM AlwaysRunsOneMotor == Spec => []RunsOneMotor
<1>1. OneSession => RunsOneMotor
  BY DEF OneSession, AllFit, Motors, Measurements, RunsOneMotor, OneMotor
<1> QED BY <1>1, OneSessionAlways, PTL

(***************************************************************************)
(* The same of the pages, with the same exception: whenever power is lost, *)
(* whichever of the firmwares boots next loads one motor's values.         *)
(***************************************************************************)
THEOREM AlwaysLoadsOneMotor == Spec => []LoadsOneMotor
<1>1. OneSession => LoadsOneMotor
  <2> SUFFICES ASSUME OneSession, ~overtaken, NEW fw \in Firmwares
               PROVE  OneMotor(LoadPage(flash, fw, "params"), LoadPage(flash, fw, "gains"),
                               LoadPage(flash, fw, "hall"))
    BY DEF LoadsOneMotor
  <2>1. \A p \in Pages : flash[p] \in Page(Values(p))
    BY TypedFlash DEF OneSession
  <2>2. {"params", "gains", "hall"} \subseteq Pages \ {"config"} /\ NoEstimate.epoch = Unmeasured
    BY DEF Pages, NoEstimate
  <2>3. \A p \in Pages \ {"config"} : LoadPage(flash, fw, p) \in Held(p) \cup {NoEstimate}
    BY <2>1, LoadHeld DEF Held, Nothing
  <2>4. /\ LoadPage(flash, fw, "params") \in Motors \cup {NoEstimate}
        /\ LoadPage(flash, fw, "gains") \in Measurements \cup {NoEstimate}
        /\ HasHall => LoadPage(flash, fw, "hall") \in Measurements \cup {NoEstimate}
    BY <2>2, <2>3 DEF Motors, Measurements
  <2> QED BY <2>2, <2>4 DEF OneSession, AllFit, OneMotor
<1> QED BY <1>1, OneSessionAlways, PTL

-----------------------------------------------------------------------------
\* What is in RAM is what a boot of the running firmware would load.
Saved ==
  /\ config = LoadPage(flash, firmware, "config")
  /\ motor = LoadPage(flash, firmware, "params")
  /\ gains = LoadPage(flash, firmware, "gains")
  /\ HasHall => hall = LoadPage(flash, firmware, "hall")

\* A page that was stored loads as what was written, the others as before.
LEMMA StoredLoads ==
  ASSUME TypeOK, NEW s \in spawned, WriteAll(Writes(s), {}), firmware' = firmware, NEW p \in Pages
  PROVE  LoadPage(flash, firmware, p)' = IF p \in DOMAIN Writes(s) THEN Writes(s)[p] ELSE LoadPage(flash, firmware, p)
<1>1. CASE p \notin DOMAIN Writes(s)
  <2>1. flash'[p] = flash[p]
    BY <1>1, TaskWrites
  <2> QED BY <1>1, <2>1 DEF LoadPage
<1>2. CASE p \in DOMAIN Writes(s)
  <2>1. Writes(s)[p] \in Values(p)
    BY <1>2, WritesTyped
  <2>2. flash[p] \in Page(Values(p)) /\ Version[firmware][p] \in Nat \ {NoVersion}
    BY TypedFlash, VersionTyped DEF TypeOK
  <2>3. flash'[p] = Stored(flash[p], Record(Version[firmware][p], Writes(s)[p]))
    BY <1>2, TaskWrites DEF RecordOf
  <2>4. Loaded(flash'[p], Version[firmware][p], Nothing(p)) = Writes(s)[p]
    BY <2>1, <2>2, <2>3, StoredIsLatest
  <2> QED BY <1>2, <2>4 DEF LoadPage
<1> QED BY <1>1, <1>2

LEMMA UnsavedFrames ==
  ASSUME UnsavedHasTask, Frames PROVE UnsavedHasTask'
<1>1. UNCHANGED <<flash, firmware, refused>> /\ (overtaken => overtaken')
  BY FramesKeepFlash
<1>2. CASE UNCHANGED <<spawned, config, motor, gains, hall>>
  BY <1>1, <1>2 DEF UnsavedHasTask, Queued, LoadPage
<1>3. CASE spawned' = Spawn("persist_config", NoEstimate)
  BY <1>3, PersistQueued DEF UnsavedHasTask
<1> QED BY <1>2, <1>3, FramesEffect

LEMMA UnsavedTick ==
  ASSUME UnsavedHasTask, Fault \/ CalibrationTick PROVE UnsavedHasTask'
<1>1. UNCHANGED <<config, motor, gains, hall, flash, firmware, refused, overtaken>>
  BY DEF Fault, CalibrationTick
<1>2. spawned \subseteq spawned'
  BY DEF Fault, CalibrationTick, Requests, Spawn
<1> QED BY <1>1, <1>2 DEF UnsavedHasTask, Queued, LoadPage

\* After persist_config has stored all pages there is nothing unsaved, whatever was before.
LEMMA PersistSaves ==
  ASSUME TypeOK, NEW s \in spawned, s.task = "persist_config", TaskSucceeds(s)
  PROVE  UnsavedHasTask'
<1>0. {"config", "params", "gains", "hall"} = Pages
  BY DEF Pages
<1>1. firmware' = firmware /\ config' = config
  BY DEF TaskSucceeds
<1>2. WriteAll(Writes(s), {}) /\ UNCHANGED <<motor, gains, hall>>
  BY TaskNames DEF TaskSucceeds, Applied
<1>3. /\ LoadPage(flash, firmware, "config")' = config /\ LoadPage(flash, firmware, "params")' = motor
      /\ LoadPage(flash, firmware, "gains")' = gains
      /\ HasHall => LoadPage(flash, firmware, "hall")' = hall
  BY <1>0, <1>1, <1>2, StoredLoads, WritesDomain
<1> QED BY <1>1, <1>2, <1>3 DEF UnsavedHasTask

LEMMA UnsavedTask ==
  ASSUME TypeOK, Ordered, UnsavedHasTask, ~overtaken,
         NEW s \in spawned, TaskSucceeds(s) \/ TaskFails(s) \/ TuningFails(s)
  PROVE  UnsavedHasTask'
<1>0. {"config", "params", "gains", "hall"} = Pages
  BY DEF Pages
<1>1. spawned' = spawned \ {s} /\ firmware' = firmware /\ config' = config
  BY DEF TaskSucceeds, TaskFails, TuningFails
<1>2. Queued("persist_config") /\ s.task # "persist_config" => Queued("persist_config")'
  BY <1>1 DEF Queued
<1>3. CASE TaskFails(s)
  BY <1>3 DEF TaskFails, UnsavedHasTask
<1>4. CASE TuningFails(s)
  <2>1. s.task = "tune_pi" /\ Queued("tune_pi") /\ UNCHANGED <<config, motor, hall, flash, firmware, refused>>
        /\ gains' = NoEstimate
    BY <1>4 DEF TuningFails, Queued
  <2>2. gains = NoEstimate
    BY <2>1 DEF Ordered, Untuned
  <2> QED BY <1>2, <2>1, <2>2 DEF UnsavedHasTask, LoadPage
<1>5. CASE TaskSucceeds(s) /\ s.task = "persist_config"
  BY <1>5, PersistSaves
<1>6. CASE TaskSucceeds(s) /\ s.task # "persist_config"
  <2>1. WriteAll(Writes(s), {}) /\ Applied(s) /\ refused' = refused
    BY <1>6, SpawnedTyped DEF TaskSucceeds, TypeOK
  <2>2. CASE Queued("persist_config")
    BY <1>2, <1>6, <2>2 DEF UnsavedHasTask
  <2>3. CASE Saved
    <3>1. s.task \in CalibrationTasks
      BY <1>6, SpawnedTyped, TaskNames
    <3>2. \A p \in Pages : LoadPage(flash, firmware, p)' =
                             IF p \in DOMAIN Writes(s) THEN Writes(s)[p] ELSE LoadPage(flash, firmware, p)
      BY <1>1, <2>1, StoredLoads
    <3>3. /\ s.task = "store_hall_table" => DOMAIN Writes(s) = {"hall"} /\ Writes(s)["hall"] = s.estimate
          /\ s.task = "tune_pi" => DOMAIN Writes(s) = {"gains"} /\ Writes(s)["gains"] = s.estimate
          /\ s.task = "store_motor_params" => DOMAIN Writes(s) = {"params"} /\ Writes(s)["params"] = s.estimate
      BY WritesDomain
    <3>4. Saved'
      <4>1. CASE s.task = "store_hall_table"
        BY <1>0, <1>1, <2>1, <2>3, <3>2, <3>3, <4>1 DEF Saved, Applied
      <4>2. CASE s.task = "tune_pi"
        BY <1>0, <1>1, <2>1, <2>3, <3>2, <3>3, <4>2 DEF Saved, Applied
      <4>3. CASE s.task = "store_motor_params"
        BY <1>0, <1>1, <2>1, <2>3, <3>2, <3>3, <4>3 DEF Saved, Applied
      <4> QED BY <3>1, <4>1, <4>2, <4>3, TaskNames
    <3> QED BY <3>4 DEF Saved, UnsavedHasTask
  <2> QED BY <2>1, <2>2, <2>3 DEF UnsavedHasTask, Saved
<1> QED BY <1>3, <1>4, <1>5, <1>6

LEMMA UnsavedBoot ==
  ASSUME NEW fl, NEW fw, Boot(fl, fw) PROVE UnsavedHasTask'
<1>1. /\ flash' = fl /\ firmware' = fw /\ config' = LoadPage(fl, fw, "config")
      /\ motor' = LoadPage(fl, fw, "params") /\ gains' = LoadPage(fl, fw, "gains")
      /\ HasHall => hall' = LoadPage(fl, fw, "hall")
  BY DEF Boot
<1> QED BY <1>1 DEF UnsavedHasTask, LoadPage

LEMMA UnsavedInit == Init => UnsavedHasTask
<1> SUFFICES ASSUME Init PROVE UnsavedHasTask
  OBVIOUS
<1>1. \A p \in Pages : flash[p] = <<>>
  BY DEF Init
<1>2. \A v, d : Loaded(<<>>, v, d) = d
  BY EmptyLatest DEF Loaded
<1>3. \A p \in Pages : LoadPage(flash, firmware, p) = Nothing(p)
  BY <1>1, <1>2 DEF LoadPage
<1>4. /\ LoadPage(flash, firmware, "config") = Default /\ LoadPage(flash, firmware, "params") = NoEstimate
      /\ LoadPage(flash, firmware, "gains") = NoEstimate /\ LoadPage(flash, firmware, "hall") = NoEstimate
  BY <1>3 DEF Nothing, Pages
<1> QED BY <1>4 DEF Init, UnsavedHasTask

(***************************************************************************)
(* Nothing that differs from flash is forgotten: unless a store was        *)
(* refused, a persist_config is queued or sleeping that will see it        *)
(* (can_rx.rs: a second spawn is lost), also in any backlog of frames in   *)
(* which none drops the values over a queued task of a calibration.        *)
(***************************************************************************)
THEOREM NothingForgotten == Spec => []UnsavedHasTask
<1>1. Init => UnsavedHasTask
  BY UnsavedInit
<1>2. OneSession /\ UnsavedHasTask /\ [Next]_vars => UnsavedHasTask'
  <2> SUFFICES ASSUME OneSession, UnsavedHasTask, [Next]_vars, ~overtaken' PROVE UnsavedHasTask'
    BY DEF UnsavedHasTask
  <2>1. CASE overtaken
    BY <2>1, ClearedAgain, PersistSaves DEF OneSession, vars
  <2>2. CASE ~overtaken
    <3>1. TypeOK /\ Ordered
      BY <2>2 DEF OneSession
    <3>2. CASE RunTask
      BY <2>2, <3>1, <3>2, UnsavedTask DEF RunTask
    <3>3. CASE PowerLoss
      BY <3>3, PowerLossWrites, UnsavedBoot
    <3>4. CASE ImageSwapped
      BY <3>4, UnsavedBoot DEF ImageSwapped
    <3>5. CASE UNCHANGED vars
      BY <3>5 DEF vars, UnsavedHasTask, Queued, LoadPage
    <3> QED BY <3>2, <3>3, <3>4, <3>5, UnsavedFrames, UnsavedTick DEF Next, Frames
  <2> QED BY <2>1, <2>2
<1> QED BY <1>1, <1>2, OneSessionAlways, PTL DEF Spec
=============================================================================
