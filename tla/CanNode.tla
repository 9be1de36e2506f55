------------------------------- MODULE CanNode --------------------------------
(***************************************************************************)
(* The CAN side of the firmware: the receive interrupt and its buffer, the *)
(* task that handles the frames, the telemetry task, and the host behind a *)
(* bus that loses, repeats and corrupts frames.                            *)
(*                                                                         *)
(* The tasks of priority 1 run one at a time and yield only where they     *)
(* await, which can_process never does; the CAN interrupt and the control  *)
(* interrupt run between any two of their critical sections.               *)
(*                                                                         *)
(* The operating mode is OperatingMode's, without calibrations (Drive and  *)
(* Parameters have those) and at an ordinary bus voltage.                  *)
(***************************************************************************)
EXTENDS OperatingMode, FirmwareConfig, SetpointIntegrity, FirmwareUpdate, DebugCapture, FiniteSets

CONSTANTS
  NoFrame,       \* no frame on the wire, none being handled
  Hosts,         \* the hosts considered, each the set of messages and mode requests it sends
  ConfigFrames,  \* the configuration messages a host sends
  RxSize, TxSize,  \* CAN_RX_BUF_SIZE, CAN_TX_BUF_SIZE
  Periodic,      \* the periodic messages that matter to each host
  Backlog,       \* bound: the frames still queued when a periodic message is due
  Window,        \* how many chunks a host sends ahead of its acknowledgements
  InterruptCauses, \* the faults the control interrupt reports
  MaxMishaps,    \* bound for each host: lost and repeated frames, failed writes, faults, changes of mind
  MaxSetpoints, MaxCaptures  \* bounds on what a host sends

Requests == {"TorqueControl", "Idle", "FaultClear"}
Sendable == ConfigIds \cup Requests
              \cup {"Setpoint", "ConfigQuery", "FirmwareUpdateData", "FirmwareUpdateApply", "CaptureControl"}

ASSUME CanNodeAssumption ==
  /\ Hosts \subseteq SUBSET Sendable
  /\ ConfigFrames \subseteq ConfigFrameType
  /\ NoFrame \notin ConfigFrames
  /\ MaxMishaps \in [Hosts -> Nat]
  /\ {RxSize, TxSize, Window} \subseteq Nat \ {0}
  /\ Periodic \in [Hosts -> SUBSET {"MotorCurrents", "RotorEstimates", "EncoderReading", "Fault",
                                     "CaptureDump", "Heartbeat"}]

VARIABLES
  sends,      \* the messages and mode requests this host sends
  host,       \* the host's update: image, next chunk, acknowledged chunk
  counts,     \* what has happened so far, by kind (bounds only)
  wire,       \* the frame on the bus
  rx, tx,     \* the buffers of the CAN driver
  spawned,    \* can_process is spawned or running
  running,    \* the priority 1 task that runs: none, can_process, leaving or can_tx_task
  handling,   \* the frame that can_process has taken and may handle
  interrupted, \* the control interrupt has raised a fault since that frame was taken (history)
  mode,       \* OperatingMode
  config, tuning,  \* FirmwareConfig and the values its users were given
  persist,    \* persist_config is spawned
  integrity,  \* the last rolling counter and the level of the fault bucket
  target,     \* the number of the setpoint in force, 0 when torque was requested anew
  newest,     \* the number of the newest setpoint that was accepted (history)
  burst,      \* the good setpoints since the last bad one, and whether that one tripped (history)
  update,     \* FirmwareUpdateState
  flash,      \* the DFU area
  status,     \* the image marked as written, or none
  capture,    \* DebugCapture
  test,       \* the bandwidth test
  dump        \* the dump: the cursor being sent, the captures seen, and whether one was preempted (history)

hostVars == <<sends, host, wire>>
busVars == <<wire, rx, spawned>>
taskVars == <<running, handling, interrupted>>
configVars == <<config, tuning, persist>>
setpointVars == <<integrity, target, newest, burst>>
updateVars == <<update, flash, status>>
captureVars == <<capture, test, dump>>
vars == <<sends, host, counts, wire, rx, tx, spawned, running, handling, interrupted, mode, config,
          tuning, persist, integrity, target, newest, burst, update, flash, status, capture, test, dump>>

NoImage == "none"
NewHost(image) == [image |-> image, next |-> 0, acked |-> 0]
NoDump == [frame |-> DumpFrames, seen |-> {}, preempted |-> FALSE]
QuietLong == 3

Init ==
  /\ sends \in Hosts
  /\ \E i \in Images : host = NewHost(i)
  /\ counts = [k \in {"mishaps", "setpoints", "captures"} |-> 0]
  /\ wire = NoFrame /\ rx = <<>> /\ tx = <<>>
  /\ spawned = FALSE /\ running = "none" /\ handling = NoFrame /\ interrupted = FALSE
  /\ mode = Idle(sto)
  /\ config = Default /\ tuning = Tuning(Default) /\ persist = FALSE
  /\ integrity = [last |-> NoCounter, level |-> 0]
  /\ target = 0 /\ newest = 0
  /\ burst = [quiet |-> QuietLong, tripped |-> FALSE]
  /\ update = NoTransfer
  /\ flash = [k \in 0 .. FirmwareBytes - 1 |-> Erased]
  /\ status = NoImage
  /\ capture = NoCapture /\ test = NoTest /\ dump = NoDump

Counted(kind) == counts' = [counts EXCEPT ![kind] = @ + 1]

\* CanBus::send: the frames that fit, the rest is dropped without notice
Queued(frames) == SubSeq(tx \o frames, 1, Lesser(Len(tx) + Len(frames), TxSize))

\* The model ends where the processor resets.
Up == running # "reset"

\* on_command and the control interrupt reach the mode through its lock.
Asserts(cause) == mode' = AssertFault(mode, cause)

-----------------------------------------------------------------------------
\* The bus and the interrupt.

\* can_isr: the received frame joins the buffer, and the task is spawned unless it still runs.
CanInterrupt(frame) ==
  /\ rx' = IF Len(rx) < RxSize THEN Append(rx, frame) ELSE rx
  /\ spawned' = TRUE

\* A frame arrives; the bus may have lost it, may repeat it, or may have corrupted a setpoint.
FrameArrives ==
  /\ Up /\ wire # NoFrame
  /\ CanInterrupt(wire)
  /\ wire' = NoFrame
  /\ UNCHANGED <<sends, host, counts, tx, taskVars, mode, configVars, setpointVars, updateVars, captureVars>>

\* The messages with a counter, whose loss the receiver can tell from a host that is silent
Sequenced == {"Setpoint", "FirmwareUpdateData", "FirmwareUpdateApply"}
Mishap == Up /\ wire # NoFrame /\ wire.id \in Sequenced /\ counts.mishaps < MaxMishaps[sends]

FrameIsLost ==
  /\ Mishap
  /\ wire' = NoFrame
  /\ Counted("mishaps")
  /\ UNCHANGED <<sends, host, rx, tx, spawned, taskVars, mode, configVars, setpointVars, updateVars, captureVars>>

FrameIsRepeated ==
  /\ Mishap
  /\ CanInterrupt(wire)
  /\ Counted("mishaps")
  /\ UNCHANGED <<sends, host, wire, tx, taskVars, mode, configVars, setpointVars, updateVars, captureVars>>

SetpointIsCorrupted ==
  /\ Mishap /\ wire.id = "Setpoint"
  /\ CanInterrupt([id |-> "Setpoint", number |-> wire.number, intact |-> FALSE])
  /\ wire' = NoFrame
  /\ Counted("mishaps")
  /\ UNCHANGED <<sends, host, tx, taskVars, mode, configVars, setpointVars, updateVars, captureVars>>

\* The frame sent next leaves the transmit buffer, which is the same interrupt.  An update's
\* host believes an acknowledgement of what it has sent; it cannot tell whose chunks those were.
FrameIsSent ==
  /\ Up /\ tx # <<>>
  /\ tx' = Tail(tx)
  /\ spawned' = TRUE
  /\ host' = IF Head(tx).id = "FirmwareUpdateAck" /\ Head(tx).next <= host.next
             THEN [host EXCEPT !.acked = Head(tx).next]
             ELSE host
  /\ UNCHANGED <<sends, counts, wire, rx, taskVars, mode, configVars, setpointVars, updateVars, captureVars>>

-----------------------------------------------------------------------------
\* Telemetry and the control interrupt.

\* The frame of a message that is due; a fault has one only while there is a fault.
HasFrame(kind) == kind = "Fault" => mode.tag = "Fault"

(***************************************************************************)
(* can_tx_task, up to the moment next_dump_frame has read its words.  Some *)
(* messages are due; a cycle is longer than the bus takes for a backlog.   *)
(***************************************************************************)
Telemetry ==
  /\ running = "none" /\ Len(tx) <= Backlog
  /\ \E now \in SUBSET Periodic[sends] \ {{}} :
       LET dumps == "CaptureDump" \in now /\ Dumping(capture)
       IN  /\ tx' = Queued(SetToSeq({[id |-> k] : k \in {n \in now \ {"CaptureDump"} : HasFrame(n)}}))
           /\ running' = IF dumps THEN "can_tx_task" ELSE "none"
           /\ dump' = IF dumps
                      THEN [dump EXCEPT !.frame = capture.cursor,
                                        !.seen = (IF capture.cursor = 0 THEN {} ELSE @) \cup Words(capture)]
                      ELSE dump
  /\ UNCHANGED <<hostVars, counts, rx, spawned, handling, interrupted, mode, configVars, setpointVars, updateVars, capture, test>>

\* next_dump_frame stores the cursor it computed from the one it had read.
DumpFrameIsQueued ==
  /\ running = "can_tx_task"
  /\ capture' = [capture EXCEPT !.cursor = dump.frame + 1]
  /\ tx' = Queued(<<[id |-> "CaptureDump"]>>)
  /\ running' = "none"
  /\ dump' = [dump EXCEPT !.frame = DumpFrames]
  /\ UNCHANGED <<hostVars, counts, rx, spawned, handling, interrupted, mode, configVars, setpointVars, updateVars, test>>

\* The mode after a control tick: a strategy evolves, a polarity test ends.
ModeTicks(m, polarity_known) ==
  CASE m.tag \in {"Idle", "Fault"} ->
         [m EXCEPT !.strategy = StrategyTick(@, "ordinary", "below", TRUE)]
    [] m.tag = "SaliencyPolarityTest" /\ polarity_known -> EnableTorqueControl(m)
    [] OTHER -> m

(***************************************************************************)
(* Nothing but zero voltage or a static state leaves the inverter, unless  *)
(* the gate is active or a safe strategy ramps down.  A fault's ramp-down  *)
(* does so although its gate is inactive (modes.rs: foc_gate;              *)
(* safe_strategy.rs: foc_tick).                                            *)
(***************************************************************************)
Modulates(m) == GateActive(m) \/ m.strategy.kind = "RampDown"

\* The control interrupt with debug-capture and bandwidth-test: it records what it modulates.
Control(live, polarity_known, causes) ==
  LET starts == live /\ AlignEnds(test)
      begun == IF starts THEN StartCapture(capture) ELSE capture
      stepped == TestStep(test, live)
      m == IF causes = {} THEN mode ELSE AssertFault(mode, CHOOSE c \in causes : TRUE)
      ticked == ModeTicks(m, polarity_known)
      modulates == Modulates(ticked)
      full == modulates /\ Fills(begun)
      number == IF starts THEN counts.captures + 1 ELSE counts.captures
  IN  /\ Up /\ Cardinality(causes) + counts.mishaps <= MaxMishaps[sends]
      /\ counts' = [counts EXCEPT !.mishaps = @ + Cardinality(causes), !.captures = number]
      /\ capture' = IF modulates THEN Record(begun, number) ELSE begun
      /\ test' = IF full THEN Finish(stepped) ELSE stepped
      /\ mode' = IF full /\ stepped.state = "RUNNING" THEN RequestIdle(ticked) ELSE ticked
      /\ dump' = IF starts
                 THEN [dump EXCEPT !.seen = {}, !.preempted = running = "can_tx_task"]
                 ELSE dump
      /\ interrupted' = (handling # NoFrame /\ (interrupted \/ causes # {}))
      /\ UNCHANGED <<hostVars, rx, tx, spawned, running, handling, configVars, setpointVars, updateVars>>

\* Only a test that is under way asks for a live setpoint, only a polarity test for the polarity.
ControlTick ==
  \E live \in {l \in BOOLEAN : l => test.state # "IDLE"},
     polarity_known \in {k \in BOOLEAN : k => mode.tag = "SaliencyPolarityTest"},
     causes \in {{}} \cup {{c} : c \in InterruptCauses} :
    Control(live, polarity_known, causes)

-----------------------------------------------------------------------------
\* The receive task, from its spawn to its end.

Runs ==
  /\ running = "none" /\ spawned
  /\ running' = "can_process"
  /\ UNCHANGED <<hostVars, counts, rx, tx, spawned, handling, interrupted, mode, configVars, setpointVars, updateVars, captureVars>>

IdleOnly(frame) ==
  frame.id \in {"MotorConfig", "CalibrationTargets", "FirmwareUpdateData", "FirmwareUpdateApply"}

\* Mutants of Admitted: the check is missing; it forgets that an idle mode may still modulate.
AdmittedAlways(frame) == TRUE
AdmittedModulating(frame) == IdleOnly(frame) => mode.tag = "Idle"

\* The idle-only check, which holds the mode no longer than itself
Admitted(frame) == IdleOnly(frame) => mode.tag = "Idle" /\ ~GateActive(mode)

Takes ==
  /\ running = "can_process" /\ handling = NoFrame /\ rx # <<>>
  /\ rx' = Tail(rx)
  /\ handling' = IF Admitted(Head(rx)) THEN Head(rx) ELSE NoFrame
  /\ interrupted' = FALSE
  /\ UNCHANGED <<hostVars, counts, tx, spawned, running, mode, configVars, setpointVars, updateVars, captureVars>>

\* No frame is left; a frame that arrives now finds the task still spawned and waits.
FindsNone ==
  /\ running = "can_process" /\ handling = NoFrame /\ rx = <<>>
  /\ running' = "leaving"
  /\ UNCHANGED <<hostVars, counts, rx, tx, spawned, handling, interrupted, mode, configVars, setpointVars, updateVars, captureVars>>

Ends ==
  /\ running = "leaving"
  /\ running' = "none" /\ spawned' = FALSE
  /\ UNCHANGED <<hostVars, counts, rx, tx, handling, interrupted, mode, configVars, setpointVars, updateVars, captureVars>>

\* A handler handles the frame that was taken.
Handles(ids) ==
  /\ running = "can_process" /\ handling # NoFrame /\ handling.id \in ids
  /\ handling' = NoFrame /\ interrupted' = FALSE
  /\ UNCHANGED <<hostVars, rx, spawned>>

HandleModeRequest ==
  /\ Handles({"OperatingModeRequest"}) /\ UNCHANGED running
  /\ LET m == handling.requested
     IN  /\ mode' = CASE m = "TorqueControl" -> RequestTorqueControl(mode)
                      [] m = "Idle" -> RequestIdle(mode)
                      [] OTHER -> ClearFault(mode)
         /\ target' = IF m = "TorqueControl" /\ mode.tag \notin {"SaliencyPolarityTest", "TorqueControl"}
                      THEN 0 ELSE target
  /\ UNCHANGED <<counts, tx, configVars, integrity, newest, burst, updateVars, captureVars>>

\* The reference for the fault bucket: a bad setpoint soon after a bad one is a burst.
SoonAfterBad == burst.quiet < QuietLong - 1 \/ (burst.quiet = QuietLong - 1 /\ burst.tripped)

AcceptSetpoint ==
  /\ Handles({"Setpoint"}) /\ UNCHANGED running
  /\ Genuine(integrity.last, handling)
  /\ target' = handling.number
  /\ newest' = handling.number
  /\ integrity' = [last |-> RollingCounter(handling.number), level |-> Drained(integrity.level)]
  /\ burst' = [burst EXCEPT !.quiet = IF @ < QuietLong THEN @ + 1 ELSE @]
  /\ UNCHANGED <<counts, tx, mode, configVars, updateVars, captureVars>>

RejectSetpoint ==
  /\ Handles({"Setpoint"}) /\ UNCHANGED running
  /\ ~Genuine(integrity.last, handling)
  /\ integrity' = [integrity EXCEPT !.level = Filled(@)]
  /\ IF Tripped(integrity'.level) THEN Asserts("CANMessageIntegrity") ELSE UNCHANGED mode
  /\ burst' = [quiet |-> 0, tripped |-> SoonAfterBad]
  /\ UNCHANGED <<counts, tx, configVars, target, newest, updateVars, captureVars>>

\* The seven configuration messages; only accepted ones are stored and retune the estimators.
HandleConfig ==
  /\ Handles(ConfigIds) /\ UNCHANGED running
  /\ IF Accepts(handling)
     THEN /\ config' = Candidate(config, handling)
          /\ tuning' = Retuned(tuning, config', handling)
          /\ persist' = TRUE
     ELSE UNCHANGED configVars
  /\ UNCHANGED <<counts, tx, mode, setpointVars, updateVars, captureVars>>

\* persist_config waits until the gate is inactive; what it stores is Parameters'.
PersistConfig ==
  /\ persist /\ running = "none" /\ ~GateActive(mode)
  /\ persist' = FALSE
  /\ UNCHANGED <<hostVars, counts, rx, tx, spawned, taskVars, mode, config, tuning, setpointVars, updateVars, captureVars>>

Gains == {"CurrentGainsD", "CurrentGainsQ"}
Blocks == Gains \cup {"ProtectionLimits", "MotorConfig", "MotorLimits", "CalibrationTargets", "MotorParameters",
                      "SensorlessConfig1", "SensorlessConfig2", "FirmwareVersion"}

\* The reports that answer a query: two of the blocks have two, gains may be unknown.
Answer(block, has_gains) ==
  LET known == (IF block = "All" THEN Blocks ELSE {block}) \ (IF has_gains THEN {} ELSE Gains)
      doubled == known \cap {"ProtectionLimits", "MotorParameters"}
  IN  [i \in 1 .. Cardinality(known) + Cardinality(doubled) |-> [id |-> "Report"]]

HandleQuery ==
  /\ Handles({"ConfigQuery"}) /\ UNCHANGED running
  /\ \E has_gains \in BOOLEAN : tx' = Queued(Answer(handling.block, has_gains))
  /\ UNCHANGED <<counts, mode, configVars, setpointVars, updateVars, captureVars>>

-----------------------------------------------------------------------------
\* Firmware update.

\* dfu_write erases what it reaches first and programs the rest; it may fail on its own.
AfterErase(start, data) == EraseReached(flash, start, start + Len(data))
Writable(start, data) ==
  start + Len(data) <= FirmwareBytes /\ Programmable(AfterErase(start, data), start, data)
Written(start, data) == Programmed(AfterErase(start, data), start, data)
WriteFails(start, data) ==
  /\ data # <<>>
  /\ \/ ~Writable(start, data) /\ flash' = AfterErase(start, data) /\ UNCHANGED counts
     \/ /\ counts.mishaps < MaxMishaps[sends] /\ Counted("mishaps")
        /\ flash' \in TornWrites(flash, start, data)
  /\ Asserts("MemoryFlashFault")

Ack(next) == tx' = Queued(<<[id |-> "FirmwareUpdateAck", next |-> next]>>)

\* A chunk out of sequence is dropped and the expected one told.
ChunkOutOfSequence ==
  /\ Handles({"FirmwareUpdateData"}) /\ UNCHANGED running
  /\ ~InSequence(update, handling.counter)
  /\ Ack(update.next)
  /\ UNCHANGED <<counts, mode, configVars, setpointVars, updateVars, captureVars>>

\* The transfer that a chunk continues, or restarts with counter 0
Continued == IF handling.counter = 0 THEN Started ELSE update
WithChunk == Staged(Continued, handling.counter, Chunk(handling.image, handling.counter))

ChunkTooMuch ==
  /\ Handles({"FirmwareUpdateData"}) /\ UNCHANGED running
  /\ InSequence(update, handling.counter) /\ TooLarge(Continued)
  /\ update' = NoTransfer
  /\ Asserts("FirmwareUpdateTooLarge")
  /\ UNCHANGED <<counts, tx, configVars, setpointVars, flash, status, captureVars>>

ChunkStaged ==
  /\ Handles({"FirmwareUpdateData"}) /\ UNCHANGED running
  /\ InSequence(update, handling.counter) /\ ~TooLarge(Continued) /\ ~StageFull(WithChunk)
  /\ update' = WithChunk
  /\ UNCHANGED <<counts, tx, mode, configVars, setpointVars, flash, status, captureVars>>

FullStage ==
  /\ Handles({"FirmwareUpdateData"}) /\ UNCHANGED running
  /\ InSequence(update, handling.counter) /\ ~TooLarge(Continued) /\ StageFull(WithChunk)
  /\ UNCHANGED <<configVars, setpointVars, status, captureVars>>

\* A full stage is written; only then it is acknowledged.
StageWritten ==
  /\ FullStage
  /\ Writable(Continued.offset, WithChunk.staged)
  /\ flash' = Written(Continued.offset, WithChunk.staged)
  /\ update' = StageTaken(WithChunk)
  /\ Ack(update'.next)
  /\ UNCHANGED <<counts, mode>>

StageFails ==
  /\ FullStage
  /\ WriteFails(Continued.offset, WithChunk.staged)
  /\ update' = NoTransfer
  /\ UNCHANGED tx

\* A mutant of Verified: the length alone decides.
VerifiedByLength(image, after) == TRUE

\* dfu_crc32 against the checksum the host sent
Verified(image, after) == Holds(after, image)

\* FirmwareUpdateApply ends the transfer in any case: flush, verify, mark.
Rest == IF update.staged = <<>> THEN <<>> ELSE Flush(update, Length[handling.image])
Applies ==
  /\ Handles({"FirmwareUpdateApply"})
  /\ update' = NoTransfer
  /\ UNCHANGED <<tx, configVars, setpointVars, captureVars>>
Flushes ==
  /\ Complete(update, Length[handling.image])
  /\ Writable(update.offset, Rest)
  /\ flash' = Written(update.offset, Rest)

ApplyIncomplete ==
  /\ Applies /\ ~Complete(update, Length[handling.image])
  /\ Asserts("FirmwareUpdateLengthMismatch")
  /\ UNCHANGED <<counts, running, flash, status>>

FlushFails ==
  /\ Applies /\ Complete(update, Length[handling.image])
  /\ WriteFails(update.offset, Rest)
  /\ UNCHANGED <<running, status>>

ApplyMismatched ==
  /\ Applies /\ Flushes /\ ~Verified(handling.image, flash')
  /\ Asserts("FirmwareUpdateCrcMismatch")
  /\ UNCHANGED <<counts, running, status>>

\* The bootloader status cannot be written.
MarkFails ==
  /\ Applies /\ Flushes /\ Verified(handling.image, flash')
  /\ counts.mishaps < MaxMishaps[sends] /\ Counted("mishaps")
  /\ Asserts("MemoryFlashFault")
  /\ UNCHANGED <<running, status>>

\* The image is marked and the processor resets; Bootloader goes on from there.
ApplyUpdate ==
  /\ Applies /\ Flushes /\ Verified(handling.image, flash')
  /\ status' = handling.image
  /\ running' = "reset"
  /\ UNCHANGED <<counts, mode>>

-----------------------------------------------------------------------------
\* CaptureControl.

HandleCapture ==
  /\ Handles({"CaptureControl"}) /\ UNCHANGED running
  /\ LET command == handling.command
     IN  /\ counts' = IF command = "Start" THEN [counts EXCEPT !.captures = @ + 1] ELSE counts
         /\ capture' = CASE command = "Start" -> StartCapture(capture)
                         [] command = "RequestDump" -> RequestDump(capture)
                         [] OTHER -> capture
         /\ test' = IF command = "StartBandwidthTest" THEN Arm(test) ELSE test
         /\ dump' = IF capture' # capture THEN NoDump ELSE dump
  /\ UNCHANGED <<tx, mode, configVars, setpointVars, updateVars>>

-----------------------------------------------------------------------------
\* The host.

Puts(frame) ==
  /\ Up /\ wire = NoFrame
  /\ wire' = frame
  /\ UNCHANGED <<sends, rx, tx, spawned, taskVars, mode, configVars, setpointVars, updateVars, captureVars>>

\* Nothing of the host's is on its way any more, and no answer to it.
Quiet ==
  /\ Up /\ wire = NoFrame /\ rx = <<>> /\ handling = NoFrame
  /\ \A i \in DOMAIN tx : tx[i].id # "FirmwareUpdateAck"

(***************************************************************************)
(* Frames are handled in their order and one by one, so that a host which  *)
(* waits for the one before loses no behaviour of the firmware: except of  *)
(* chunks, which cross their acknowledgements.                             *)
(***************************************************************************)
HostRequests ==
  /\ Quiet
  /\ \E m \in Requests \cap sends :
       Puts([id |-> "OperatingModeRequest", requested |-> m])
  /\ UNCHANGED <<host, counts>>

HostConfigures ==
  /\ Quiet
  /\ \E f \in ConfigFrames : f.id \in sends /\ Puts(f)
  /\ UNCHANGED <<host, counts>>

HostDemandsTorque ==
  /\ "Setpoint" \in sends /\ Quiet /\ counts.setpoints < MaxSetpoints
  /\ Puts([id |-> "Setpoint", number |-> counts.setpoints + 1, intact |-> TRUE])
  /\ Counted("setpoints") /\ UNCHANGED host

HostQueries ==
  /\ "ConfigQuery" \in sends /\ Quiet
  /\ \E b \in {"All"} \cup Blocks : Puts([id |-> "ConfigQuery", block |-> b])
  /\ UNCHANGED <<host, counts>>

HostCaptures ==
  /\ "CaptureControl" \in sends /\ Quiet
  /\ \E c \in {"Start", "RequestDump", "StartBandwidthTest"} :
       /\ c # "RequestDump" => counts.captures < MaxCaptures
       /\ Puts([id |-> "CaptureControl", command |-> c])
  /\ UNCHANGED <<host, counts>>

Updates == "FirmwareUpdateData" \in sends
Chunks == ChunksOf(host.image)
StageChunks == StageBytes \div ChunkBytes
WholeStages == (Chunks \div StageChunks) * StageChunks

HostSendsChunk ==
  /\ Updates /\ host.next < Chunks /\ host.next < host.acked + Window
  /\ Puts([id |-> "FirmwareUpdateData", counter |-> host.next, image |-> host.image])
  /\ host' = [host EXCEPT !.next = @ + 1]
  /\ UNCHANGED counts

\* What was not acknowledged is sent again.
HostTimesOut ==
  /\ Updates /\ Quiet /\ mode.tag # "Fault"
  /\ host.next = Chunks \/ host.next >= host.acked + Window
  /\ host.acked < WholeStages
  /\ host' = [host EXCEPT !.next = host.acked]
  /\ UNCHANGED <<sends, counts, busVars, tx, taskVars, mode, configVars, setpointVars, updateVars, captureVars>>

HostApplies ==
  /\ Updates /\ Quiet /\ mode.tag # "Fault"
  /\ host.next = Chunks /\ host.acked >= WholeStages
  /\ Puts([id |-> "FirmwareUpdateApply", image |-> host.image])
  /\ UNCHANGED <<host, counts>>

\* The Fault message tells the host: it clears the fault and starts over.
HostRecovers ==
  /\ Updates /\ Quiet /\ mode.tag = "Fault"
  /\ Puts([id |-> "OperatingModeRequest", requested |-> "FaultClear"])
  /\ host' = NewHost(host.image)
  /\ UNCHANGED counts

\* The user chooses another image in the middle of a transfer.
HostSwitches ==
  /\ Updates /\ Quiet /\ counts.mishaps < MaxMishaps[sends]
  /\ \E i \in Images \ {host.image} : host' = NewHost(i)
  /\ Counted("mishaps")
  /\ UNCHANGED <<sends, busVars, tx, taskVars, mode, configVars, setpointVars, updateVars, captureVars>>

-----------------------------------------------------------------------------
Bus == FrameArrives \/ FrameIsLost \/ FrameIsRepeated \/ SetpointIsCorrupted \/ FrameIsSent

Handlers ==
  \/ HandleModeRequest \/ AcceptSetpoint \/ RejectSetpoint \/ HandleConfig \/ HandleQuery
  \/ ChunkOutOfSequence \/ ChunkTooMuch \/ ChunkStaged \/ StageWritten \/ StageFails
  \/ ApplyIncomplete \/ FlushFails \/ ApplyMismatched \/ MarkFails \/ ApplyUpdate
  \/ HandleCapture

ReceiveTask == Runs \/ Takes \/ FindsNone \/ Ends \/ Handlers

Host ==
  \/ HostRequests \/ HostConfigures \/ HostDemandsTorque \/ HostQueries \/ HostCaptures
  \/ HostSendsChunk \/ HostTimesOut \/ HostApplies \/ HostRecovers \/ HostSwitches

Rebooting == ~Up /\ UNCHANGED vars

Next ==
  \/ Bus \/ Telemetry \/ DumpFrameIsQueued \/ ControlTick \/ ReceiveTask \/ PersistConfig \/ Host
  \/ Rebooting

Spec == Init /\ [][Next]_vars

(***************************************************************************)
(* While a host updates, frames keep arriving and leaving, the control     *)
(* interrupt and the telemetry keep coming, the executor runs what is      *)
(* spawned, and the host goes on.  Nothing is assumed about other hosts.   *)
(***************************************************************************)
Tasks == ReceiveTask \/ DumpFrameIsQueued
HostUpdates == HostSendsChunk \/ HostTimesOut \/ HostApplies \/ HostRecovers
Fairness ==
  /\ WF_vars(Updates /\ FrameArrives) /\ WF_vars(Updates /\ FrameIsSent)
  /\ WF_vars(Updates /\ ControlTick) /\ WF_vars(Updates /\ Tasks)
  /\ WF_vars(Updates /\ Telemetry) /\ WF_vars(Updates /\ HostUpdates)

FairSpec == Spec /\ Fairness
=============================================================================
