----------------------------- MODULE CanProperties -----------------------------
(***************************************************************************)
(* What the CAN side of the firmware promises.                             *)
(***************************************************************************)
EXTENDS CanNode

\* The frames of a host
UpdateFrame ==
  [id : {"FirmwareUpdateData"}, counter : Nat, image : Images]
    \cup [id : {"FirmwareUpdateApply"}, image : Images]
OtherFrame ==
  [id : {"OperatingModeRequest"}, requested : Requests]
    \cup [id : {"Setpoint"}, number : Nat, intact : BOOLEAN]
    \cup [id : {"ConfigQuery"}, block : {"All"} \cup Blocks]
    \cup [id : {"CaptureControl"}, command : {"Start", "RequestDump", "StartBandwidthTest"}]
Frame == ConfigFrames \cup UpdateFrame \cup OtherFrame

\* The type invariant of the node: what its tasks, buffers and components may hold.
TypeOK ==
  /\ sends \in Hosts
  /\ host \in [image : Images, next : Nat, acked : Nat]
  /\ Len(rx) <= RxSize /\ Len(tx) <= TxSize
  /\ spawned \in BOOLEAN
  /\ running \in {"none", "can_process", "leaving", "can_tx_task", "reset"}
  /\ running \in {"can_process", "leaving"} => spawned
  /\ wire \in Frame \cup {NoFrame} /\ rx \in Seq(Frame) /\ handling \in Frame \cup {NoFrame}
  /\ handling # NoFrame => running = "can_process"
  /\ interrupted \in BOOLEAN /\ (interrupted => handling # NoFrame)
  /\ mode \in [tag : Tags, strategy : Strategies, trace : {mode.trace}, phase : Phases]
  /\ config \in ConfigType
  /\ integrity \in [last : {NoCounter} \cup 0 .. Counters - 1, level : 0 .. Capacity]
  /\ update.next \in 0 .. FirmwareBytes \div ChunkBytes
  /\ Len(update.staged) \in 0 .. StageBytes - 1
  /\ \A k \in DOMAIN flash : flash[k] \in Contents
  /\ status \in Images \cup {NoImage}
  /\ capture.index \in 0 .. CaptureLen - 1 /\ capture.cursor \in 0 .. DumpFrames

(***************************************************************************)
(* Whatever messages arrive in whatever order, the limits in force keep    *)
(* their order: rated below momentary below overcurrent, calibration below *)
(* rated, speed below overspeed, and the two ends of every range.  Each    *)
(* setter sees the other limits as an earlier message left them.           *)
(***************************************************************************)
LimitsOrdered == Ordered(config)

\* What an idle-only message may do: change the motor's limits, the transfer or the DFU area.
IdleOnlyEffect ==
  \/ config'.overcurrent # config.overcurrent \/ config'.overspeed # config.overspeed
  \/ update' # update \/ flash' # flash

(***************************************************************************)
(* An idle-only message takes effect in an idle drive that modulates       *)
(* nothing.  The mode that was checked when the frame was taken is not     *)
(* held until it is handled: a fault of the control interrupt may come in  *)
(* between, with a ramp-down that modulates even.  This is the only thing  *)
(* that may, whatever is requested, ticked or cleared meanwhile: neither   *)
(* torque control nor a fault that was there at the check is met.          *)
(***************************************************************************)
IdleOnlyHonoured ==
  [][ IdleOnlyEffect =>
        \/ mode.tag = "Idle" /\ ~Modulates(mode)
        \/ mode.tag = "Fault" /\ interrupted ]_vars

(***************************************************************************)
(* A setpoint takes effect only when it is intact and newer than all that  *)
(* did before, however frames are lost, repeated or corrupted; an intact   *)
(* new one is refused only when the counter has gone round meanwhile.  The *)
(* drive faults on a bad setpoint exactly when it comes soon after another *)
(* bad one, which no fault that was cleared in between makes it forget.    *)
(***************************************************************************)
SetpointGuarded ==
  [][ handling # NoFrame /\ handling.id = "Setpoint" /\ handling' = NoFrame =>
      LET accepted == newest' # newest
      IN  /\ accepted => handling.intact /\ handling.number > newest
          /\ ~accepted /\ handling.intact /\ newest > 0
               => (handling.number - newest) % Counters = 0
          /\ ~accepted /\ SoonAfterBad => mode'.tag = "Fault"
          /\ mode' # mode => ~accepted /\ SoonAfterBad ]_vars

(***************************************************************************)
(* An image that is marked for the bootloader is in the DFU area byte for  *)
(* byte, whatever chunks were lost or repeated, whatever transfer was      *)
(* abandoned for another image, and whatever write failed before.          *)
(***************************************************************************)
ImageWhole == status # NoImage => Holds(flash, status)

\* The host's image is not refused: its last chunk, padding included, fits.
ImageFits == Length[host.image] <= (FirmwareBytes \div ChunkBytes) * ChunkBytes

(***************************************************************************)
(* A host that repeats what was not acknowledged, starts over after a      *)
(* fault and settles on an image that fits gets an image marked, after     *)
(* finitely many mishaps: the counters that both sides keep never get      *)
(* stuck, and no write meets a word that was not erased.                   *)
(***************************************************************************)
UpdateCompletes == (Updates /\ <>[]ImageFits) => <>(status # NoImage)

(***************************************************************************)
(* The frames of one dump carry the words of one capture, also when the    *)
(* recording is started again: unless the bandwidth test restarts it in    *)
(* the middle of the preparation of a frame, whose cursor then revives the *)
(* dump (capture.rs: the cursor is loaded and stored without a guard).     *)
(***************************************************************************)
DumpsOneCapture == ~dump.preempted => Cardinality(dump.seen) <= 1 /\ NeverWritten \notin dump.seen
=============================================================================
