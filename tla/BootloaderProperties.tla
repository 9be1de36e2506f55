------------------------- MODULE BootloaderProperties -------------------------
(***************************************************************************)
(* What makes a firmware update safe: the image that worked last is never  *)
(* lost, comes back when the new one does not boot, and is not given up    *)
(* half way.  A flash operation that reports an error is the exception:    *)
(* the bootloader boots what it left (main.rs:33).                         *)
(***************************************************************************)
EXTENDS Bootloader

TypeOK ==
  /\ firmware \in [Pages -> Contents]
  /\ dfu \in [DfuPages -> Contents]
  /\ status \in Statuses
  /\ marks \in 0 .. Steps
  /\ flag \in BOOLEAN
  /\ pc \in {"bootloader", "erase", "copy", "log", "erase_status", "write_status",
             "boot", "init", "confirm", "run"}
  /\ pending \in States \cup {"empty"}
  /\ good \in Images
  /\ failed \in BOOLEAN
  /\ mishaps \in 0 .. MaxMishaps

(***************************************************************************)
(* Wherever power is lost, each page of the image that confirmed its boot  *)
(* last is whole in one of the areas: swap_images frees a page before it   *)
(* overwrites it, in both directions and after every resumption.           *)
(***************************************************************************)
GoodImageKept ==
  ~failed => \A k \in Pages : \/ firmware[k] = <<good, k>>
                              \/ \E p \in DfuPages : dfu[p] = <<good, k>>

(***************************************************************************)
(* A status of SwappedImageBootTimeout says that the revert is complete:   *)
(* the firmware area holds the image that confirmed its boot last, however *)
(* often the swap and the revert were interrupted and resumed.             *)
(***************************************************************************)
RevertRestores == status = "timeout" /\ ~failed => firmware = Image(good)

(***************************************************************************)
(* A mix of two images is booted in the middle of a revert only, with the  *)
(* log still holding the step to go on from; a swap to the new image is    *)
(* always completed before the bootloader jumps to the firmware.           *)
(***************************************************************************)
MixedOnlyMidRevert ==
  pc \in {"boot", "init"} /\ ~failed /\ ~(\E i \in Images : firmware = Image(i)) =>
    status = "trial" /\ marks \in 1 .. Steps - 1

(***************************************************************************)
(* The trial status is given up only with the outcome of the trial in      *)
(* place: the firmware area holds, whole, the image that confirmed its     *)
(* boot, be it the new one or the one restored.                            *)
(***************************************************************************)
TrialDecided ==
  [][status = "trial" /\ status' # "trial" /\ ~failed => firmware' = Image(good')]_vars

(***************************************************************************)
(* Every start ends in a firmware that runs: the new image confirms its    *)
(* boot, or the watchdog reverts it.  Excepted are an error reported by    *)
(* the flash and the trial lost to an interruption of write_status, after  *)
(* which a swapped image starts without a status (TrialLost, which         *)
(* trial_claim shows).                                                     *)
(***************************************************************************)
TrialLost == pc = "bootloader" /\ status \in {"empty", "corrupt", "rejected"} /\ \E i \in BadImages : firmware = Image(i)

FirmwareRuns == pc = "bootloader" ~> pc = "run" \/ failed \/ TrialLost

(***************************************************************************)
(* The inductive invariant.  As long as no flash operation failed,         *)
(*   Phases    a swap goes on only with a status that asks for it, and a   *)
(*             status is replaced only when its swap is complete;          *)
(*   OldKept   each page of the confirmed image is where the log says: a   *)
(*             swap moves it to the DFU area, a revert moves it back, and  *)
(*             until that is logged it is in both places;                  *)
(*   NewKept   each page of the new image likewise, until a revert.        *)
(***************************************************************************)
SavedWhole == \A k \in Pages : dfu[Saved(k)] = <<good, k>>
Whole == \E i \in Images : firmware = Image(i)

InStep == pc \in {"copy", "log"} => marks < Steps

Phases ==
  /\ pc \in {"erase", "copy", "log"} => status \in {"fresh", "trial"}
  /\ pc \in {"boot", "init", "confirm"} => status # "fresh"
  /\ pc = "confirm" => Whole
  /\ pc = "run" => status \notin {"fresh", "trial"} /\ firmware = Image(good)
  /\ pc = "erase_status" /\ status \in {"fresh", "trial"} => marks = Steps
  /\ pc = "write_status" => status \notin {"fresh", "trial"} /\ marks = 0
  /\ pc \in {"erase_status", "write_status"} =>
       /\ pending = "trial" => SavedWhole /\ Whole
       /\ pending = "timeout" => firmware = Image(good)
       /\ pending = "fresh" => firmware = Image(good) /\ \E i \in Images : Staged(i)
       /\ pending # "empty"

OldKept ==
  /\ status = "fresh" => \A k \in Pages :
       /\ IF 2 * k < marks THEN dfu[Saved(k)] = <<good, k>> ELSE firmware[k] = <<good, k>>
       /\ 2 * k = marks /\ pc = "log" => dfu[Saved(k)] = <<good, k>>
  /\ status = "trial" => \A k \in Pages :
       /\ IF 2 * k + 1 < marks THEN firmware[k] = <<good, k>> ELSE dfu[Saved(k)] = <<good, k>>
       /\ 2 * k + 1 = marks /\ pc = "log" => firmware[k] = <<good, k>>
  /\ status \notin {"fresh", "trial"} => firmware = Image(good) \/ SavedWhole

NewKept ==
  /\ status = "fresh" => \E i \in Images : \A k \in Pages :
       /\ IF 2 * k + 1 < marks THEN firmware[k] = <<i, k>> ELSE dfu[k] = <<i, k>>
       /\ 2 * k + 1 = marks /\ pc = "log" => firmware[k] = <<i, k>>
  /\ status = "trial" /\ marks = 0 => Whole
  /\ status \notin {"fresh", "trial"} => Whole

IInv ==
  /\ TypeOK /\ InStep
  /\ ~failed => Phases /\ OldKept /\ NewKept /\ RevertRestores
=============================================================================
