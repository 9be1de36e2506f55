--------------------------- MODULE BootloaderClaims ---------------------------
(***************************************************************************)
(* What the repository says of an update and its code does not do.         *)
(***************************************************************************)
EXTENDS BootloaderProperties

\* Every page of the firmware area is written, and not all with the same image.
Mixed == ~Whole /\ \A k \in Pages : firmware[k] # Torn

(***************************************************************************)
(* loader.rs:67, "Logs the completed step to bootloader status page, for   *)
(* resume bookkeeping": a mix of two images whose next step is logged is   *)
(* gone on with, not booted.  An interrupted swap is resumed; an           *)
(* interrupted revert is not when power was lost, which clears the         *)
(* watchdog flag that asked for it.                                        *)
(***************************************************************************)
LoggedStepsResume ==
  [][pc = "bootloader" /\ marks \in 1 .. Steps - 1 /\ Mixed => pc' # "boot"]_vars

(***************************************************************************)
(* bsp.rs:748, "Marks that the currently active firmware boots normally    *)
(* (for the bootloader, so it does not revert to the previous firmware)":  *)
(* until it has, a swapped image is on trial, so that its hang reverts it. *)
(* The bootloader erases the status that asked for the swap before it      *)
(* writes the trial, and power lost in between leaves neither.             *)
(***************************************************************************)
UnconfirmedOnTrial ==
  pc = "boot" /\ Whole /\ ~failed => firmware = Image(good) \/ status = "trial"
=============================================================================
