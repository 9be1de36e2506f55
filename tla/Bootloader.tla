------------------------------ MODULE Bootloader ------------------------------
(***************************************************************************)
(* A firmware update from the staged image to its confirmation: the        *)
(* bootloader, which swaps the images page by page, and the part of the    *)
(* firmware that stages, applies and confirms them.                        *)
(*                                                                         *)
(* The firmware area has ImagePages pages, the DFU area one more: the      *)
(* spare page lets the swap free a page before it is overwritten.  The     *)
(* bootloader status page holds a status and the log of completed steps.   *)
(*                                                                         *)
(* A flash operation is one step, and power or a watchdog may interrupt it *)
(* anywhere: a page half erased or half written is Torn.  A whole image    *)
(* boots unless it is in BadImages; a mix of two images is assumed to hang *)
(* before it confirms itself, and a hang ends in a watchdog reset.  The    *)
(* length of an image is abstracted, so is its CRC: it holds exactly of a  *)
(* whole image.                                                            *)
(***************************************************************************)
EXTENDS Naturals

CONSTANTS
  ImagePages,   \* LAYOUT.image_pages; the log has room for 2 * ImagePages steps
  Images,       \* the images the update tool can send
  BadImages,    \* those that hang before they confirm their boot
  Factory,      \* the image flashed with the bootloader
  MaxMishaps    \* bound on interruptions and flash errors

ASSUME BootloaderAssumption ==
  /\ ImagePages \in Nat \ {0}
  /\ BadImages \subseteq Images
  /\ Factory \in Images \ BadImages
  /\ MaxMishaps \in Nat

VARIABLES
  firmware,  \* the pages of the firmware area
  dfu,       \* the pages of the DFU area
  status,    \* what the status page decodes to
  marks,     \* the steps logged in the status page
  flag,      \* RCC_CSR.IWDGRSTF: a watchdog reset, not yet acknowledged
  pc,        \* what the processor is doing
  pending,   \* the status being written
  good,      \* (history) the image that confirmed its boot last
  failed,    \* (history) a flash operation reported an error
  mishaps    \* (bound) interruptions and flash errors so far

vars == <<firmware, dfu, status, marks, flag, pc, pending, good, failed, mishaps>>
flash == <<firmware, dfu, status, marks>>
history == <<good, failed, mishaps>>

Pages == 0 .. ImagePages - 1
DfuPages == 0 .. ImagePages
Steps == 2 * ImagePages

Torn == <<>>
Contents == (Images \X Pages) \cup {Torn}
Image(i) == [k \in Pages |-> <<i, k>>]
Staged(i) == \A k \in Pages : dfu[k] = <<i, k>>
Boots(area) == \E i \in Images \ BadImages : area = Image(i)

States == {"fresh", "rejected", "trial", "timeout"}   \* BootloaderState
Statuses == States \cup {"empty", "corrupt"}          \* DecodeResult

(***************************************************************************)
(* Where step \div 2 takes its page to and from.  A swap stores the old    *)
(* image one page ahead of the new one, wrapped; a revert undoes it.       *)
(***************************************************************************)
Wrap(p) == IF p > ImagePages THEN p % (ImagePages + 1) ELSE p
Saved(k) == Wrap(ImagePages + k)
\* Mutant: a revert stores the new image where the old one is.
ScratchOfSwap(k) == Saved(k)
Scratch(k) == IF status = "fresh" THEN Saved(k) ELSE Wrap(ImagePages - 1 + k)
\* Mutant: a revert looks for the old image where the new one was.
SourceUnsaved(k) == k
Source(k) == IF status = "fresh" THEN k ELSE Saved(k)

Page == marks \div 2
ToDfu == marks % 2 = 0

\* The target page of the current step, with its new contents
Program(c) ==
  IF ToDfu
  THEN dfu' = [dfu EXCEPT ![Scratch(Page)] = c] /\ UNCHANGED firmware
  ELSE firmware' = [firmware EXCEPT ![Page] = c] /\ UNCHANGED dfu

Init ==
  /\ firmware = Image(Factory)
  /\ dfu = [p \in DfuPages |-> Torn]
  /\ status = "empty"
  /\ marks = 0
  /\ flag = FALSE
  /\ pc = "bootloader"
  /\ pending = "empty"
  /\ good = Factory
  /\ failed = FALSE
  /\ mishaps = 0

-----------------------------------------------------------------------------
(* The bootloader.                                                         *)

\* Mutant: a swap is started, never resumed.
SwapsFromStart == (status = "fresh" /\ marks = 0) \/ (status = "trial" /\ flag)
\* Mutant: the watchdog flag is not looked at.
SwapsFresh == status = "fresh"
Swaps == status = "fresh" \/ (status = "trial" /\ flag)

Write(s) == pc' = "erase_status" /\ pending' = s

\* main: what the status asks for
Dispatch ==
  /\ pc = "bootloader"
  /\ \/ Swaps /\ pc' = "erase" /\ UNCHANGED pending
     \/ status = "corrupt" /\ Write("rejected")
     \/ ~Swaps /\ status # "corrupt" /\ pc' = "boot" /\ UNCHANGED pending
  /\ UNCHANGED <<flash, flag, history>>

EraseTarget ==
  /\ pc = "erase" /\ marks < Steps
  /\ Program(Torn)
  /\ pc' = "copy"
  /\ UNCHANGED <<status, marks, flag, pending, history>>

CopyPage ==
  /\ pc = "copy"
  /\ Program(IF ToDfu THEN firmware[Page] ELSE dfu[Source(Page)])
  /\ pc' = "log"
  /\ UNCHANGED <<status, marks, flag, pending, history>>

LogStep ==
  /\ pc = "log"
  /\ marks' = marks + 1
  /\ pc' = "erase"
  /\ UNCHANGED <<firmware, dfu, status, flag, pending, history>>

\* Mutant: the last step is left out.
SwapDoneEarly ==
  /\ pc = "erase" /\ marks \in {Steps - 1, Steps}
  /\ Write(IF status = "fresh" THEN "trial" ELSE "timeout")
  /\ UNCHANGED <<flash, flag, history>>

SwapDone ==
  /\ pc = "erase" /\ marks = Steps
  /\ Write(IF status = "fresh" THEN "trial" ELSE "timeout")
  /\ UNCHANGED <<flash, flag, history>>

\* write_status of the bootloader, and of the firmware when pending is "fresh"
EraseStatus ==
  /\ pc = "erase_status"
  /\ status' = "empty" /\ marks' = 0
  /\ pc' = "write_status"
  /\ UNCHANGED <<firmware, dfu, flag, pending, history>>

WriteStatus ==
  /\ pc = "write_status"
  /\ status' = pending
  /\ pc' = IF pending = "fresh" THEN "bootloader" ELSE "boot"   \* sys_reset
  /\ pending' = "empty"
  /\ UNCHANGED <<firmware, dfu, marks, flag, history>>

-----------------------------------------------------------------------------
(* The firmware.                                                           *)

\* init, up to the reset cause: an image that hangs later boots as well.
ClearFlags ==
  /\ pc = "boot"
  /\ \E i \in Images : firmware = Image(i)
  /\ flag' = FALSE
  /\ pc' = "init"
  /\ UNCHANGED <<flash, pending, history>>

\* confirm_boot: reads the status and erases it, unless there is none to erase.
Confirmable == status \in {"rejected", "trial", "timeout"}

Confirm ==
  /\ pc = "init" /\ Boots(firmware)
  /\ IF Confirmable
     THEN pc' = "confirm" /\ UNCHANGED good
     ELSE pc' = "run" /\ \E i \in Images : firmware = Image(i) /\ good' = i
  /\ UNCHANGED <<flash, flag, pending, failed, mishaps>>

EraseConfirmed ==
  /\ pc = "confirm"
  /\ status' = "empty" /\ marks' = 0
  /\ \E i \in Images : firmware = Image(i) /\ good' = i
  /\ pc' = "run"
  /\ UNCHANGED <<firmware, dfu, flag, pending, failed, mishaps>>

\* Mutant: the staging area includes the spare page.
StagePageSpare ==
  /\ pc = "run"
  /\ \E i \in Images, k \in DfuPages :
       /\ k > 0 => dfu[k - 1] = <<i, k - 1>>
       /\ \E c \in {Torn, <<i, k>>} : dfu' = [dfu EXCEPT ![k] = c]
  /\ UNCHANGED <<firmware, status, marks, flag, pc, pending, history>>

\* dfu_write: a page is erased when the first chunk reaches it, and is whole
\* with its last one.  Chunks come in sequence, from the start after a reset.
StagePage ==
  /\ pc = "run"
  /\ \E i \in Images, k \in Pages :
       /\ k > 0 => dfu[k - 1] = <<i, k - 1>>
       /\ \E c \in {Torn, <<i, k>>} : dfu' = [dfu EXCEPT ![k] = c]
  /\ UNCHANGED <<firmware, status, marks, flag, pc, pending, history>>

\* An apply whose CRC holds; dfu_mark_written.  Otherwise only a fault.
Apply ==
  /\ pc = "run"
  /\ \E i \in Images : Staged(i)
  /\ Write("fresh")
  /\ UNCHANGED <<flash, flag, history>>

\* Nothing feeds the watchdog any more.
Hang ==
  /\ pc \in {"boot", "init"} /\ ~Boots(firmware)
  /\ flag' = TRUE
  /\ pc' = "bootloader"
  /\ UNCHANGED <<flash, pending, history>>

-----------------------------------------------------------------------------
(* Interruptions and flash errors.                                         *)

Erasing == pc \in {"erase_status", "confirm"}

\* What an interruption leaves of the flash operation in progress
Interrupted ==
  \/ UNCHANGED <<flash, good>>
  \/ pc = "erase" /\ marks < Steps /\ Program(Torn) /\ UNCHANGED <<status, marks, good>>
  \/ pc = "log" /\ marks' = marks + 1 /\ UNCHANGED <<firmware, dfu, status, good>>
  \/ /\ Erasing \/ pc = "write_status"
     /\ status' \in (IF Erasing THEN {"empty", "corrupt"} ELSE {"corrupt"})
     /\ marks' = 0
     /\ IF pc = "confirm"
        THEN \E i \in Images : firmware = Image(i) /\ good' = i
        ELSE UNCHANGED good
     /\ UNCHANGED <<firmware, dfu>>

\* Power loss clears the watchdog flag, a watchdog reset sets it.
Interrupt ==
  /\ mishaps < MaxMishaps /\ mishaps' = mishaps + 1
  /\ Interrupted
  /\ flag' \in BOOLEAN
  /\ pc' = "bootloader"
  /\ pending' = "empty"
  /\ UNCHANGED failed

\* The bootloader boots whatever a failed operation left; the firmware
\* asserts a fault and goes on.
FlashError ==
  /\ mishaps < MaxMishaps /\ mishaps' = mishaps + 1
  /\ failed' = TRUE
  /\ \/ /\ pc \in {"erase", "copy", "log"} /\ marks < Steps
        /\ UNCHANGED <<firmware, dfu>> \/ (pc = "erase" /\ Program(Torn))
        /\ pc' = "boot"
     \/ /\ pc \in {"erase_status", "write_status"}
        /\ pc' = IF pending = "fresh" THEN "run" ELSE "boot"
        /\ UNCHANGED <<firmware, dfu>>
     \/ /\ pc = "confirm"
        /\ pc' = "run"
        /\ UNCHANGED <<firmware, dfu>>
  /\ pending' = "empty"
  /\ UNCHANGED <<status, marks, flag, good>>

\* What the processor does by itself
Progress ==
  \/ Dispatch \/ EraseTarget \/ CopyPage \/ LogStep \/ SwapDone
  \/ EraseStatus \/ WriteStatus \/ ClearFlags \/ Confirm \/ EraseConfirmed \/ Hang

Next == Progress \/ StagePage \/ Apply \/ Interrupt \/ FlashError

Spec == Init /\ [][Next]_vars

(***************************************************************************)
(* The processor goes on executing: a straight line of code, which the     *)
(* watchdog restarts when it hangs.  Nobody needs to send an image.        *)
(***************************************************************************)
FairSpec == Spec /\ WF_vars(Progress)
=============================================================================
