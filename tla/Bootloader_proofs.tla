-------------------------- MODULE Bootloader_proofs --------------------------
(***************************************************************************)
(* Proofs about firmware updates, for every number of pages, every set of  *)
(* images and any number of mishaps.                                       *)
(***************************************************************************)
EXTENDS BootloaderProperties, TLAPS

LEMMA ModOnce ==
  ASSUME NEW n \in Nat \ {0}, NEW r \in 0 .. n - 1 PROVE (n + r) % n = r
OBVIOUS

LEMMA WrapValue ==
  ASSUME NEW p \in Nat, p <= 2 * ImagePages
  PROVE  Wrap(p) = IF p > ImagePages THEN p - ImagePages - 1 ELSE p
<1>1. CASE p > ImagePages
  <2> DEFINE n == ImagePages + 1
             r == p - n
  <2>1. n \in Nat \ {0} /\ r \in 0 .. n - 1 /\ p = n + r
    BY <1>1, BootloaderAssumption
  <2>2. p % n = r
    <3> HIDE DEF n, r
    <3> QED BY <2>1, ModOnce
  <2>3. r = p - ImagePages - 1
    BY BootloaderAssumption
  <2> QED BY <1>1, <2>2, <2>3 DEF Wrap
<1> QED BY <1>1 DEF Wrap

LEMMA SavedValue ==
  /\ Saved(0) = ImagePages
  /\ \A k \in Pages : k > 0 => Saved(k) = k - 1
<1>1. 0 \in Pages /\ ImagePages \in Nat
  BY BootloaderAssumption DEF Pages
<1>2. Saved(0) = ImagePages
  BY <1>1, WrapValue DEF Saved
<1>3. ASSUME NEW k \in Pages, k > 0 PROVE Saved(k) = k - 1
  BY <1>1, <1>3, WrapValue DEF Saved, Pages
<1> QED BY <1>2, <1>3

LEMMA ScratchValue ==
  ASSUME NEW k \in Pages
  PROVE  /\ status = "fresh" => Scratch(k) = Saved(k)
         /\ status # "fresh" /\ k = 0 => Scratch(k) = ImagePages - 1
         /\ status # "fresh" /\ k > 0 => Scratch(k) = Saved(k - 1)
<1>1. k \in Nat /\ k < ImagePages /\ ImagePages \in Nat
  BY BootloaderAssumption DEF Pages
<1>2. CASE status = "fresh"
  BY <1>2 DEF Scratch
<1>3. CASE status # "fresh" /\ k = 0
  BY <1>1, <1>3, WrapValue DEF Scratch
<1>4. CASE status # "fresh" /\ k > 0
  <2>1. Saved(k - 1) = Wrap(ImagePages + (k - 1)) /\ ImagePages + (k - 1) = ImagePages - 1 + k
    BY <1>1 DEF Saved
  <2> QED BY <1>4, <2>1 DEF Scratch
<1> QED BY <1>2, <1>3, <1>4, <1>1

LEMMA SavedPlaces ==
  /\ \A k \in Pages : Saved(k) \in DfuPages /\ Saved(k) # ImagePages - 1
  /\ \A j, k \in Pages : Saved(j) = Saved(k) => j = k
  /\ \A j, k \in Pages : j >= k => Saved(k) # j
BY SavedValue, BootloaderAssumption DEF Pages, DfuPages

LEMMA ScratchPlaces ==
  ASSUME NEW k \in Pages PROVE Scratch(k) \in DfuPages
<1>1. k > 0 => k - 1 \in Pages
  BY BootloaderAssumption DEF Pages
<1>2. ImagePages - 1 \in DfuPages
  BY BootloaderAssumption DEF DfuPages
<1> QED BY <1>1, <1>2, ScratchValue, SavedPlaces, BootloaderAssumption DEF Pages

LEMMA CurrentPage ==
  ASSUME marks \in 0 .. Steps, marks < Steps
  PROVE  /\ Page \in Pages
         /\ ToDfu => marks = 2 * Page
         /\ ~ToDfu => marks = 2 * Page + 1
BY BootloaderAssumption DEF Steps, Page, ToDfu, Pages

LEMMA WholeImage ==
  ASSUME TypeOK, NEW i, \A k \in Pages : firmware[k] = <<i, k>>
  PROVE  firmware = Image(i)
BY DEF TypeOK, Image

LEMMA PageTypes ==
  /\ Torn \in Contents
  /\ \A i \in Images, k \in Pages : <<i, k>> \in Contents
  /\ \A i \in Images : Image(i) \in [Pages -> Contents]
<1>1. Torn \in Contents
  BY DEF Contents
<1>2. \A i \in Images, k \in Pages : <<i, k>> \in Contents
  BY DEF Contents
<1> QED BY <1>1, <1>2 DEF Image

-----------------------------------------------------------------------------
(* Types.                                                                  *)

LEMMA InitInv == Init => IInv
<1>1. SUFFICES ASSUME Init PROVE IInv
  OBVIOUS
<1>2. Factory \in Images /\ Steps \in Nat
  BY BootloaderAssumption DEF Steps
<1>3. TypeOK /\ InStep
  <2>1. firmware \in [Pages -> Contents]
    BY <1>1, <1>2, PageTypes DEF Init
  <2>2. dfu \in [DfuPages -> Contents]
    BY <1>1, PageTypes DEF Init
  <2>3. marks \in 0 .. Steps /\ mishaps \in 0 .. MaxMishaps
    BY <1>1, <1>2, BootloaderAssumption DEF Init
  <2> QED BY <1>1, <1>2, <2>1, <2>2, <2>3 DEF Init, TypeOK, InStep, Statuses
<1>4. Phases /\ OldKept /\ NewKept /\ RevertRestores
  BY <1>1, <1>2 DEF Init, Phases, OldKept, NewKept, RevertRestores, Whole
<1> QED BY <1>3, <1>4 DEF IInv

LEMMA ProgramType ==
  ASSUME TypeOK, marks < Steps, NEW c \in Contents, Program(c)
  PROVE  firmware' \in [Pages -> Contents] /\ dfu' \in [DfuPages -> Contents]
<1>1. Page \in Pages /\ Scratch(Page) \in DfuPages
  BY CurrentPage, ScratchPlaces DEF TypeOK
<1> QED BY <1>1 DEF Program, TypeOK

LEMMA PageContents ==
  ASSUME TypeOK, marks < Steps
  PROVE  firmware[Page] \in Contents /\ dfu[Source(Page)] \in Contents
<1>1. Page \in Pages /\ Saved(Page) \in DfuPages /\ Page \in DfuPages
  BY CurrentPage, SavedPlaces, BootloaderAssumption DEF TypeOK, Pages, DfuPages
<1>2. Source(Page) \in DfuPages
  BY <1>1 DEF Source
<1> QED BY <1>1, <1>2 DEF TypeOK

LEMMA NextType == TypeOK /\ InStep /\ [Next]_vars => TypeOK' /\ InStep'
<1>1. SUFFICES ASSUME TypeOK, InStep, [Next]_vars PROVE TypeOK' /\ InStep'
  OBVIOUS
<1> USE <1>1
<1>2. Torn \in Contents /\ Steps \in Nat /\ marks \in Nat
  BY BootloaderAssumption DEF Contents, Steps, TypeOK
<1>3. CASE Dispatch
  BY <1>3 DEF Dispatch, Write, flash, history, TypeOK, InStep, States
<1>4. CASE EraseTarget
  <2>1. firmware' \in [Pages -> Contents] /\ dfu' \in [DfuPages -> Contents]
    BY <1>4, <1>2, ProgramType DEF EraseTarget
  <2> QED BY <2>1, <1>4 DEF EraseTarget, history, TypeOK, InStep
<1>5. CASE CopyPage
  <2>1. marks < Steps
    BY <1>5 DEF CopyPage, InStep
  <2>2. firmware' \in [Pages -> Contents] /\ dfu' \in [DfuPages -> Contents]
    <3> DEFINE c == IF ToDfu THEN firmware[Page] ELSE dfu[Source(Page)]
    <3>1. c \in Contents /\ Program(c)
      BY <1>5, <2>1, PageContents DEF CopyPage
    <3> QED BY <3>1, <2>1, ProgramType
  <2> QED BY <2>1, <2>2, <1>5 DEF CopyPage, history, TypeOK, InStep
<1>6. CASE LogStep
  BY <1>6, <1>2 DEF LogStep, history, TypeOK, InStep
<1>7. CASE SwapDone
  BY <1>7 DEF SwapDone, Write, flash, history, TypeOK, InStep, States
<1>8. CASE EraseStatus
  BY <1>8, <1>2 DEF EraseStatus, history, TypeOK, InStep, Statuses
<1>9. CASE WriteStatus
  BY <1>9 DEF WriteStatus, history, TypeOK, InStep, Statuses
<1>10. CASE ClearFlags
  BY <1>10 DEF ClearFlags, flash, history, TypeOK, InStep
<1>11. CASE Confirm
  BY <1>11 DEF Confirm, flash, TypeOK, InStep
<1>12. CASE EraseConfirmed
  BY <1>12, <1>2 DEF EraseConfirmed, TypeOK, InStep, Statuses
<1>13. CASE StagePage
  <2>1. dfu' \in [DfuPages -> Contents]
    <3>1. PICK i \in Images, k \in Pages :
            \E c \in {Torn, <<i, k>>} : dfu' = [dfu EXCEPT ![k] = c]
      BY <1>13 DEF StagePage
    <3>2. PICK c \in {Torn, <<i, k>>} : dfu' = [dfu EXCEPT ![k] = c]
      BY <3>1
    <3>3. c \in Contents
      BY PageTypes
    <3> QED BY <3>2, <3>3 DEF TypeOK
  <2> QED BY <2>1, <1>13 DEF StagePage, history, TypeOK, InStep
<1>14. CASE Apply
  BY <1>14 DEF Apply, Write, flash, history, TypeOK, InStep, States
<1>15. CASE Hang
  BY <1>15 DEF Hang, flash, history, TypeOK, InStep
<1>16. CASE Interrupt
  <2>1. /\ firmware' \in [Pages -> Contents] /\ dfu' \in [DfuPages -> Contents]
        /\ status' \in Statuses /\ good' \in Images /\ marks' \in 0 .. Steps
    <3>1. Interrupted
      BY <1>16 DEF Interrupt
    <3>2. CASE UNCHANGED <<flash, good>>
      BY <3>2 DEF flash, TypeOK
    <3>3. CASE pc = "erase" /\ marks < Steps /\ Program(Torn) /\ UNCHANGED <<status, marks, good>>
      BY <3>3, <1>2, ProgramType DEF TypeOK
    <3>4. CASE pc = "log" /\ marks' = marks + 1 /\ UNCHANGED <<firmware, dfu, status, good>>
      BY <3>4, <1>2 DEF TypeOK, InStep
    <3>5. CASE /\ Erasing \/ pc = "write_status"
               /\ status' \in (IF Erasing THEN {"empty", "corrupt"} ELSE {"corrupt"})
               /\ marks' = 0
               /\ IF pc = "confirm"
                  THEN \E i \in Images : firmware = Image(i) /\ good' = i
                  ELSE UNCHANGED good
               /\ UNCHANGED <<firmware, dfu>>
      BY <3>5, <1>2 DEF TypeOK, Statuses
    <3> QED BY <3>1, <3>2, <3>3, <3>4, <3>5 DEF Interrupted
  <2>2. mishaps' \in 0 .. MaxMishaps
    BY <1>16, BootloaderAssumption DEF Interrupt, TypeOK
  <2> QED BY <2>1, <2>2, <1>16 DEF Interrupt, TypeOK, InStep
<1>17. CASE FlashError
  <2>1. firmware' \in [Pages -> Contents] /\ dfu' \in [DfuPages -> Contents]
    BY <1>17, <1>2, ProgramType DEF FlashError, TypeOK
  <2>2. mishaps' \in 0 .. MaxMishaps
    BY <1>17, BootloaderAssumption DEF FlashError, TypeOK
  <2> QED BY <2>1, <2>2, <1>17 DEF FlashError, TypeOK, InStep
<1>18. CASE UNCHANGED vars
  BY <1>18 DEF vars, TypeOK, InStep
<1> QED BY <1>3, <1>4, <1>5, <1>6, <1>7, <1>8, <1>9, <1>10, <1>11, <1>12, <1>13, <1>14,
           <1>15, <1>16, <1>17, <1>18 DEF Next, Progress

-----------------------------------------------------------------------------
(* The swap.                                                               *)

LEMMA ProgramEffect ==
  ASSUME TypeOK, marks < Steps, NEW c, Program(c)
  PROVE  /\ ToDfu => /\ UNCHANGED firmware
                     /\ dfu'[Scratch(Page)] = c
                     /\ \A p \in DfuPages : p # Scratch(Page) => dfu'[p] = dfu[p]
         /\ ~ToDfu => /\ UNCHANGED dfu
                      /\ firmware'[Page] = c
                      /\ \A p \in Pages : p # Page => firmware'[p] = firmware[p]
<1>1. Page \in Pages /\ Scratch(Page) \in DfuPages
  BY CurrentPage, ScratchPlaces DEF TypeOK
<1> QED BY <1>1 DEF Program, TypeOK

\* Whatever is programmed, the page it replaces is not one that is needed.
LEMMA ProgramKeeps ==
  ASSUME TypeOK, OldKept, NewKept, status \in {"fresh", "trial"}, pc \in {"erase", "copy"},
         marks < Steps, NEW c, Program(c), UNCHANGED <<status, marks, good>>,
         /\ pc' = "log" /\ status = "fresh" /\ ToDfu => c = <<good, Page>>
         /\ pc' = "log" /\ status = "fresh" /\ ~ToDfu => c = dfu[Page]
         /\ pc' = "log" /\ status = "trial" /\ ~ToDfu => c = <<good, Page>>
  PROVE  OldKept' /\ NewKept'
<1> DEFINE m == Page
<1>1. /\ m \in Pages
      /\ ToDfu => marks = 2 * m
      /\ ~ToDfu => marks = 2 * m + 1
      /\ \A k \in Pages : k \in Nat /\ k \in DfuPages
  BY CurrentPage, BootloaderAssumption DEF TypeOK, Pages, DfuPages
<1> HIDE DEF m
<1>2. /\ ToDfu => /\ UNCHANGED firmware
                  /\ dfu'[Scratch(m)] = c
                  /\ \A p \in DfuPages : p # Scratch(m) => dfu'[p] = dfu[p]
      /\ ~ToDfu => /\ UNCHANGED dfu
                   /\ firmware'[m] = c
                   /\ \A p \in Pages : p # m => firmware'[p] = firmware[p]
  BY ProgramEffect DEF m
<1>3. CASE status = "fresh" /\ ToDfu
  <2>1. Scratch(m) = Saved(m)
    BY <1>1, <1>3, ScratchValue
  <2>2. ASSUME NEW k \in Pages
        PROVE  /\ IF 2 * k < marks' THEN dfu'[Saved(k)] = <<good, k>> ELSE firmware'[k] = <<good, k>>
               /\ 2 * k = marks' /\ pc' = "log" => dfu'[Saved(k)] = <<good, k>>
    <3>1. k # m => dfu'[Saved(k)] = dfu[Saved(k)]
      BY <1>1, <1>2, <1>3, <2>1, SavedPlaces
    <3>2. firmware' = firmware /\ dfu'[Saved(m)] = c
      BY <1>2, <1>3, <2>1
    <3>3. IF 2 * k < marks THEN dfu[Saved(k)] = <<good, k>> ELSE firmware[k] = <<good, k>>
      BY <1>3 DEF OldKept
    <3>4. 2 * k < marks => k # m
      BY <1>1, <1>3
    <3>5. 2 * k = marks => k = m
      BY <1>1, <1>3
    <3>6. pc' = "log" => c = <<good, m>>
      BY <1>3 DEF m
    <3> QED BY <3>1, <3>2, <3>3, <3>4, <3>5, <3>6
  <2>3. PICK i \in Images : \A k \in Pages :
          IF 2 * k + 1 < marks THEN firmware[k] = <<i, k>> ELSE dfu[k] = <<i, k>>
    BY <1>3 DEF NewKept
  <2>4. ASSUME NEW k \in Pages
        PROVE  /\ IF 2 * k + 1 < marks' THEN firmware'[k] = <<i, k>> ELSE dfu'[k] = <<i, k>>
               /\ 2 * k + 1 = marks' /\ pc' = "log" => firmware'[k] = <<i, k>>
    <3>1. 2 * k + 1 # marks
      BY <1>1, <1>3
    <3>2. ~(2 * k + 1 < marks) => k >= m
      BY <1>1, <1>3
    <3>3. k >= m => dfu'[k] = dfu[k]
      BY <1>1, <1>2, <1>3, <2>1, SavedPlaces
    <3> QED BY <3>1, <3>2, <3>3, <2>3, <1>2, <1>3
  <2> QED BY <2>2, <2>4, <1>3 DEF OldKept, NewKept
<1>4. CASE status = "fresh" /\ ~ToDfu
  <2>1. ASSUME NEW k \in Pages
        PROVE  /\ IF 2 * k < marks' THEN dfu'[Saved(k)] = <<good, k>> ELSE firmware'[k] = <<good, k>>
               /\ 2 * k = marks' /\ pc' = "log" => dfu'[Saved(k)] = <<good, k>>
    <3>1. IF 2 * k < marks THEN dfu[Saved(k)] = <<good, k>> ELSE firmware[k] = <<good, k>>
      BY <1>4 DEF OldKept
    <3>2. 2 * k # marks /\ (~(2 * k < marks) => k # m)
      BY <1>1, <1>4
    <3> QED BY <3>1, <3>2, <1>2, <1>4
  <2>2. PICK i \in Images : \A k \in Pages :
          IF 2 * k + 1 < marks THEN firmware[k] = <<i, k>> ELSE dfu[k] = <<i, k>>
    BY <1>4 DEF NewKept
  <2>3. ASSUME NEW k \in Pages
        PROVE  /\ IF 2 * k + 1 < marks' THEN firmware'[k] = <<i, k>> ELSE dfu'[k] = <<i, k>>
               /\ 2 * k + 1 = marks' /\ pc' = "log" => firmware'[k] = <<i, k>>
    <3>1. 2 * k + 1 < marks => k # m
      BY <1>1, <1>4
    <3>2. 2 * k + 1 = marks <=> k = m
      BY <1>1, <1>4
    <3>3. pc' = "log" => firmware'[m] = dfu[m]
      BY <1>2, <1>4 DEF m
    <3> QED BY <3>1, <3>2, <3>3, <2>2, <1>2, <1>4
  <2> QED BY <2>1, <2>3, <1>4 DEF OldKept, NewKept
<1>5. CASE status = "trial" /\ ToDfu
  <2>1. ASSUME NEW k \in Pages, k >= m PROVE Saved(k) # Scratch(m)
    <3>1. m > 0 => m - 1 \in Pages /\ m - 1 # k
      BY <1>1, <2>1, BootloaderAssumption DEF Pages
    <3> QED BY <1>1, <1>5, <3>1, ScratchValue, SavedPlaces
  <2>2. ASSUME NEW k \in Pages
        PROVE  /\ IF 2 * k + 1 < marks' THEN firmware'[k] = <<good, k>> ELSE dfu'[Saved(k)] = <<good, k>>
               /\ 2 * k + 1 = marks' /\ pc' = "log" => firmware'[k] = <<good, k>>
    <3>1. IF 2 * k + 1 < marks THEN firmware[k] = <<good, k>> ELSE dfu[Saved(k)] = <<good, k>>
      BY <1>5 DEF OldKept
    <3>2. 2 * k + 1 # marks /\ (~(2 * k + 1 < marks) => k >= m)
      BY <1>1, <1>5
    <3>3. k >= m => dfu'[Saved(k)] = dfu[Saved(k)]
      BY <2>1, <1>2, <1>5, SavedPlaces
    <3> QED BY <3>1, <3>2, <3>3, <1>2, <1>5
  <2>3. marks' = 0 => Whole'
    BY <1>2, <1>5 DEF NewKept, Whole
  <2> QED BY <2>2, <2>3, <1>5 DEF OldKept, NewKept
<1>6. CASE status = "trial" /\ ~ToDfu
  <2>1. ASSUME NEW k \in Pages
        PROVE  /\ IF 2 * k + 1 < marks' THEN firmware'[k] = <<good, k>> ELSE dfu'[Saved(k)] = <<good, k>>
               /\ 2 * k + 1 = marks' /\ pc' = "log" => firmware'[k] = <<good, k>>
    <3>1. IF 2 * k + 1 < marks THEN firmware[k] = <<good, k>> ELSE dfu[Saved(k)] = <<good, k>>
      BY <1>6 DEF OldKept
    <3>2. (2 * k + 1 < marks => k # m) /\ (2 * k + 1 = marks <=> k = m)
      BY <1>1, <1>6
    <3>3. pc' = "log" => firmware'[m] = <<good, m>>
      BY <1>2, <1>6 DEF m
    <3> QED BY <3>1, <3>2, <3>3, <1>2, <1>6
  <2>2. marks' # 0
    BY <1>1, <1>6
  <2> QED BY <2>1, <2>2, <1>6 DEF OldKept, NewKept
<1> QED BY <1>3, <1>4, <1>5, <1>6

-----------------------------------------------------------------------------
(* Every step keeps the images.                                            *)

Kept == Phases /\ OldKept /\ NewKept /\ RevertRestores

\* The flash is as it was and nothing is logged
LEMMA FlashUnchanged ==
  ASSUME OldKept, NewKept, UNCHANGED <<flash, good>>
  PROVE  pc' # "log" => OldKept' /\ NewKept'
<1>1. SUFFICES ASSUME pc' # "log" PROVE OldKept' /\ NewKept'
  OBVIOUS
<1>2. UNCHANGED <<firmware, dfu, status, marks, good>> /\ \A k \in Pages : Saved(k)' = Saved(k)
  BY DEF flash, Saved
<1>3. OldKept'
  BY <1>1, <1>2 DEF OldKept, SavedWhole, Saved
<1>4. NewKept'
  BY <1>1, <1>2 DEF NewKept, Whole
<1> QED BY <1>3, <1>4

LEMMA SwapComplete ==
  ASSUME TypeOK, OldKept, NewKept, status \in {"fresh", "trial"}, marks = Steps
  PROVE  /\ status = "fresh" => SavedWhole /\ Whole
         /\ status = "trial" => firmware = Image(good) /\ Whole
<1>1. \A k \in Pages : 2 * k < marks /\ 2 * k + 1 < marks
  BY BootloaderAssumption DEF Steps, Pages
<1>2. CASE status = "fresh"
  <2>1. PICK i \in Images : \A k \in Pages : firmware[k] = <<i, k>>
    BY <1>1, <1>2 DEF NewKept
  <2> QED BY <1>1, <1>2, <2>1, WholeImage DEF OldKept, SavedWhole, Whole
<1>3. CASE status = "trial"
  BY <1>1, <1>3, WholeImage DEF OldKept, Whole, TypeOK
<1> QED BY <1>2, <1>3

\* Both images have their place without a log, too.
LEMMA StatusErased ==
  ASSUME TypeOK, Kept, pc \in {"erase_status", "write_status"}
  PROVE  Whole /\ (firmware = Image(good) \/ SavedWhole)
BY SwapComplete DEF Kept, Phases, OldKept, NewKept

LEMMA KeptDispatch == ASSUME TypeOK, Kept, Dispatch PROVE Kept'
<1>1. UNCHANGED <<flash, good>> /\ pc # "log" /\ pc' # "log"
  BY DEF Dispatch, history, Write
<1>2. OldKept' /\ NewKept' /\ RevertRestores'
  BY <1>1, FlashUnchanged DEF Kept, RevertRestores, flash, Dispatch, history
<1>3. Phases'
  BY DEF Kept, Phases, Dispatch, Swaps, Write, flash, history
<1> QED BY <1>2, <1>3 DEF Kept

LEMMA KeptEraseTarget == ASSUME TypeOK, Kept, EraseTarget PROVE Kept'
<1>1. status \in {"fresh", "trial"} /\ UNCHANGED <<status, marks, good>>
  BY DEF Kept, Phases, EraseTarget, history
<1>2. OldKept' /\ NewKept'
  BY <1>1, ProgramKeeps DEF Kept, EraseTarget
<1>3. Phases' /\ RevertRestores'
  BY <1>1 DEF Phases, RevertRestores, EraseTarget
<1> QED BY <1>2, <1>3 DEF Kept

LEMMA KeptCopyPage == ASSUME TypeOK, InStep, Kept, CopyPage PROVE Kept'
<1> DEFINE c == IF ToDfu THEN firmware[Page] ELSE dfu[Source(Page)]
<1>1. /\ status \in {"fresh", "trial"} /\ UNCHANGED <<status, marks, good>>
      /\ marks < Steps /\ pc = "copy" /\ pc' = "log" /\ Program(c)
  BY DEF Kept, Phases, InStep, CopyPage, history
<1>2. /\ Page \in Pages
      /\ ToDfu => marks = 2 * Page
      /\ ~ToDfu => marks = 2 * Page + 1
      /\ Page \in Nat
  BY <1>1, CurrentPage, BootloaderAssumption DEF TypeOK, Pages
<1>3. status = "fresh" /\ ToDfu => c = <<good, Page>>
  BY <1>1, <1>2 DEF Kept, OldKept
<1>4. status = "fresh" /\ ~ToDfu => c = dfu[Page]
  BY DEF Source
<1>5. status = "trial" /\ ~ToDfu => c = <<good, Page>>
  BY <1>1, <1>2 DEF Kept, OldKept, Source
<1>6. OldKept' /\ NewKept'
  <2> HIDE DEF c
  <2> QED BY <1>1, <1>3, <1>4, <1>5, ProgramKeeps DEF Kept
<1>7. Phases' /\ RevertRestores'
  BY <1>1 DEF Phases, RevertRestores
<1> QED BY <1>6, <1>7 DEF Kept

LEMMA KeptLogged ==
  ASSUME TypeOK, InStep, Kept, pc = "log", marks' = marks + 1, pc' # "log",
         UNCHANGED <<firmware, dfu, status, good>>
  PROVE  OldKept' /\ NewKept'
<1>1. status \in {"fresh", "trial"} /\ marks \in Nat
  BY BootloaderAssumption DEF Kept, Phases, TypeOK, Steps
<1>2. \A k \in Pages : /\ 2 * k < marks' <=> 2 * k < marks \/ 2 * k = marks
                       /\ 2 * k + 1 < marks' <=> 2 * k + 1 < marks \/ 2 * k + 1 = marks
  BY <1>1 DEF Pages
<1>3. marks' # 0
  BY <1>1
<1>4. UNCHANGED <<firmware, dfu, status, good>> /\ \A k \in Pages : Saved(k)' = Saved(k)
  BY DEF Saved
<1> QED BY <1>1, <1>2, <1>3, <1>4 DEF Kept, OldKept, NewKept

LEMMA KeptLogStep == ASSUME TypeOK, InStep, Kept, LogStep PROVE Kept'
<1>1. OldKept' /\ NewKept'
  BY KeptLogged DEF LogStep, history
<1>2. Phases' /\ RevertRestores'
  BY DEF Kept, Phases, RevertRestores, LogStep, history
<1> QED BY <1>1, <1>2 DEF Kept

LEMMA KeptSwapDone == ASSUME TypeOK, Kept, SwapDone PROVE Kept'
<1>1. UNCHANGED <<flash, good>> /\ pc = "erase" /\ pc' = "erase_status" /\ marks = Steps
      /\ status \in {"fresh", "trial"}
      /\ pending' = (IF status = "fresh" THEN "trial" ELSE "timeout")
  BY DEF SwapDone, history, Write, Kept, Phases
<1>2. OldKept' /\ NewKept' /\ RevertRestores'
  BY <1>1, FlashUnchanged DEF Kept, RevertRestores, flash
<1>3. Phases'
  BY <1>1, SwapComplete DEF Kept, Phases, flash, SavedWhole, Saved, Whole
<1> QED BY <1>2, <1>3 DEF Kept

LEMMA KeptEraseStatus == ASSUME TypeOK, Kept, EraseStatus PROVE Kept'
<1>1. UNCHANGED <<firmware, dfu, good, pending>> /\ status' = "empty" /\ marks' = 0
      /\ pc = "erase_status" /\ pc' = "write_status"
  BY DEF EraseStatus, history
<1>2. OldKept' /\ NewKept' /\ RevertRestores'
  BY <1>1, StatusErased DEF OldKept, NewKept, RevertRestores, SavedWhole, Saved, Whole
<1>3. Phases'
  BY <1>1 DEF Kept, Phases, SavedWhole, Saved, Whole, Staged
<1> QED BY <1>2, <1>3 DEF Kept

LEMMA KeptWriteStatus == ASSUME TypeOK, Kept, WriteStatus PROVE Kept'
<1>1. /\ UNCHANGED <<firmware, dfu, marks, good>> /\ status' = pending /\ marks = 0
      /\ pc = "write_status" /\ pc' = (IF pending = "fresh" THEN "bootloader" ELSE "boot")
      /\ Whole /\ (firmware = Image(good) \/ SavedWhole)
  BY StatusErased DEF WriteStatus, history, Kept, Phases
<1>2. \A k \in Pages : ~(2 * k < 0) /\ ~(2 * k + 1 < 0) /\ 2 * k + 1 # 0
  BY DEF Pages
<1>3. OldKept'
  <2>1. CASE pending = "fresh"
    BY <1>1, <1>2, <2>1 DEF Kept, Phases, OldKept, Image
  <2>2. CASE pending = "trial"
    BY <1>1, <1>2, <2>2 DEF Kept, Phases, OldKept, SavedWhole, Saved
  <2>3. CASE pending \notin {"fresh", "trial"}
    BY <1>1, <2>3 DEF OldKept, SavedWhole, Saved
  <2> QED BY <2>1, <2>2, <2>3
<1>4. NewKept'
  <2>1. CASE pending = "fresh"
    BY <1>1, <1>2, <2>1 DEF Kept, Phases, NewKept, Staged
  <2>2. CASE pending # "fresh"
    BY <1>1, <2>2 DEF NewKept, Whole
  <2> QED BY <2>1, <2>2
<1>5. Phases' /\ RevertRestores'
  BY <1>1 DEF Kept, Phases, RevertRestores
<1> QED BY <1>3, <1>4, <1>5 DEF Kept

LEMMA KeptClearFlags == ASSUME TypeOK, Kept, ClearFlags PROVE Kept'
<1>1. UNCHANGED <<flash, good, failed>> /\ pc = "boot" /\ pc' = "init"
  BY DEF ClearFlags, history
<1>2. OldKept' /\ NewKept'
  BY <1>1, FlashUnchanged DEF Kept
<1>3. Phases' /\ RevertRestores'
  BY <1>1 DEF Kept, Phases, RevertRestores, flash
<1> QED BY <1>2, <1>3 DEF Kept

\* The image that confirms its boot is whole.
LEMMA Confirmed ==
  ASSUME firmware' = Image(good'), good' \in Images, pc' # "log", pc' # "erase_status",
         status' \notin {"fresh", "trial"},
         pc' \notin {"erase", "copy", "log", "write_status", "confirm"}
  PROVE  Kept'
BY DEF Kept, Phases, OldKept, NewKept, RevertRestores, Whole

LEMMA KeptConfirm == ASSUME TypeOK, Kept, Confirm PROVE Kept'
<1>1. UNCHANGED <<flash, failed>> /\ pc = "init"
  BY DEF Confirm
<1>2. CASE Confirmable
  <2>1. UNCHANGED good /\ pc' = "confirm" /\ Whole
    BY <1>2 DEF Confirm, Boots, Whole
  <2>2. OldKept' /\ NewKept'
    BY <1>1, <2>1, FlashUnchanged DEF Kept
  <2>3. Phases' /\ RevertRestores'
    BY <1>1, <2>1 DEF Kept, Phases, RevertRestores, flash, Whole
  <2> QED BY <2>2, <2>3 DEF Kept
<1>3. CASE ~Confirmable
  <2>1. \E i \in Images : firmware = Image(i) /\ good' = i
    BY <1>3 DEF Confirm
  <2>2. status' \notin {"fresh", "trial"} /\ pc' = "run"
    BY <1>1, <1>3 DEF Confirm, Confirmable, Kept, Phases, flash
  <2> QED BY <1>1, <2>1, <2>2, Confirmed DEF flash
<1> QED BY <1>2, <1>3

LEMMA KeptEraseConfirmed == ASSUME TypeOK, Kept, EraseConfirmed PROVE Kept'
BY Confirmed DEF EraseConfirmed

LEMMA KeptStagePage == ASSUME TypeOK, Kept, StagePage PROVE Kept'
<1>1. pc = "run" /\ firmware = Image(good) /\ status \notin {"fresh", "trial"}
  BY DEF StagePage, Kept, Phases
<1> QED BY <1>1, Confirmed DEF StagePage, history, TypeOK

LEMMA KeptApply == ASSUME TypeOK, Kept, Apply PROVE Kept'
<1>1. /\ pc = "run" /\ firmware = Image(good) /\ status \notin {"fresh", "trial"}
      /\ UNCHANGED <<flash, good>> /\ pc' = "erase_status" /\ pending' = "fresh"
      /\ \E i \in Images : Staged(i)
  BY DEF Apply, Kept, Phases, Write, history
<1>2. OldKept' /\ NewKept' /\ RevertRestores'
  BY <1>1, FlashUnchanged DEF Kept, RevertRestores, flash
<1>3. Phases'
  BY <1>1 DEF Phases, flash, Staged
<1> QED BY <1>2, <1>3 DEF Kept

LEMMA KeptHang == ASSUME TypeOK, Kept, Hang PROVE Kept'
<1>1. UNCHANGED <<flash, good, failed>> /\ pc # "log" /\ pc' = "bootloader"
  BY DEF Hang, history
<1>2. OldKept' /\ NewKept'
  BY <1>1, FlashUnchanged DEF Kept
<1>3. Phases' /\ RevertRestores'
  BY <1>1 DEF Kept, Phases, RevertRestores, flash
<1> QED BY <1>2, <1>3 DEF Kept

LEMMA KeptInterrupt == ASSUME TypeOK, InStep, Kept, Interrupt PROVE Kept'
<1>1. Interrupted /\ pc' = "bootloader" /\ pending' = "empty" /\ UNCHANGED failed
  BY DEF Interrupt
<1>2. CASE UNCHANGED <<flash, good>>
  <2>1. OldKept' /\ NewKept'
    BY <1>1, <1>2, FlashUnchanged DEF Kept
  <2>2. Phases' /\ RevertRestores'
    BY <1>1, <1>2 DEF Kept, Phases, RevertRestores, flash
  <2> QED BY <2>1, <2>2 DEF Kept
<1>3. CASE pc = "erase" /\ marks < Steps /\ Program(Torn) /\ UNCHANGED <<status, marks, good>>
  <2>1. status \in {"fresh", "trial"}
    BY <1>3 DEF Kept, Phases
  <2>2. OldKept' /\ NewKept'
    BY <1>1, <1>3, <2>1, ProgramKeeps DEF Kept
  <2>3. Phases' /\ RevertRestores'
    BY <1>1, <1>3, <2>1 DEF Phases, RevertRestores
  <2> QED BY <2>2, <2>3 DEF Kept
<1>4. CASE pc = "log" /\ marks' = marks + 1 /\ UNCHANGED <<firmware, dfu, status, good>>
  <2>1. OldKept' /\ NewKept'
    BY <1>1, <1>4, KeptLogged
  <2>2. Phases' /\ RevertRestores'
    BY <1>1, <1>4 DEF Kept, Phases, RevertRestores
  <2> QED BY <2>1, <2>2 DEF Kept
<1>5. CASE /\ Erasing \/ pc = "write_status"
           /\ status' \in (IF Erasing THEN {"empty", "corrupt"} ELSE {"corrupt"})
           /\ marks' = 0
           /\ IF pc = "confirm"
              THEN \E i \in Images : firmware = Image(i) /\ good' = i
              ELSE UNCHANGED good
           /\ UNCHANGED <<firmware, dfu>>
  <2>1. status' \in {"empty", "corrupt"}
    BY <1>5
  <2>2. CASE pc = "confirm"
    BY <1>1, <1>5, <2>1, <2>2, Confirmed
  <2>3. CASE pc # "confirm"
    <3>1. Whole /\ (firmware = Image(good) \/ SavedWhole)
      BY <1>5, <2>3, StatusErased DEF Erasing
    <3>2. UNCHANGED <<firmware, dfu, good>>
      BY <1>5, <2>3
    <3> QED BY <1>1, <2>1, <3>1, <3>2
            DEF Kept, Phases, OldKept, NewKept, RevertRestores, Whole, SavedWhole, Saved
  <2> QED BY <2>2, <2>3
<1> QED BY <1>1, <1>2, <1>3, <1>4, <1>5 DEF Interrupted

LEMMA KeptStutter == ASSUME Kept, UNCHANGED vars PROVE Kept'
BY DEF vars, Kept, Phases, OldKept, NewKept, RevertRestores, Whole, SavedWhole, Saved, Staged

LEMMA NextKept == IInv /\ [Next]_vars => (~failed' => Kept')
<1>1. SUFFICES ASSUME IInv, [Next]_vars, ~failed' PROVE Kept'
  OBVIOUS
<1>2. CASE FlashError
  BY <1>1, <1>2 DEF FlashError
<1>3. CASE UNCHANGED vars
  BY <1>1, <1>3, KeptStutter DEF vars, IInv, Kept
<1>4. CASE Next /\ ~FlashError
  <2>1. UNCHANGED failed
    BY <1>4 DEF Next, Progress, Dispatch, EraseTarget, CopyPage, LogStep, SwapDone, EraseStatus,
                WriteStatus, ClearFlags, Confirm, EraseConfirmed, Hang, StagePage, Apply,
                Interrupt, history
  <2>2. TypeOK /\ InStep /\ Kept
    BY <1>1, <2>1 DEF IInv, Kept
  <2> QED BY <1>4, <2>2, KeptDispatch, KeptEraseTarget, KeptCopyPage, KeptLogStep, KeptSwapDone,
             KeptEraseStatus, KeptWriteStatus, KeptClearFlags, KeptConfirm, KeptEraseConfirmed,
             KeptHang, KeptStagePage, KeptApply, KeptInterrupt DEF Next, Progress
<1> QED BY <1>1, <1>2, <1>3, <1>4

-----------------------------------------------------------------------------
(* The theorems.                                                           *)

\* The inductive invariant holds in every reachable state: at any moment of
\* any sequence of updates, mishaps and reverts, swap_images has a place for
\* every page of the image that confirmed its boot last.
THEOREM BootloaderInvariant == Spec => []IInv
<1>1. IInv /\ [Next]_vars => IInv'
  BY NextType, NextKept DEF IInv, Kept
<1> QED BY InitInv, <1>1, PTL DEF Spec

\* Every variable of the bootloader keeps its type: no page is programmed
\* outside of its area, no step is logged beyond the last one.
THEOREM BootloaderTypes == Spec => []TypeOK
<1>1. IInv => TypeOK
  BY DEF IInv
<1> QED BY BootloaderInvariant, <1>1, PTL

\* No page of the image that confirmed its boot last is ever lost.
THEOREM GoodImageNeverLost == Spec => []GoodImageKept
<1>1. IInv => GoodImageKept
  <2>1. SUFFICES ASSUME IInv, ~failed, NEW k \in Pages
                 PROVE  firmware[k] = <<good, k>> \/ \E p \in DfuPages : dfu[p] = <<good, k>>
    BY DEF GoodImageKept
  <2>2. Saved(k) \in DfuPages
    BY SavedPlaces
  <2>3. firmware[k] = <<good, k>> \/ dfu[Saved(k)] = <<good, k>>
    BY <2>1 DEF IInv, OldKept, SavedWhole, Image
  <2> QED BY <2>2, <2>3
<1> QED BY BootloaderInvariant, <1>1, PTL

\* A status of SwappedImageBootTimeout means a completed revert.
THEOREM RevertAlwaysRestores == Spec => []RevertRestores
<1>1. IInv => RevertRestores
  BY DEF IInv, RevertRestores
<1> QED BY BootloaderInvariant, <1>1, PTL

\* Only a revert in progress is ever booted as a mix of two images.
THEOREM MixedAlwaysMidRevert == Spec => []MixedOnlyMidRevert
<1>1. IInv => MixedOnlyMidRevert
  <2>1. SUFFICES ASSUME IInv, pc \in {"boot", "init"}, ~failed, ~Whole
                 PROVE  status = "trial" /\ marks \in 1 .. Steps - 1
    BY DEF MixedOnlyMidRevert, Whole
  <2>2. status = "trial" /\ marks # 0
    BY <2>1 DEF IInv, Phases, NewKept
  <2>3. marks # Steps
    BY <2>1, <2>2, SwapComplete DEF IInv
  <2> QED BY <2>1, <2>2, <2>3, BootloaderAssumption DEF IInv, TypeOK, Steps
<1> QED BY BootloaderInvariant, <1>1, PTL

\* A trial ends with the confirmed image whole in the firmware area.
THEOREM TrialAlwaysDecided == Spec => TrialDecided
<1>1. IInv /\ [Next]_vars =>
        (status = "trial" /\ status' # "trial" /\ ~failed => firmware' = Image(good'))
  <2>1. SUFFICES ASSUME IInv, [Next]_vars, status = "trial", status' # "trial", ~failed
                 PROVE  firmware' = Image(good')
    OBVIOUS
  <2>2. /\ pc = "erase_status" => marks = Steps
        /\ pc # "write_status"
    BY <2>1 DEF IInv, Phases
  <2>3. pc = "erase_status" => firmware = Image(good)
    BY <2>1, <2>2, SwapComplete DEF IInv
  <2>4. CASE EraseStatus
    BY <2>3, <2>4 DEF EraseStatus, history
  <2>5. CASE EraseConfirmed
    BY <2>5 DEF EraseConfirmed
  <2>6. CASE Interrupt
    BY <2>1, <2>2, <2>3, <2>6 DEF Interrupt, Interrupted, Erasing, flash
  <2>7. ~WriteStatus
    BY <2>2 DEF WriteStatus
  <2> QED BY <2>1, <2>4, <2>5, <2>6, <2>7
          DEF Next, Progress, Dispatch, EraseTarget, CopyPage, LogStep, SwapDone, ClearFlags,
              Confirm, Hang, StagePage, Apply, FlashError, flash, vars
<1> QED BY BootloaderInvariant, <1>1, PTL DEF Spec, TrialDecided
=============================================================================
