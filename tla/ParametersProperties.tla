------------------------- MODULE ParametersProperties -------------------------
(***************************************************************************)
(* What the stored and the running motor parameters promise.               *)
(***************************************************************************)
EXTENDS Parameters

\* Values that belong together: gains and hall table of a known motor are that motor's.
OneMotor(m, g, h) ==
  m.epoch # Unmeasured => g \in {NoEstimate, m} /\ (HasHall => h \in {NoEstimate, m})

(***************************************************************************)
(* Torque is only ever controlled with one motor's values.  A complete set *)
(* of motor parameters in RAM comes with gains and a hall table of the     *)
(* same measurement or with none, whatever was invalidated, half cleared,  *)
(* half stored, reloaded or hidden by a newer layout before, and whichever *)
(* task of a cancelled or failed calibration is still to run.  The one     *)
(* behaviour left out is the race that pole_pairs_claim shows: a frame     *)
(* that drops the values while such a task is queued.                      *)
(***************************************************************************)
RunsOneMotor == ~overtaken => OneMotor(motor, gains, hall)

(***************************************************************************)
(* The same of the pages, at every moment and for every firmware: if power *)
(* is lost now, the firmware that boots loads one motor's values.  The     *)
(* pages are stored one after the other, and a store may stop in the       *)
(* middle of any of them.  Left out is the same race, which leaves the     *)
(* values of two motors in flash.                                          *)
(***************************************************************************)
LoadsOneMotor ==
  ~overtaken =>
  \A fw \in Firmwares :
    OneMotor(LoadPage(flash, fw, "params"), LoadPage(flash, fw, "gains"), LoadPage(flash, fw, "hall"))

(***************************************************************************)
(* Nothing that differs from flash is forgotten: unless a store was        *)
(* refused, which is a fault, a persist_config is queued or sleeping and   *)
(* will see the values.  A spawn of a task that is spawned already is lost,*)
(* and a task reads its values only when it runs.  Left out is the same    *)
(* race, after which a failed tuning may drop gains that are in flash.     *)
(***************************************************************************)
UnsavedHasTask ==
  ~refused /\ ~overtaken =>
    \/ Queued("persist_config")
    \/ /\ config = LoadPage(flash, firmware, "config")
       /\ motor = LoadPage(flash, firmware, "params")
       /\ gains = LoadPage(flash, firmware, "gains")
       /\ HasHall => hall = LoadPage(flash, firmware, "hall")

(***************************************************************************)
(* A page's current record is the old one or the one a task was to store,  *)
(* never an older one or a torn one, and it is lost only from a page that  *)
(* was full (config.rs: a torn slot is skipped, the full page is erased    *)
(* before it is written).                                                  *)
(***************************************************************************)
OldOrNew ==
  [][\A p \in Pages :
       LET old == Latest(flash[p], NoVersion)
           new == Latest(flash'[p], NoVersion)
       IN  /\ new \subseteq old \cup {RecordOf(Writes(s), p) : s \in {t \in spawned : p \in DOMAIN Writes(t)}}
           /\ old # {} /\ new = {} => Len(flash[p]) = Slots]_vars
=============================================================================
