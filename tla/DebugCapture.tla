----------------------------- MODULE DebugCapture -----------------------------
(***************************************************************************)
(* firmware/src/capture.rs and bandwidth_test.rs: a buffer that the FOC    *)
(* interrupt fills once per tick, that the telemetry task dumps word by    *)
(* word over CAN, and the multisine test that starts a capture itself.     *)
(*                                                                         *)
(* What a record holds is abstracted to the capture that wrote it.         *)
(***************************************************************************)
EXTENDS Integers

CONSTANTS
  CaptureLen,      \* CAPTURE_LEN
  WordsPerRecord,
  WordsPerFrame,
  AlignTicks       \* the ticks of each half of the alignment

ASSUME DebugCaptureAssumption ==
  {CaptureLen, WordsPerRecord, WordsPerFrame, AlignTicks} \subseteq Nat \ {0}

DumpFrames == (CaptureLen * WordsPerRecord + WordsPerFrame - 1) \div WordsPerFrame

NeverWritten == 0
NoCapture ==
  [state |-> "IDLE", index |-> 0, cursor |-> DumpFrames,
   buffer |-> [r \in 0 .. CaptureLen - 1 |-> NeverWritten]]

\* A mutant of StartCapture: a dump in progress goes on.
StartCaptureOnly(c) == [c EXCEPT !.index = 0, !.state = "RECORDING"]

\* start
StartCapture(c) == [c EXCEPT !.index = 0, !.cursor = DumpFrames, !.state = "RECORDING"]

\* record, by the capture with this number
Fills(c) == c.state = "RECORDING" /\ c.index + 1 = CaptureLen
Record(c, number) ==
  IF c.state # "RECORDING" THEN c
  ELSE [c EXCEPT !.buffer[c.index] = number,
                 !.index = IF Fills(c) THEN @ ELSE @ + 1,
                 !.state = IF Fills(c) THEN "FULL" ELSE @]

\* A mutant of RequestDump: the capture need not be full.
RequestDumpAnytime(c) == [c EXCEPT !.cursor = 0]

\* request_dump
RequestDump(c) == IF c.state = "FULL" THEN [c EXCEPT !.cursor = 0] ELSE c

\* next_dump_frame: the captures whose words a frame carries; padding carries none
Dumping(c) == c.cursor < DumpFrames
Words(c) ==
  {c.buffer[w \div WordsPerRecord] :
     w \in {v \in c.cursor * WordsPerFrame .. (c.cursor + 1) * WordsPerFrame - 1 :
              v \div WordsPerRecord < CaptureLen}}

-----------------------------------------------------------------------------
\* The bandwidth test
NoTest == [state |-> "IDLE", tick |-> 0]
Arm(t) == [t EXCEPT !.state = "ARMED"]

\* multisine_torque: without a live setpoint or a torque constant a running test ends
AlignEnds(t) == t.state = "ALIGN" /\ t.tick > 2 * AlignTicks
TestStep(t, live) ==
  CASE ~live -> IF t.state = "RUNNING" THEN [t EXCEPT !.state = "IDLE"] ELSE t
    [] live /\ t.state = "ARMED" -> [state |-> "ALIGN", tick |-> 0]
    [] live /\ t.state = "ALIGN" ->
         IF AlignEnds(t) THEN [state |-> "RUNNING", tick |-> 0] ELSE [t EXCEPT !.tick = @ + 1]
    [] OTHER -> t

\* finish, on the tick that fills the buffer
Finish(t) == IF t.state = "RUNNING" THEN [t EXCEPT !.state = "IDLE"] ELSE t
=============================================================================
