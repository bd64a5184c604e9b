---------------------------- MODULE GyroCalibration ----------------------------
(***************************************************************************)
(* The gyroscope tab of the settings and its calibration dialog.  The tab  *)
(* makes a BiasCalibrator and an ImuSensorPipeline of its own; the dialog  *)
(* awaits the permission prompt and then a calibration, and can be aborted *)
(* or closed during either.  A bias is a number, 0 the missing one.        *)
(***************************************************************************)
EXTENDS Naturals

CONSTANTS
  Biases,      \* biases a calibration may measure
  Full,        \* samples of a calibration, 120 in the dialog
  MaxPrompts   \* bound on the prompts awaiting an answer, and on the orphans

ASSUME CalibrationAssumption ==
  Biases \subseteq Nat \ {0} /\ Full \in Nat \ {0} /\ MaxPrompts \in Nat

VARIABLES
  tab,        \* the gyroscope tab is mounted
  modal,      \* the dialog is open
  step,       \* what the dialog shows
  prompts,    \* handleStartCalibration calls that await the permission
  status,     \* the calibrator: "idle", "calibrating", "calibrated", "failed"
  listening,  \* its listener is bound to the pipeline
  pipeline,   \* the pipeline listens to devicemotion
  samples,    \* how many samples it has, Full at the most
  moved,      \* one of them was taken of a moving phone
  bias,       \* the calibrator's bias
  stored,     \* the bias in localStorage
  orphans,    \* prompts and calibrations that outlived their tab
  overtaken,  \* an orphan stored its bias after the tab had last done so
  unsaved     \* what the tab last did to the bias was not stored

dialogVars == <<modal, step, prompts>>
calibratorVars == <<status, listening, samples, moved, bias>>
orphanVars == <<orphans, overtaken, unsaved>>
calibrationVars == <<tab, dialogVars, calibratorVars, pipeline, stored, orphanVars>>

CalibrationTypeOK ==
  /\ tab \in BOOLEAN /\ modal \in BOOLEAN
  /\ step \in {"intro", "calibrating", "success", "error"}
  /\ prompts \in 0 .. MaxPrompts
  /\ status \in {"idle", "calibrating", "calibrated", "failed"}
  /\ listening \in BOOLEAN /\ pipeline \in BOOLEAN /\ moved \in BOOLEAN
  /\ samples \in 0 .. Full
  /\ bias \in Biases \cup {0} /\ stored \in Biases \cup {0}
  /\ orphans \in 0 .. MaxPrompts /\ overtaken \in BOOLEAN /\ unsaved \in BOOLEAN

CalibrationInit ==
  /\ tab = FALSE /\ modal = FALSE /\ step = "intro" /\ prompts = 0
  /\ status = "idle" /\ listening = FALSE /\ pipeline = FALSE
  /\ samples = 0 /\ moved = FALSE
  /\ bias = 0 /\ stored \in Biases \cup {0}
  /\ orphans = 0 /\ overtaken = FALSE /\ unsaved = FALSE

Rested(b) == IF b = 0 THEN "idle" ELSE "calibrated"

\* A calibrator of its own, loaded from storage, and a pipeline that is not started.
OpenTab ==
  /\ ~tab
  /\ tab' = TRUE
  /\ bias' = stored /\ status' = Rested(stored)
  /\ pipeline' = FALSE /\ samples' = 0 /\ moved' = FALSE
  /\ overtaken' = FALSE /\ unsaved' = FALSE
  /\ UNCHANGED <<dialogVars, listening, stored, orphans>>

\* cancelCalibration; whoever awaited the calibration gets an error to show.
Cancel ==
  /\ listening' = FALSE /\ samples' = 0
  /\ status' = IF status = "calibrating" THEN Rested(bias) ELSE status
  /\ UNCHANGED <<moved, bias>>

\* The dialog's step once it is cancelled: the rejection comes last.
Rejected(shown) == IF listening THEN "error" ELSE shown

\* Another tab, or the settings closed by Escape, which closes the dialog as well.
\* A tab that goes away neither cancels a calibration nor stops the pipeline: what
\* the dialog's effect does not cancel goes on, an orphan, with its own calibrator.
CloseTab ==
  /\ tab
  /\ tab' = FALSE /\ modal' = FALSE /\ step' = "intro"
  /\ orphans' = orphans + prompts + (IF listening /\ ~modal THEN 1 ELSE 0)
  /\ orphans' <= MaxPrompts
  /\ prompts' = 0 /\ listening' = FALSE /\ samples' = 0 /\ moved' = FALSE
  /\ bias' = 0 /\ status' = "idle" /\ pipeline' = FALSE
  /\ overtaken' = FALSE /\ unsaved' = FALSE
  /\ UNCHANGED stored

\* An orphan comes to its end: its calibrator stores the bias, unless the sensor
\* stayed silent, the phone moved or the write is refused.
OrphanEnds(b) ==
  /\ orphans > 0 /\ orphans' = orphans - 1
  /\ \/ stored' = b /\ overtaken' = tab
     \/ UNCHANGED <<stored, overtaken>>
  /\ UNCHANGED <<tab, dialogVars, calibratorVars, pipeline, unsaved>>

OpenModal ==
  /\ tab /\ ~modal
  /\ modal' = TRUE /\ step' = "intro"
  /\ UNCHANGED <<tab, prompts, calibratorVars, pipeline, stored, orphanVars>>

\* handleStartCalibration, up to the permission prompt.
StartCalibration ==
  /\ modal /\ step \in {"intro", "error"}
  /\ prompts < MaxPrompts
  /\ prompts' = prompts + 1 /\ step' = "calibrating"
  /\ UNCHANGED <<tab, modal, calibratorVars, pipeline, stored, orphanVars>>

\* ... and from its answer on, which is not looked at, nor is the dialog: the
\* pipeline is started unless it was denied, and startCalibration cancels the one
\* before, whose error is then shown.
Answered(granted) ==
  /\ prompts > 0
  /\ prompts' = prompts - 1
  /\ pipeline' = (pipeline \/ granted)
  /\ status' = "calibrating" /\ listening' = TRUE
  /\ samples' = 0 /\ moved' = FALSE
  /\ step' = Rejected(step)
  /\ UNCHANGED <<tab, modal, bias, stored, orphanVars>>

\* Mutant: the bias is not stored, and no error is to blame.
RecordNothing(b) == UNCHANGED <<stored, overtaken, unsaved>>

\* saveToStorage, or removeItem for no bias: if it is refused, nobody hears of it.
Record(b) ==
  \/ stored' = b /\ overtaken' = FALSE /\ unsaved' = FALSE
  \/ unsaved' = TRUE /\ UNCHANGED <<stored, overtaken>>

\* Mutant: whoever awaits the calibration is told nothing.
FinishAnyway(still, b) ==
  bias' = b /\ status' = "calibrated" /\ Record(b) /\ UNCHANGED step

\* finishCalibration: a phone that moved has its calibration fail, and the bias stays.
Finish(still, b) ==
  IF still
  THEN bias' = b /\ status' = "calibrated" /\ step' = "success" /\ Record(b)
  ELSE status' = "failed" /\ step' = "error" /\ UNCHANGED <<bias, stored, overtaken, unsaved>>

\* accumulateSample, unless the calibrator was reset meanwhile.
MotionEvent(still, b) ==
  /\ pipeline /\ listening /\ status = "calibrating"
  /\ samples' = samples + 1
  /\ moved' = (moved \/ ~still)
  /\ IF samples' = Full
     THEN listening' = FALSE /\ Finish(~moved', b)
     ELSE UNCHANGED <<listening, status, bias, stored, step, overtaken, unsaved>>
  /\ UNCHANGED <<tab, modal, prompts, pipeline, orphans>>

\* handleCancel, and DONE, whose effect cancels too.
CloseModal ==
  /\ modal
  /\ modal' = FALSE /\ step' = Rejected(step)
  /\ Cancel
  /\ UNCHANGED <<tab, prompts, pipeline, stored, orphanVars>>

\* ABORT leaves a prompt that is still open alone.
Abort ==
  /\ modal /\ step = "calibrating"
  /\ step' = Rejected("intro")
  /\ Cancel
  /\ UNCHANGED <<tab, modal, prompts, pipeline, stored, orphanVars>>

\* RESET of the tab: clearBias, the calibrator calibrating or not.
ClearBias ==
  /\ tab /\ ~modal
  /\ bias' = 0 /\ status' = "idle" /\ Record(0)
  /\ UNCHANGED <<tab, dialogVars, listening, samples, moved, pipeline, orphans>>

CalibrationStep ==
  \/ OpenTab \/ CloseTab \/ OpenModal \/ CloseModal \/ StartCalibration \/ Abort \/ ClearBias
  \/ \E granted \in BOOLEAN : Answered(granted)
  \/ \E still \in BOOLEAN, b \in Biases : MotionEvent(still, b)
  \/ \E b \in Biases : OrphanEnds(b)

-----------------------------------------------------------------------------

\* A dialog that shows progress has a prompt or a calibration behind it, through
\* aborts, retries, overlapping prompts and failures.
ProgressIsReal == modal /\ step = "calibrating" => prompts > 0 \/ listening

\* What the tab calls the bias is what the next start of the app will load, unless
\* storing it was refused or a calibration of an earlier tab has ended in between: the
\* failures, aborts and resets of the dialog leave the two alike.
BiasIsStored == tab => bias = stored \/ overtaken \/ unsaved
=============================================================================
