------------------------------- MODULE AirMouse -------------------------------
(***************************************************************************)
(* The air mouse: a trigger (left button) with a drag lock, a secondary    *)
(* button that clicks the right one for 100 ms, and the motion stream.     *)
(* What only lights the buttons up is left out.                            *)
(***************************************************************************)
EXTENDS Told, Naturals

CONSTANT MaxBacks   \* bound on the pending releases of the secondary button

ASSUME BacksAssumption == MaxBacks \in Nat

VARIABLES
  trigger,     \* the trigger is under a finger
  dragLocked,  \* isDragLocked
  pointing,    \* isPointerActive
  backUps      \* pending releases of the secondary button

airVars == <<trigger, dragLocked, pointing, backUps>>

AirTypeOK ==
  /\ trigger \in BOOLEAN
  /\ dragLocked \in BOOLEAN
  /\ pointing \in BOOLEAN
  /\ backUps \in 0 .. MaxBacks

AirInit == trigger = FALSE /\ dragLocked = FALSE /\ pointing = TRUE /\ backUps = 0

TriggerDown ==
  /\ ~trigger
  /\ trigger' = TRUE
  /\ SendMask({"left"})
  /\ UNCHANGED <<dragLocked, pointing, backUps>>

\* handleLeftUp: the lock keeps the button down.
TriggerUp ==
  /\ trigger
  /\ trigger' = FALSE
  /\ IF dragLocked THEN UNCHANGED toldVars ELSE SendMask({})
  /\ UNCHANGED <<dragLocked, pointing, backUps>>

\* Locking presses the button, unlocking releases it, the trigger held or not.
ToggleDragLock ==
  /\ dragLocked' = ~dragLocked
  /\ SendMask(IF dragLocked THEN {} ELSE {"left"})
  /\ UNCHANGED <<trigger, pointing, backUps>>

\* handleRightClick replaces the mask: a locked drag is dropped.
Back ==
  /\ backUps < MaxBacks
  /\ backUps' = backUps + 1
  /\ SendMask({"right"})
  /\ UNCHANGED <<trigger, dragLocked, pointing>>

BackUp ==
  /\ backUps > 0
  /\ backUps' = backUps - 1
  /\ SendMask({})
  /\ UNCHANGED <<trigger, dragLocked, pointing>>

\* Pausing and resuming restarts the sensor pipeline.
TogglePointer ==
  /\ pointing' = ~pointing
  /\ UNCHANGED <<trigger, dragLocked, backUps, toldVars>>

AirStep == TriggerDown \/ TriggerUp \/ ToggleDragLock \/ Back \/ BackUp \/ TogglePointer

\* Nothing is cleaned up but the sensor pipeline: the releases of the secondary
\* button are sent by a view that is gone.
AirStrays == IF backUps > 0 THEN {{}} ELSE {}

AirUnmount == trigger' = FALSE /\ dragLocked' = FALSE /\ pointing' = TRUE /\ backUps' = 0

AirOwns(b) ==
  \/ b = "left" /\ (trigger \/ dragLocked)
  \/ b = "right" /\ backUps > 0
=============================================================================
