SPECIFICATION Spec
CONSTANTS
  Keys = {"A", "CTRL"}
  Modifiers = {"CTRL"}
  Buttons = {"left", "right"}
  MaxTaps = 2
  Fingers = {f1, f2}
  MaxClicks = 1
  MaxBacks = 1
SYMMETRY Symmetry
INVARIANTS ButtonsAreOwned RepeatIsHeld KeysComeUp
CHECK_DEADLOCK FALSE
