SPECIFICATION Spec
CONSTANTS
  Attempts = {a1, a2}
  MaxPrompts = 2
  Tvs = {t1}
  Typed = t2
  Buttons = {"POWER"}
INVARIANTS ConnectedIsLive OneLink
SYMMETRY Symmetry
CHECK_DEADLOCK FALSE
