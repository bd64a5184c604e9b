SPECIFICATION Spec
CONSTANTS
  Pointers = {p1, p2}
  Face = {"A", "B"}
  Directions = {"up"}
  AimModes = {"hold_lt", "toggle"}
  MaxClicks = 1
  MaxWaiting = 1
SYMMETRY Symmetry
INVARIANTS TypeOK HeldHasFinger AimFollowsTrigger
CHECK_DEADLOCK FALSE
