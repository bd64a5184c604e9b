SPECIFICATION Spec
CONSTANTS
  Pointers = {p1, p2}
  Face = {"A", "B"}
  Directions = {}
  AimModes = {"hold_lt", "toggle"}
  MaxClicks = 1
  MaxWaiting = 1
PROPERTY HeldUntilLifted
CHECK_DEADLOCK FALSE
