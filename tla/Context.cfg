SPECIFICATION FairSpec
CONSTANTS
  game = game
  desk = desk
  gamepad = gamepad
  trackpad = trackpad
  Windows = {game, desk}
  tv = tv
  Modes = {gamepad, trackpad}
  PhoneModes = {gamepad, trackpad, tv}
  Match <- MCMatch
  TrayModes = {gamepad, trackpad}
  Default = trackpad
  Debounce = 2
  Channels = {c1}
  Lossy = TRUE
  None = None
INVARIANTS PriorityHeld AnnouncedIsInForce
PROPERTY ForegroundWins
