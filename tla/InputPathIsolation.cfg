SPECIFICATION Spec
CONSTANTS
  N = 2
  Reports <- MCReports
  Neutral = Neutral
  NoReport = NoReport
  k1 = k1
  Held = Held
  Keys = {k1}
  Buttons <- MCButtons
  Left = Left
  Timeout = 1
  c1 = c1
  c2 = c2
  Channels = {c1, c2}
  Peers = {}
  Fallback = {}
  SlotOf <- TwoSlots
  Packets <- PadPresses
  QueueCap = 1
  MonitorTask = MonitorTask
  Callers = {c1, c2}
  Threads = {c1, c2, MonitorTask}
INVARIANTS ArmedUntilOneEnds TypeOK LatestIsShown PadsOfOpenedSlots
CHECK_DEADLOCK FALSE
