SPECIFICATION Spec
CONSTANTS
  N = 1
  Reports <- MCReports
  Neutral = Neutral
  NoReport = NoReport
  k1 = k1
  Held = Held
  Keys = {k1}
  Buttons <- MCButtons
  Left = Left
  Timeout = 1
  c1 = c1
  c2 = c2
  Channels = {c1}
  Peers = {}
  Fallback = {}
  SlotOf <- OneSlot
  Packets <- KeyPackets
  QueueCap = 1
  MonitorTask = MonitorTask
  Callers = {c1}
  Threads = {c1, MonitorTask}
INVARIANT DisconnectReleases
CHECK_DEADLOCK FALSE
