SPECIFICATION FairSpec
CONSTANTS
  MaxReconnectAttempts = 2
  MaxSocketAttempts = 1
  MaxTimers = 2
CHECK_DEADLOCK FALSE
INVARIANT TypeOK
INVARIANT ClosedForGood
INVARIANT GivesUpLate
INVARIANT OpenIsUsed
PROPERTY ChannelComesBack
