SPECIFICATION FairSpec
CONSTANTS
  Tabs = {t1, t2}
  MaxAttempts = 2
INVARIANTS
  TypeOK
  ToldAsItIs
  RetryIsOpen
PROPERTIES
  PageEnds
  WaitRunsDown
