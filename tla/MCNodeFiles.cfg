SPECIFICATION FilesFairSpec
CONSTANTS
  MaxIssued = 4
  MaxVersion = 3
  MaxFaults = 3
INVARIANT CrashSafe
PROPERTIES
  
  DueIsRenewed
CHECK_DEADLOCK FALSE
