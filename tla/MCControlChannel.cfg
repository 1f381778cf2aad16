SPECIFICATION FairSpec
CONSTANTS
  QueueSize = 1
  AckWindow = 3
  Pipeline = 2
  MaxMsgs = 2
  MaxCmds = 3
  MaxStreams = 3
INVARIANTS
  TypeOK
  Accounted
  RunsOnce
PROPERTIES
  ReportsArrive
  CommandsAcked
