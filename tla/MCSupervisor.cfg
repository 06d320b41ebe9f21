SPECIFICATION FairSpec
CONSTANTS
  m1 = m1
  m2 = m2
  c1 = c1
  c2 = c2
  Missing = Missing
  Ids <- Two
  KnownIds <- Two
  DeviceIds = {"d"}
  Bodies = {"body"}
  HealthStates = {"Starting", "Ready"}
  MaxBatch = 1
  Managed <- Two
  Outsiders = {}
  Subscribers <- One
  Calls <- OneCall
  MaxStarts = 1
INVARIANT NoFalseAlarm
INVARIANT NoChildSurvives
PROPERTY CrashNoticed
PROPERTY ShutdownEnds
CHECK_DEADLOCK FALSE
