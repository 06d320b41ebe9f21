SPECIFICATION Spec
CONSTANTS
  m1 = m1
  m2 = m2
  c1 = c1
  c2 = c2
  Missing = Missing
  Ids <- One
  KnownIds <- One
  DeviceIds = {"d"}
  Bodies = {"body"}
  HealthStates = {"Starting", "Ready"}
  MaxBatch = 1
  Managed <- One
  Outsiders <- One
  Subscribers <- One
  Calls <- TwoCalls
  MaxStarts = 2
PROPERTY DeadStaysDead
 
SYMMETRY Symmetry
CHECK_DEADLOCK FALSE
