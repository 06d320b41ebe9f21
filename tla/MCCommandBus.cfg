SPECIFICATION Spec
CONSTANTS
  scanner = scanner
  light = light
  s1 = s1
  s2 = s2
  Every = Every
  Nobody = Nobody
  Targets <- MCTargets
  Clients <- MCClients
  Filter <- MCFilter
  Slots <- TwoSlots
  Cap = 2
  MaxSends = 3
INVARIANT ReadsRight
INVARIANT Complete
CHECK_DEADLOCK FALSE
