SPECIFICATION FairSpec
CONSTANTS
  d1 = d1
  d2 = d2
  i1 = i1
  i2 = i2
  Broken = Broken
  None = None
  Devices <- Two
  Ids <- TwoIds
  Documented <- One
  SeedId <- Seeds
  Demo = {}
  Sweeps <- MCSweeps
  MaxStarts = 2
  MaxFaults = 1
  MaxEdits = 1
INVARIANT RequestKept
INVARIANT Settled
INVARIANT ForgottenStaysAway
PROPERTY CommandsServed
PROPERTY FileRepaired
CHECK_DEADLOCK FALSE
