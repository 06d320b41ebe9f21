SPECIFICATION FairSpec
CONSTANTS
  lamp = lamp
  motion = motion
  r1 = r1
  r2 = r2
  Nobody = Nobody
  Lights <- OneLight
  Sensors <- OneSensor
  Requests <- OneRequest
  MaxOrders = 2
  MaxMoves = 1
  MaxFaults = 1
  MaxStarts = 2
  MaxInputs = 3
INVARIANT PairingTold
PROPERTY Converges
PROPERTY PollReturns
CHECK_DEADLOCK FALSE
