SPECIFICATION PatientSpec
CONSTANTS
  lamp = lamp
  motion = motion
  r1 = r1
  r2 = r2
  Nobody = Nobody
  Lights <- OneLight
  Sensors = {}
  Requests <- OneRequest
  MaxOrders = 1
  MaxMoves = 0
  MaxFaults = 0
  MaxStarts = 1
  MaxInputs = 2
PROPERTY PollReturns
CHECK_DEADLOCK FALSE
