SPECIFICATION FairSpec
CONSTANTS
  s1 = s1
  s2 = s2
  r1 = r1
  gw = gw
  Worker = Worker
  Heartbeat = Heartbeat
  Nobody = Nobody
  Sockets <- TwoSockets
  Requests <- OneRequest
  Gateways <- OneGateway
  Configured = {"a"}
  Ignored = {"b"}
  Messages <- SomeMessages
  Window = 2
  LogSize = 2
  MaxTime = 2
  MaxInputs = 3
  MaxFaults = 1
INVARIANT WindowExact
INVARIANT BatteryKept
INVARIANT SupervisorCurrent
INVARIANT SessionsRight
PROPERTY Drained
CHECK_DEADLOCK FALSE
