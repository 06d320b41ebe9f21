SPECIFICATION Spec
CONSTANTS
  Gateway = 1
  Marks <- TextMarks
  ScriptKind <- Scripts
  ProductKind <- Products
  VendorOf <- Vendors
  Documented <- DocumentedDevices
  Categorised = {}
  Stations <- TwoStations
  Pool = {2, 4}
  Peers = {3}
  GatewayMac_ = "router"
  Switches <- OneSwitch
  NameOf <- Names
  Advertising <- OneStation
  MatterNodes <- Nodes
  HubOn = "laptop"
  MaxInputs = 3
INVARIANTS ScanComplete MatterPlaced
PROPERTIES NoDuplicates ActiveIsSeen RecordsKept NeverDowngraded LifeSpec
CHECK_DEADLOCK FALSE
