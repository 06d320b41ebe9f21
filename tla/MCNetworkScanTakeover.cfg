SPECIFICATION Spec
CONSTANTS
  Gateway = 1
  Marks <- TextMarks
  ScriptKind <- Scripts
  ProductKind <- Products
  VendorOf <- Vendors
  Documented <- NoKeys
  Categorised = {}
  Stations <- TwoStations
  Pool = {2, 4}
  Peers = {}
  GatewayMac_ = "router"
  Switches <- NoMac
  NameOf <- Names
  Advertising <- NoMac
  MatterNodes <- NoNodes
  HubOn = "none"
  MaxInputs = 4
PROPERTY NoneDisappears
CHECK_DEADLOCK FALSE
