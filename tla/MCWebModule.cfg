SPECIFICATION MCSpec
SYMMETRY Symmetry
CONSTANTS
  A = A
  B = B
  c1 = c1
  c2 = c2
  Calls <- TwoCalls
  Names <- TwoNames
  NoRoom = NoRoom
  Slug <- Slugs
  Keys = {"strip"}
  BridgeLights = {"strip"}
  DefaultKeys = {"strip"}
  Groups = {"g"}
  DefaultGroup = "g"
  DefaultRoom = A
  Items = {"pm", "PM", "q"}
  Norm <- Norms
  HostOf <- Hosts
  NoHost = "none"
  Net <- Records
  Devices <- StripAndBulb
  Lamps = {"ip"}
  NoIp = "noip"
  Levels = {0}
  Kelvins = {1500}
  Scenes = {"night", "cinema", "all_off"}
  Members <- Both
  MaxWire = 2
  MaxInputs = 3
INVARIANT RoomsNamed
INVARIANT StoresSaved
INVARIANT DeletedStays
INVARIANT LinksKept
INVARIANT BleAgrees
INVARIANT NothingHidden
INVARIANT CacheAgrees
INVARIANT SceneApplied
