SPECIFICATION StateSpec
CONSTANTS
  m1 = m1
  m2 = m2
  stranger = stranger
  d1 = d1
  d2 = d2
  Missing = Missing
  Ids <- MCIds
  KnownIds <- MCKnownIds
  DeviceIds <- MCDeviceIds
  Bodies = {"old", "new"}
  HealthStates = {"Starting", "Ready"}
  MaxBatch = 2
SYMMETRY Symmetry
INVARIANT InventoryConsistent
PROPERTY OneOwnerChanges
