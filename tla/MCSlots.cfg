CONSTANTS
  Capacity = 4
  DataSize = 2
  Payload <- MCPayload
  SizeOf <- MCSizeOf
  NoData = NoData
SPECIFICATION Spec
INVARIANTS
  TypeOK
  FreeListIntact
  HeldIsOccupied
  OccupiedFits
PROPERTY RefinesPool
