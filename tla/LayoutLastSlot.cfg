CONSTANTS
  Capacities <- MCCapacities
  RecordSizes <- MCRecordSizes
SPECIFICATION Spec
INVARIANT SlotsMapped
CHECK_DEADLOCK FALSE
