CONSTANTS
  Proc = {"p1", "p2"}
  Key = {"k1", "k2", "k3", "k4"}
  Capacity = 3
  MaxFit = 1
  BaseLen = 2
  WordMax = 7
  Scenarios <- SameInsert
  Preload <- OneRecord
  NoProc = NoProc
SPECIFICATION Spec
INVARIANTS
  KeysUnique
