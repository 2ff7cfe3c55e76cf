CONSTANTS
  Proc = {"p1", "p2", "p3"}
  Key = {"k1", "k2", "k3", "k4"}
  Capacity = 3
  MaxFit = 1
  BaseLen = 2
  WordMax = 7
  Scenarios <- MCScenarios
  Preload <- OneRecord
  NoProc = NoProc
SPECIFICATION FairSpec
INVARIANTS
  TypeOK
  SettledIntact
  PublishedComplete
  WritersExclusive
  FindWhole
  NeverWild
PROPERTIES
  RefinesStore
  CallsReturn
