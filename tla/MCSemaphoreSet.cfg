CONSTANTS
  Proc = {"p1", "p2", "p3"}
  Creator = "p1"
  NumRecords = 1025
  StripeSize = 1024
  Word16 = 65536
  Positions <- StripeEnds
SPECIFICATION FairSpec
INVARIANTS
  TypeOK
  MutualExclusion
  NoneLost
PROPERTY WaitsEnd
CHECK_DEADLOCK FALSE
