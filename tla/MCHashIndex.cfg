\* A process that ran off the nodes holds the lock for good; CallsReturn says
\* that nothing else stops.
CHECK_DEADLOCK FALSE
CONSTANTS
  Proc = {"p1", "p2"}
  Key <- MCKey
  HashOf <- MCHashOf
  Position = {0, 1}
  Capacity = 3
  NoNode = NoNode
  NoProc = NoProc
  Scenarios <- MCScenarios
SPECIFICATION FairSpec
INVARIANTS
  TypeOK
  ChainsSound
  NodesSettled
  NeverWild
PROPERTIES
  RefinesMap
  CallsReturn
