CONSTANTS
  Proc = {"p1", "p2"}
  Key <- MCKey
  HashOf <- MCHashOf
  Position = {0, 1}
  Capacity = 3
  NoNode = NoNode
  NoProc = NoProc
  Scenarios <- Interrupted
SPECIFICATION Spec
CONSTRAINT Asked
INVARIANT NodesSettled
