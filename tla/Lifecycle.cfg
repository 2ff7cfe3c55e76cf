CONSTANTS
  Proc = {p1, p2, p3}
  MaxCreates = 2
  MaxFaults = 1
  MaxDeaths = 1
SYMMETRY Symmetry
SPECIFICATION Spec
INVARIANTS
  TypeOK
  OpenedWhole
  LeavesNothing
  HalfMadeHasMaker
  WholeOrNothing
