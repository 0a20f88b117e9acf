CONSTANTS
  Callers = {t1, t2, t3}
  Nodes = {n1, n2, n3}
  SlotCount = 1
  Null = Null
SYMMETRY Symmetry
SPECIFICATION StackSpec
INVARIANTS
  NobodyLeftParked
