CONSTANTS
  Tasks = {t1, t2}
  Wakers = {w1}
  MaxOrder = 0
  Entries = {e1, e2, e3, e4}
  MaxPops = 2
  MaxConsecutive = 3
  None = None
SYMMETRY Symmetry
SPECIFICATION AsyncSpec
INVARIANTS
  NobodyAbandoned
CHECK_DEADLOCK FALSE
