CONSTANTS
  Tasks = {t1, t2, t3}
  Wakers = {w1}
  MaxOrder = 0
  Entries = {e1, e2, e3}
  MaxPops = 2
  MaxConsecutive = 2
  None = None
SYMMETRY Symmetry
SPECIFICATION Spec
INVARIANTS
  SleepersVisible
