CONSTANTS
  Tasks = {t1, t2}
  Wakers = {w1}
  MaxOrder = 1
  Entries = {e1, e2, e3}
  MaxPops = 2
  MaxConsecutive = 1
  None = None
  Callers = {t1, t2, t3}
  Nodes = {n1, n2}
  SlotCount = 1
  Null = Null
SYMMETRY Symmetry
SPECIFICATION MCSpec
INVARIANTS
  SenderTakenOnce
  CountMatches
  SleepersQueued
  EntriesKept
  WokenArePolled
  OneThreadNobodyOverslept
  OnlyHiddenAbandoned
