SPECIFICATION MCSpec
CONSTANTS
  Tasks = {t1, t2, t3}
  Slots = {s1, s2}
  None = None
  BitmapThreads = {b1, b2, b3}
  Owners = {o1, o2}
  RawSlots = {r1, r2}
  Zero = Zero
  Junk = Junk
CHECK_DEADLOCK FALSE
INVARIANTS CountMatches NobodyOverslept RawSlotsOwned
PROPERTIES Linearizable OnlyWinnersDelay MemoryReturned AwaitEnds
