SPECIFICATION SeqSpec
CONSTANTS
  Threads = {t1, t2}
  MaxOrder = 2
  Width <- MCWidth
  InitPolicy = "Zero"
  None = None
SYMMETRY Symmetry
INVARIANTS BlocksPartitioned BlocksCounted SequentialCoalesced
PROPERTIES FullIsHonest FreshIsZero HandsOutRegions
