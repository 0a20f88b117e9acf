SPECIFICATION SeqSpec
CONSTANTS
  Threads = {t1, t2}
  MaxOrder = 1
  Width <- MCWidth
  InitPolicy = "Uninit"
  None = None
INVARIANTS Coalesced
