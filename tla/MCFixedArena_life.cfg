SPECIFICATION MCSpec
CONSTANTS
  Owners = {o1, o2, o3}
  Slots = {s1, s2}
  Capacity = 2
  AutoSpill = TRUE
  InitPolicy = "Zero"
  Zero = Zero
  Junk = Junk
  None = None
  MaxHandles = 2
  MaxClones = 2
  MaxHeap = 3
  Clients = {c1, c2}
  Extents = {1, 2}
  MetricsWidth = 16
  NoRegion = NoRegion
  MaxCalls = 4
SYMMETRY Symmetry
CHECK_DEADLOCK FALSE
INVARIANTS SlotsOwned BytesStable SpillKeepsData OutlivesUsers
           SnapshotExact SnapshotBounded
PROPERTIES FreshIsZero
