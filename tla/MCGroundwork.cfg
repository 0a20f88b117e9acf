SPECIFICATION MCSpec
CONSTANTS
  None = None
  Threads = {t1, t2, t3}
  SlotCount = 3
  BitsPerWord = 2
  ScanWords = 2
  Owners = {o1, o2}
  RangeSlots = 6
  Bits = 5
  OverflowChecks = FALSE
  Lengths <- AllLengths
  Alignments <- SmallAlignments
  Pages = {None, 2, 4}
  AutoPage = 4
  Bases = {16, 17}
SYMMETRY Symmetry
INVARIANTS
  TypeOK
  SlotsPartitioned
  RangesExact
  ExtentsInside
  ReleasedOnce
  CallersMemory
  PagesTouched
  GeometryLeast
  CarvedLargest
  RefusalsJustified
  RequestsFit
PROPERTY NoneIsHonest
