CONSTANTS
  Bits = 5
  OverflowChecks = FALSE
  None = None
  Lengths <- AllLengths
  Alignments <- SmallAlignments
  Pages = {None, 2, 4}
  AutoPage = 4
  Bases = {16, 17}
SPECIFICATION ConstructionSpec
INVARIANT GeometriesBuild
CHECK_DEADLOCK FALSE
