\* Two handlers, three Saves of four names and up to two blocks, one crash.
CONSTANTS
  Handlers = {h1, h2}
  Names <- MCNames
  Small = {"a"}
  Fold <- MCFold
  MaxBlocks = 2
  MaxSaves = 3
  MaxCrashes = 1
SPECIFICATION Spec
SYMMETRY Symmetry
INVARIANTS SavedIsKept ListComplete
CHECK_DEADLOCK FALSE
