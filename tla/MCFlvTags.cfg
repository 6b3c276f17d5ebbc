SPECIFICATION Spec
CONSTANTS
  Base = 2
  Viewers = {v1, v2}
  Types <- MCTypes
  Deltas <- MCDeltas
  Sizes <- MCSizes
SYMMETRY MCSymmetry
INVARIANTS
  SizesAgree
  TimePasses
