CONSTANTS
  Keys = {k1, k2, k3}
  Targets = {a1, a2}
  GroupSize = 2
  MaxKeys = 2
  MaxOthers = 2
SPECIFICATION Spec
INVARIANTS MergeNeverPanics
