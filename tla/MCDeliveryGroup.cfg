CONSTANTS
  NameBits = 3
  ElderSize = 4
SPECIFICATION Spec
INVARIANTS
  MatchesReference
  SignatureTargetsClosest
