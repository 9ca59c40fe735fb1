CONSTANTS
  e1 = e1  e2 = e2  e3 = e3  p1 = p1  u1 = u1  u2 = u2  t1 = t1  t2 = t2  t3 = t3
  Elders <- MCElders
  Peers <- MCPeers
  UserIds <- MCUserIds2
  Tokens <- MCTokens
  MaxVersion = 2
  Threshold = 2
  MaxDirect = 1
SPECIFICATION Spec
SYMMETRY Symm
PROPERTIES ImplementsAdultRouting

CHECK_DEADLOCK FALSE
