SPECIFICATION FairSpec
CONSTANTS
  w1 = w1
  t1 = t1
  warpnet = warpnet
  testnet = testnet
  Net = {warpnet, testnet}
  Node = {w1, t1}
  NetOf <- MCNetOf
  Request = {r1, r2}
  None = None
INVARIANTS
  Confined
PROPERTIES
  Heals
