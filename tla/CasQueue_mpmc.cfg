SPECIFICATION FairSpec
CONSTANTS
  Producers = {p1, p2}
  Consumers = {c1, c2}
  Size = 4
  IdxMod = 8
  MaxOps = 2
INVARIANTS LengthAccounting
PROPERTIES CallsReturn
