SPECIFICATION WSpec
CONSTANTS
  Producers = {p1}
  Consumers = {c1}
  Size = 4
  IdxMod = 8
  MaxOps = 11
PROPERTIES ImplementsFifo RefusalsWereReal
