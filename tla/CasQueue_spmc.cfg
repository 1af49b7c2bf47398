SPECIFICATION SSpec
CONSTANTS
  Producers = {p1}
  Consumers = {c1, c2}
  Size = 4
  IdxMod = 1024
  MaxOps = 6
SYMMETRY Symmetry
INVARIANTS Fifo NoOverrun PublishedIsWritten RoundsUp

