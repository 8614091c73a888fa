\* A window of two and five mutants: the window slides and the ring wraps.
SPECIFICATION FairSpec
CONSTANTS
  Count = 5
  Workers = {w1, w2}
  WindowFactor = 1
INVARIANTS
  IInv
  SendNeverBlocks
PROPERTIES
  ImplementsResultLog
  Termination
  Replenish
