\* Two signals: the second arrives while the first is handled.
SPECIFICATION FairSpec
CONSTANTS
  Mutants = 2
  MaxSignals = 2
INVARIANTS
  LifecycleInv
  GateOnlyComplete
  NothingLeft
PROPERTY
  SignalEndsRun
