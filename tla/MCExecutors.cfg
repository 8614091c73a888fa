\* Fewer workers than mutants: every worker is handed work more than once.
SPECIFICATION ExecutorsFairSpec
CONSTANTS
  Count = 5
  WorkerLimit = 2
INVARIANTS
  ExecutorsInv
PROPERTIES
  ImplementsAnyExperiment
  ExecutorsTermination
