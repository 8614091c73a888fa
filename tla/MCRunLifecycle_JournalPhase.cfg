SPECIFICATION Spec
CONSTANTS
  Mutants = 2
  MaxSignals = 1
INVARIANT
  JournalPhase
