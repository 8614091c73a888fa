\* Runs of one and two candidates, two runs per merge: seven candidates make
\* three levels, and more runs at the end than one merge takes.
SPECIFICATION FrontSpec
CONSTANTS
  Inputs <- MCInputs
  ChunkSize = 1
  FanIn = 2
  IdChunk = 2
  MemoryRecords = 2
  MemoryBytes = 3
  Variables <- MCVariables
  Fields <- MCFields
  UnsafeCallNames = {"Wait", "Done"}
  LoggingCallNames = {"Printf"}
  Numeric = {"int"}
  Programs <- MCPrograms
  Modules <- MCModules
  Fuel = 8
INVARIANTS
  DiscoveryInv
  NoTempLeft
  SameAsInMemory
  EquivalentIsEquivalent
  MutantsEnd
  MutantsCompile
  NoDuplicateRuns
  NarrowingKeepsVerdict
