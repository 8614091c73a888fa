\* Test selection alone: no file is collected and none is walked.
SPECIFICATION FrontSpec
CONSTANTS
  Inputs = {}
  ChunkSize = 1
  FanIn = 2
  IdChunk = 2
  MemoryRecords = 2
  MemoryBytes = 3
  Variables <- MCVariables
  Fields <- MCFields
  UnsafeCallNames = {"Wait", "Done"}
  LoggingCallNames = {"Printf"}
  Numeric = {"int"}
  Programs = {}
  Modules <- MCModules
  Fuel = 8
INVARIANT NoFalseSurvived
