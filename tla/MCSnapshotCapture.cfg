SPECIFICATION FairSpec
CONSTANTS
  N = 4
  ChunksOf <- MCChunks
  Absent0 = {3}
  Link0 = {2}
  Retyped = {2}
  CopyWorkers = {1, 2}
  QueueCap = 1
  MaxEdits = 2
  Unwritable = {1, 2}
INVARIANTS
  PreparedIsAMoment
  CopyInv
  CauseNotEcho
PROPERTY
  Termination
