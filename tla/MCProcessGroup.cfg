\* A child with three descendants, and one more piece of output than is kept.
SPECIFICATION GroupFairSpec
CONSTANTS
  MaxProcs = 4
  MaxWrites = 3
  CaptureLimit = 2
INVARIANTS
  JobInv
  NoSurvivor
  WholeOrError
PROPERTY
  Returns
