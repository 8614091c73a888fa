\* Three jobs record at once; a branch takes two changes after its baseline.
SPECIFICATION Spec
CONSTANTS
  Ids = {1, 2, 3}
  shiftFingerprint <- MCFingerprint
  Jobs <- MCJobs
  LogInputs <- MCLogInputs
  GateInputs <- MCGateInputs
  Options <- MCOptions
CHECK_DEADLOCK FALSE
INVARIANTS
  LogInv
  NoSilentGap
  OwnReportsAccepted
  RegressionIsVisible
  GatingIsTransitive
  BucketsAreHonest
