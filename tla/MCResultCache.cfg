SPECIFICATION Spec
CONSTANTS
  Jobs = {j1, j2}
  Snapshots = {s1, s2}
  Outside = {none, x}
  NoOutside = none
  MaxRounds = 2
SYMMETRY Symmetry
INVARIANTS
  HitIsFresh
  EvidenceInv
PROPERTY
  EntryIsKept
