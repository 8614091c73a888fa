\* Two packages with two tests of the same names; maps that hold two entries.
SPECIFICATION Spec
CONSTANTS
  Packages = {p1, p2}
  Names = {t1, t2}
  MaxTracked = 2
INVARIANTS
  FaithfulVerdict
  ReaderInv
  SelfKillNotScored
SYMMETRY Symmetry
