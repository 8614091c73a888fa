SPECIFICATION Spec
CONSTANTS
  Packages = {p1, p2}
  Names = {t1}
  MaxTracked = 2
INVARIANT
  InFlightIsTrusted
