CONSTANTS
  r1 = r1
  r2 = r2
  r3 = r3
  f1 = f1
  w1 = w1
  Readers = {r1, r2, r3}
  Refreshers = {f1}
  Warmers = {w1}
  Free = Free
  Nothing = Nothing
  Tries = 2
  MaxVersion = 1
  MaxFaults = 1
  MaxEvictions = 1
  MaxLosses = 1
SPECIFICATION Spec
SYMMETRY Symmetry
INVARIANTS TypeOK Excluded NoStampede
PROPERTY NeverOlder
CHECK_DEADLOCK FALSE
