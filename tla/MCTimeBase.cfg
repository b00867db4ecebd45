SPECIFICATION Spec
CONSTANTS
  Callers = {c1, c2, c3}
  HalfRange = 4
  MaxGap = 3
  MaxLag = 3
  MaxClock = 13
SYMMETRY Symmetry
INVARIANTS TypeOK ResultIsCurrent
PROPERTIES NeverStepsBack
