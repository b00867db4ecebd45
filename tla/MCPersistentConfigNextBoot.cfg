SPECIFICATION Spec
CONSTANTS
  SlotCount = 4
  EmptyNs = none
  Namespaces = {none, robot}
  Calibrations = {k1, k2}
  NoCal = NoCal
  NoConfig = NoConfig
SYMMETRY Symmetry
PROPERTIES NextBootMakesRoom
