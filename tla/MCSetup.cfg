SPECIFICATION SetupSpec
CONSTANTS
  robot = robot
  rover = rover
  SlotCount = 4
  EmptyNs = none
  Namespaces = {none, robot, rover}
  Calibrations = {k1, k2}
  NoCal = NoCal
  NoConfig = NoConfig
SYMMETRY Symmetry
INVARIANTS SetupTypeOK CacheIsFlash ProgramsErasedFlash SilentBootKeepsNamespace
PROPERTIES NamespaceKept ImplementsConfigStore
