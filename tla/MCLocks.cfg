CONSTANTS
  UnknownDevice = TRUE
  Nobody = Nobody
SPECIFICATION Spec
INVARIANTS NobodyStuck
PROPERTIES EveryCallReturns
