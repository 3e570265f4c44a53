SPECIFICATION Spec
CONSTANTS
  Stream = {k1, k2}
  MaxSymbols = 1
  None = None
CHECK_DEADLOCK FALSE
SYMMETRY StreamSymmetry
INVARIANT DisconnectedCloses
