SPECIFICATION FairSpec
CONSTANTS
  Stream = {k1, k2}
  MaxSymbols = 2
  None = None
CHECK_DEADLOCK FALSE
INVARIANTS
  TypeOK
  ResponsesMatchRequests
  OnlyErrorsAreDropped
  QuietDisconnectsAreSafe
PROPERTIES
  FetchesEnd
  BreaksAreNoticed
