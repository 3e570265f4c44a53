SPECIFICATION FairSpec
CONSTANTS
  a1 = a1  a2 = a2  b1 = b1  b2 = b2  c = c
  S = S  T = T  M = M  N = N  R = R
  File <- FilesOf
  Path <- PathNames
  Symbol <- SymbolNames
  Extension <- Numbers
  PathOf <- FilePaths
  Imports <- FileImports
  Declares <- FileSymbols
  Messages <- FileMessages
  Extends <- FileExtends
  Nested <- FileNested
  NestedExtends <- FileInside
  ReflectionNames = {R}
  Reports <- UpstreamReports
  None = None
INVARIANTS
  TypeOK
  ImportsArrive
  PromisesAreKept
  AnswersMatchRequests
PROPERTY EveryRequestAnswered
