SPECIFICATION FairSpec
CONSTANTS
  n1 = n1  n2 = n2  own = own  other = other
  Container = {a, b}
  Selves = {a, None}
  Kinds <- AllKinds
  Modes <- AllModes
  ExposedProjects = {other}
  DefaultNetwork = n1
  MaxEvents = 3
  None = None
INVARIANTS
  TypeOK
  OnlyExposableServers
  UpToDateWhenIdle
PROPERTY ComesBack
