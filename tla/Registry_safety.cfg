SPECIFICATION Spec
CONSTANTS
  s1 = s1  s2 = s2
  Provider = {static, docker}
  Config = {c1, c2}
  BadConfig = {c2}
  Service = {s1, s2}
  Upstream = {u1, u2}
  None = None
  Replies <- OddReplies
SYMMETRY Symmetric
INVARIANTS
  IInv
  TypeOK
  ServersMatchRequest
  RoutesAreLastReport
  KeptServersAreWatched
  OnlyEscapedServersLinger
  OnlyRefusedServersPanic
PROPERTIES
  UnchangedServersStay
  ImplementsTable
