SPECIFICATION Spec
CONSTANTS
  s1 = s1  s2 = s2
  Provider = {static}
  Config = {c1}
  BadConfig = {}
  Service = {s1, s2}
  Upstream = {u1, u2}
  None = None
  Replies <- TwoReplies
INVARIANT NoUnknownServer
