SPECIFICATION FairSpec
CONSTANTS
  s1 = s1  s2 = s2
  Provider = {static}
  Config = {c1, c2}
  BadConfig = {c2}
  Service = {s1, s2}
  Upstream = {u1}
  None = None
  Replies <- AllReplies
PROPERTIES
  ListedServersRegister
  CancelledWatchersReturn
  RefetchConverges
