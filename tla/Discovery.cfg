SPECIFICATION DiscoverySpec
CONSTANTS
  n1 = n1  s1 = s1
  Provider = {"static", "docker"}
  Config <- Configs
  BadConfig = {}
  Service = {s1}
  Upstream = {u1, u2}
  None = None
  Replies <- OneReply
  StaticServers <- FileServers
  Container = {a}
  Selves = {None}
  Kinds <- AllKinds
  Modes = {"manual", "same_project"}
  ExposedProjects = {}
  DefaultNetwork = n1
  MaxEvents = 2
SYMMETRY Symmetric
INVARIANTS
  OnlyEligibleContainersRouted
  RoutesMatchContainers
PROPERTY ImplementsDocker
