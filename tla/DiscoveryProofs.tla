--------------------------- MODULE DiscoveryProofs ---------------------------
(***************************************************************************)
(* Proofs about Discovery: the composition keeps the promises of both its  *)
(* parts, and what the Docker provider does not expose is never routed.    *)
(***************************************************************************)
EXTENDS Discovery, RegistryProofs

-----------------------------------------------------------------------------
(* The inductive invariant.                                                *)

(* What the Docker provider works with.                                    *)
ProviderTypes ==
  /\ self \in Selves
  /\ kind \in [Container -> Kinds]
  /\ running \subseteq Container
  /\ snapshot \subseteq Container

ModeAccepted == loop \notin {"start", "failed"} => Docker!Effective \in Docker!ValidModes

EligibleConfig(x) == \E c \in Container : Eligible(c) /\ x = Docker!ConfigOf(c)

(* The call of the Docker provider builds servers for eligible containers. *)
WantedEligible ==
  rpc # "idle" /\ target = "docker" => \A x \in wanted : EligibleConfig(x)

DiscoveryInv ==
  /\ ProviderTypes
  /\ ModeAccepted
  /\ WantedEligible
  /\ OnlyEligibleContainersRouted

-----------------------------------------------------------------------------
(* What the steps leave alone.                                             *)

LEMMA DockerRulesStay ==
  ASSUME [DiscoveryNext]_allVars
  PROVE  /\ UNCHANGED <<mode, self, kind>>
         /\ Docker!Effective' = Docker!Effective
         /\ \A x : EligibleConfig(x)' <=> EligibleConfig(x)
  <1>1. UNCHANGED <<mode, self, kind>>
    BY DEF DiscoveryNext, StaticRun, HandOver, DockerStep, Containers, RegistryStep,
         allVars, dockerVars, Docker!HandleContainerList, Docker!CheckExposeMode,
         Docker!ContainerList, Docker!ContainerListFails, Docker!OwnContainerMissing,
         Docker!Subscribe, Docker!SubscribeFails, Docker!HandleEvent, Docker!StreamBreaks,
         Docker!SleepEnds, Docker!Restart, Docker!ContainerStarts, Docker!ContainerEnds
  <1>2. Docker!Effective' = Docker!Effective
    BY <1>1 DEF Docker!Effective
  <1>3. \A x : EligibleConfig(x)' <=> EligibleConfig(x)
    BY <1>1 DEF EligibleConfig, Eligible, Docker!Exposable, Docker!Usable, Docker!UsableAs,
         Docker!ConfigOf, Docker!ConfigAs, Docker!Ip, Docker!Port, Docker!Network
  <1> QED BY <1>1, <1>2, <1>3

(* Whatever is handed over is the configuration of an eligible container.  *)
LEMMA HandedOverEligible ==
  ASSUME ProviderTypes, ModeAccepted, loop = "apply", ~Docker!OwnMissing(snapshot),
         NEW failed, NEW x \in Docker!Configs(snapshot, failed)
  PROVE  EligibleConfig(x) /\ x \in Config
  <1>1. PICK c \in snapshot : ~Docker!Ignored(c) /\ Docker!Usable(c) /\ x = Docker!ConfigOf(c)
    BY DEF Docker!Configs
  <1>2. c \in Container /\ kind[c] \in Kinds
    BY DEF ProviderTypes
  <1>3. Docker!Exposable(c)
    <2>1. Docker!Effective \in Docker!ValidModes
      BY DEF ModeAccepted
    <2> USE DEF Docker!Effective, Docker!ValidModes, Docker!Ignored, Docker!Exposable
    <2>2. CASE mode \in {"", "all", "manual"}
      BY <1>1, <2>2
    <2>3. CASE mode = "same_project"
      <3>1. kind[c].enable # "false" => self \in snapshot
        BY <2>3 DEF Docker!OwnMissing
      <3>2. self \in snapshot => self # None
        BY ProvidersAssumption DEF ProviderTypes
      <3> QED BY <1>1, <2>3, <3>1, <3>2
    <2> QED BY <2>1, <2>2, <2>3
  <1>4. x \in Config
    BY <1>1, <1>2, ProvidersAssumption DEF Docker!Usable, Docker!ConfigOf
  <1> QED BY <1>1, <1>2, <1>3, <1>4 DEF EligibleConfig, Eligible

-----------------------------------------------------------------------------
(* The parts.                                                              *)

(* Every step is a step of the registry, or none of its business.          *)
LEMMA StepRegistry ==
  ASSUME ProviderTypes, ModeAccepted, [DiscoveryNext]_allVars
  PROVE  [Next]_vars
  <1>1. CASE StaticRun
    BY <1>1, ProvidersAssumption DEF StaticRun, Next
  <1>2. CASE HandOver
    <2>1. PICK failed \in SUBSET snapshot :
            ReplaceServers("docker", Docker!Configs(snapshot, failed))
      BY <1>2 DEF HandOver
    <2>2. Docker!Configs(snapshot, failed) \subseteq Config
      BY <1>2, HandedOverEligible DEF HandOver
    <2> QED BY <2>1, <2>2, ProvidersAssumption DEF Next
  <1>3. CASE DockerStep \/ Containers
    BY <1>3 DEF DockerStep, Containers, registryVars
  <1>4. CASE RegistryStep
    BY <1>4 DEF RegistryStep, Next
  <1>5. CASE UNCHANGED allVars
    BY <1>5 DEF allVars, registryVars
  <1> QED BY <1>1, <1>2, <1>3, <1>4, <1>5 DEF DiscoveryNext

(* Every step is a step of the Docker provider, or none of its business.   *)
LEMMA StepDocker ==
  ASSUME TypeOK, [DiscoveryNext]_allVars
  PROVE  [Docker!Next]_(Docker!vars)
  <1>0. requested \in [Provider -> SUBSET Config] /\ {"static", "docker"} \subseteq Provider
    BY ProvidersAssumption DEF TypeOK
  <1>1. CASE StaticRun
    <2>1. requested'["docker"] = requested["docker"]
      BY <1>0, <1>1 DEF StaticRun, ReplaceServers
    <2> QED BY <1>1, <2>1 DEF StaticRun, dockerVars, Docker!vars, Docker!provider
  <1>2. CASE HandOver
    BY <1>2 DEF HandOver, Docker!Next, Docker!ProviderStep
  <1>3. CASE DockerStep
    BY <1>3 DEF DockerStep, Docker!Next, Docker!ProviderStep
  <1>4. CASE Containers
    BY <1>4 DEF Containers, Docker!Next
  <1>5. CASE RegistryStep
    <2>1. requested' = requested
      BY <1>5, WatcherFrame DEF RegistryStep, CallStep, TestCancel, StopWatching,
         RemoveFromServices, NewUpstream, ReplaceDone, history, WatcherStep, Redeployment
    <2> QED BY <1>5, <2>1 DEF RegistryStep, dockerVars, Docker!vars, Docker!provider
  <1>6. CASE UNCHANGED allVars
    BY <1>6 DEF allVars, registryVars, vars, history, dockerVars, Docker!vars, Docker!provider
  <1> QED BY <1>1, <1>2, <1>3, <1>4, <1>5, <1>6 DEF DiscoveryNext

-----------------------------------------------------------------------------
(* The invariant.                                                          *)

LEMMA StepProviderTypes ==
  ASSUME ProviderTypes, [DiscoveryNext]_allVars
  PROVE  ProviderTypes'
  BY DEF ProviderTypes, DiscoveryNext, StaticRun, HandOver, DockerStep, Containers,
     RegistryStep, allVars, dockerVars, Docker!HandleContainerList, Docker!CheckExposeMode,
     Docker!ContainerList, Docker!ContainerListFails, Docker!OwnContainerMissing,
     Docker!Subscribe, Docker!SubscribeFails, Docker!HandleEvent, Docker!StreamBreaks,
     Docker!SleepEnds, Docker!Restart, Docker!ContainerStarts, Docker!ContainerEnds

LEMMA StepModeAccepted ==
  ASSUME ModeAccepted, [DiscoveryNext]_allVars
  PROVE  ModeAccepted'
  <1>1. CASE DockerStep /\ Docker!CheckExposeMode
    BY <1>1, DockerRulesStay DEF Docker!CheckExposeMode, Docker!Goto, ModeAccepted,
       Docker!ValidModes
  <1>2. CASE ~Docker!CheckExposeMode
    <2>1. loop \in {"start", "failed"} => loop' \in {"start", "failed"}
      BY <1>2 DEF DiscoveryNext, StaticRun, HandOver, DockerStep, Containers, RegistryStep,
         allVars, dockerVars, Docker!Goto, Docker!ContainerList, Docker!ContainerListFails,
         Docker!OwnContainerMissing, Docker!Subscribe, Docker!SubscribeFails,
         Docker!HandleEvent, Docker!StreamBreaks, Docker!SleepEnds, Docker!Restart,
         Docker!ContainerStarts, Docker!ContainerEnds
    <2> QED BY <2>1, DockerRulesStay DEF ModeAccepted, Docker!ValidModes
  <1>3. Docker!CheckExposeMode => DockerStep
    BY DEF DiscoveryNext, StaticRun, HandOver, Containers, RegistryStep, allVars, dockerVars,
       Docker!CheckExposeMode, Docker!Goto, Docker!ContainerStarts, Docker!ContainerEnds
  <1> QED BY <1>1, <1>2, <1>3

LEMMA StepEligible ==
  ASSUME DiscoveryInv, IInv, IInv', [DiscoveryNext]_allVars
  PROVE  WantedEligible' /\ OnlyEligibleContainersRouted'
  <1> DEFINE Routed_(u) == owner[u] = "docker" => EligibleConfig(config[u])
  <1>0. /\ \A u \in Upstream : Routed_(u)
        /\ OnlyEligibleContainersRouted' <=> \A u \in Upstream : Routed_(u)'
        /\ \A x : EligibleConfig(x)' <=> EligibleConfig(x)
    BY DockerRulesStay DEF DiscoveryInv, OnlyEligibleContainersRouted, EligibleConfig
  <1>1. CASE StaticRun
    <2>1. target' = "static" /\ UNCHANGED <<owner, config>>
      BY <1>1 DEF StaticRun, ReplaceServers, serverVars
    <2> QED BY <1>0, <2>1 DEF WantedEligible
  <1>2. CASE HandOver
    <2>1. \A x \in wanted' : EligibleConfig(x)
      BY <1>2, HandedOverEligible DEF HandOver, ReplaceServers, DiscoveryInv
    <2>2. UNCHANGED <<owner, config>>
      BY <1>2 DEF HandOver, ReplaceServers, serverVars
    <2> QED BY <1>0, <2>1, <2>2 DEF WantedEligible
  <1>3. CASE \E c \in Config, v \in Upstream : NewUpstream(c, v)
    <2>1. PICK c \in Config, v \in Upstream : NewUpstream(c, v)
      BY <1>3
    <2>2. UNCHANGED <<rpc, target, wanted>> /\ rpc # "idle" /\ c \in wanted
      BY <2>1 DEF NewUpstream
    <2>3. \A u \in Upstream :
            IF u = v THEN owner'[u] = target /\ config'[u] = c
                     ELSE owner'[u] = owner[u] /\ config'[u] = config[u]
      BY <2>1 DEF NewUpstream, IInv, TypeOK
    <2>4. \A u \in Upstream : Routed_(u)'
      BY <1>0, <2>2, <2>3 DEF DiscoveryInv, WantedEligible
    <2> QED BY <1>0, <2>2, <2>4 DEF DiscoveryInv, WantedEligible
  <1>4. CASE UNCHANGED <<owner, config>> /\ (rpc' = "idle" \/ UNCHANGED <<target, wanted>>)
             /\ (rpc' # "idle" => rpc # "idle")
    BY <1>0, <1>4 DEF DiscoveryInv, WantedEligible
  <1>5. RegistryStep => <1>3!1 \/ <1>4!1
    BY WatcherFrame DEF RegistryStep, CallStep, TestCancel, StopWatching, RemoveFromServices,
       ReplaceDone, WatcherStep, Redeployment, serverVars, callVars
  <1>6. DockerStep \/ Containers \/ UNCHANGED allVars => <1>4!1
    BY DEF DockerStep, Containers, allVars, registryVars, vars, serverVars, callVars
  <1> QED BY <1>1, <1>2, <1>3, <1>4, <1>5, <1>6 DEF DiscoveryNext

-----------------------------------------------------------------------------
(* The theorems.                                                           *)

LEMMA InitDiscoveryInv == DiscoveryInit => DiscoveryInv
  <1> SUFFICES ASSUME DiscoveryInit PROVE DiscoveryInv
    OBVIOUS
  <1>1. ProviderTypes /\ ModeAccepted
    BY DEF DiscoveryInit, Docker!Init, ProviderTypes, ModeAccepted
  <1>2. WantedEligible
    BY DEF DiscoveryInit, Init, WantedEligible
  <1>3. OnlyEligibleContainersRouted
    <2>1. \A u \in Upstream : owner[u] # "docker"
      BY ConstantsAssumption, ProvidersAssumption
      DEF DiscoveryInit, Init
    <2> QED BY <2>1 DEF OnlyEligibleContainersRouted
  <1> QED BY <1>1, <1>2, <1>3 DEF DiscoveryInv

LEMMA StepDiscoveryInv ==
  IInv /\ DiscoveryInv /\ [DiscoveryNext]_allVars => (IInv /\ DiscoveryInv)'
  <1> SUFFICES ASSUME IInv, DiscoveryInv, [DiscoveryNext]_allVars
               PROVE  IInv' /\ DiscoveryInv'
    OBVIOUS
  <1>1. ProviderTypes /\ ModeAccepted
    BY DEF DiscoveryInv
  <1>2. IInv'
    BY <1>1, StepRegistry, StepIInv
  <1>3. ProviderTypes' /\ ModeAccepted'
    BY <1>1, StepProviderTypes, StepModeAccepted
  <1>4. WantedEligible' /\ OnlyEligibleContainersRouted'
    BY <1>2, StepEligible
  <1> QED BY <1>2, <1>3, <1>4 DEF DiscoveryInv

(* The inductive invariants of the registry and of the composition hold of *)
(* every state the two providers and the registry reach together.          *)
THEOREM DiscoveryInvariance == DiscoverySpec => [](IInv /\ DiscoveryInv)
  <1>1. DiscoveryInit => IInv /\ DiscoveryInv
    BY InitIInv, InitDiscoveryInv DEF DiscoveryInit
  <1> QED BY <1>1, StepDiscoveryInv, PTL DEF DiscoverySpec

(* Seen from the registry, the providers are two callers of ReplaceServers *)
(* with arguments it expects: whatever is proved about Spec holds of the   *)
(* composition.                                                            *)
THEOREM DiscoveryIsRegistry == DiscoverySpec => Spec
  <1>1. DiscoveryInit => Init
    BY DEF DiscoveryInit
  <1>2. IInv /\ DiscoveryInv /\ [DiscoveryNext]_allVars => [Next]_vars
    BY StepRegistry DEF DiscoveryInv
  <1> QED BY <1>1, <1>2, DiscoveryInvariance, PTL DEF DiscoverySpec, Spec

(* With the providers of main.go in place, the routes of every listed      *)
(* server are the whole of its last report.                                *)
THEOREM RoutesCorrectWithProviders == DiscoverySpec => []RoutesAreLastReport
  BY DiscoveryIsRegistry, RoutesCorrect, PTL

(* Seen from the Docker provider, the proxy holds the list it was given    *)
(* last, whatever the static provider and the watchers do meanwhile.       *)
THEOREM DiscoveryIsDocker == DiscoverySpec => ImplementsDocker
  <1>1. DiscoveryInit => Docker!Init
    BY DEF DiscoveryInit
  <1>2. IInv /\ DiscoveryInv /\ [DiscoveryNext]_allVars => [Docker!Next]_(Docker!vars)
    BY StepDocker DEF IInv
  <1> QED BY <1>1, <1>2, DiscoveryInvariance, PTL
      DEF DiscoverySpec, ImplementsDocker, Docker!Spec

(* Every upstream of the Docker provider has the configuration of a        *)
(* container that the rules expose and that has a network and a port,      *)
(* though maybe no address in that network.                                *)
THEOREM OnlyEligibleRouted == DiscoverySpec => []OnlyEligibleContainersRouted
  <1>1. DiscoveryInv => OnlyEligibleContainersRouted
    BY DEF DiscoveryInv
  <1> QED BY <1>1, DiscoveryInvariance, PTL

-----------------------------------------------------------------------------
(* From the containers to the routes.  The provider's view of the          *)
(* containers is what DockerProofs proves of it, and the registry's list   *)
(* of servers is what RegistryProofs proves; between them is that a        *)
(* watcher which waits has registered a report.                            *)

View == INSTANCE DockerProofs WITH pc <- loop, servers <- requested["docker"]

WatchedHaveReported ==
  \A u \in Upstream : pc[u] = "watch" => applied[u] \in Replies

LEMMA StepWatchedHaveReported ==
  ASSUME IInv, WatchedHaveReported, [Next]_vars
  PROVE  WatchedHaveReported'
  <1> SUFFICES ASSUME NEW u \in Upstream, pc'[u] = "watch"
               PROVE  applied'[u] \in Replies
    BY DEF WatchedHaveReported
  <1>1. CASE ReplaceServices(u)
    BY <1>1 DEF ReplaceServices, Goto, IInv, TypeOK, WatchersConsistent
  <1>2. CASE ~ReplaceServices(u)
    <2>1. pc[u] = "watch"
      <3>1. CASE WatcherStep(u)
        BY <1>2, <3>1 DEF WatcherStep, OwnStep, Fetch, StreamBreaks, WatcherStarts,
           ReflectClient, ResolveSymbols, CheckContext, NoticeDisconnect, TimerFires,
           NoticeCancel, ListServices, ListServicesFails, Return, Goto, IInv, TypeOK
      <3>2. CASE \E w \in Upstream \ {u} : WatcherStep(w)
        BY <3>2, WatcherLocal DEF IInv
      <3>3. CASE ~\E w \in Upstream : WatcherStep(w)
        BY <3>3 DEF Next, CallStep, WatcherStep, ReplaceServers, TestCancel, StopWatching,
           RemoveFromServices, NewUpstream, ReplaceDone, Redeploy, vars, watchVars, IInv, TypeOK
      <3> QED BY <3>1, <3>2, <3>3
    <2>2. applied'[u] = applied[u]
      BY <1>2, RouteStep DEF IInv
    <2> QED BY <2>1, <2>2 DEF WatchedHaveReported
  <1> QED BY <1>1, <1>2

(* Both instances of Docker are the same.                                  *)
LEMMA ViewIsDocker ==
  /\ View!Init <=> Docker!Init
  /\ [View!Next]_(View!vars) <=> [Docker!Next]_(Docker!vars)
  <1>1. View!Init <=> Docker!Init
    BY DEF View!Init, Docker!Init
  <1>2. View!vars = Docker!vars /\ View!vars' = Docker!vars'
    BY DEF View!vars, Docker!vars, View!provider, Docker!provider
  <1>3. \A list : View!OwnMissing(list) <=> Docker!OwnMissing(list)
    BY DEF View!OwnMissing, Docker!OwnMissing, View!Effective, Docker!Effective
  <1>4. View!HandleContainerList <=> Docker!HandleContainerList
    BY <1>3
    DEF View!HandleContainerList, Docker!HandleContainerList, View!Goto, Docker!Goto,
        View!Configs, Docker!Configs, View!Ignored, Docker!Ignored, View!Effective,
        Docker!Effective, View!Usable, Docker!Usable, View!UsableAs, Docker!UsableAs,
        View!ConfigOf, Docker!ConfigOf, View!ConfigAs, Docker!ConfigAs, View!Ip, Docker!Ip,
        View!Port, Docker!Port, View!Network, Docker!Network
  <1>5. View!ProviderStep <=> Docker!ProviderStep
    BY <1>3, <1>4
    DEF View!ProviderStep, Docker!ProviderStep, View!CheckExposeMode,
        Docker!CheckExposeMode, View!ContainerList, Docker!ContainerList,
        View!ContainerListFails, Docker!ContainerListFails, View!OwnContainerMissing,
        Docker!OwnContainerMissing, View!Subscribe, Docker!Subscribe, View!SubscribeFails,
        Docker!SubscribeFails, View!HandleEvent, Docker!HandleEvent, View!StreamBreaks,
        Docker!StreamBreaks, View!SleepEnds, Docker!SleepEnds, View!Restart, Docker!Restart,
        View!Goto, Docker!Goto, View!GiveUp, Docker!GiveUp, View!Unsubscribe,
        Docker!Unsubscribe, View!Relevant, Docker!Relevant, View!Effective,
        Docker!Effective, View!ValidModes, Docker!ValidModes
  <1>6. \A c : (View!ContainerStarts(c) \/ View!ContainerEnds(c))
                  <=> (Docker!ContainerStarts(c) \/ Docker!ContainerEnds(c))
    BY DEF View!ContainerStarts, Docker!ContainerStarts, View!ContainerEnds,
        Docker!ContainerEnds, View!Announce, Docker!Announce
  <1>7. View!Next <=> Docker!Next
    BY <1>5, <1>6 DEF View!Next, Docker!Next
  <1> QED BY <1>1, <1>2, <1>7

(* Both hold of every reachable state.                                     *)
LEMMA ViewInvariance == DiscoverySpec => [](View!IInv /\ WatchedHaveReported)
  <1>1. DiscoveryInit => View!IInv /\ WatchedHaveReported
    <2>1. DiscoveryInit => View!IInv
      BY View!InitIInv, ViewIsDocker, ProvidersAssumption DEF DiscoveryInit
    <2>2. DiscoveryInit => WatchedHaveReported
      BY DEF DiscoveryInit, Init, WatchedHaveReported
    <2> QED BY <2>1, <2>2
  <1>2. View!IInv /\ WatchedHaveReported /\ IInv /\ DiscoveryInv /\ [DiscoveryNext]_allVars
          => (View!IInv /\ WatchedHaveReported)'
    <2> SUFFICES ASSUME View!IInv, WatchedHaveReported, IInv, DiscoveryInv,
                        [DiscoveryNext]_allVars
                 PROVE  View!IInv' /\ WatchedHaveReported'
      OBVIOUS
    <2>1. View!IInv'
      BY View!StepIInv, ViewIsDocker, StepDocker, ProvidersAssumption DEF IInv
    <2>2. WatchedHaveReported'
      BY StepRegistry, StepWatchedHaveReported DEF DiscoveryInv
    <2> QED BY <2>1, <2>2
  <1> QED BY <1>1, <1>2, DiscoveryInvariance, PTL DEF DiscoverySpec

(* At rest, with every change of the containers seen, the routes are those *)
(* of the running containers that the rules expose, that could be          *)
(* inspected, and that have a network and a port: each has a server with a *)
(* whole report in the service map, and no other has a route, except       *)
(* through a server that a cleanup failed to stop or one that reported a   *)
(* name twice.                                                             *)
THEOREM ContainersAreRouted == DiscoverySpec => []RoutesMatchContainers
  <1>1. IInv /\ DiscoveryInv /\ View!IInv /\ WatchedHaveReported => RoutesMatchContainers
    <2> SUFFICES ASSUME IInv, DiscoveryInv, View!IInv, WatchedHaveReported, Quiet, ~missed
                 PROVE  RoutesMatchContainers
      BY DEF RoutesMatchContainers
    <2> DEFINE exposed == {Docker!ConfigOf(c) : c \in {d \in running \ skipped : Eligible(d)}}
               mine == {u \in Upstream : owner[u] = "docker"}
    <2>1. requested["docker"] = exposed
      <3>1. requested["docker"] = View!Wanted
        BY DEF View!IInv, View!ViewCurrent, View!Announced, Quiet
      <3>2. View!Wanted = exposed
        BY DEF View!Wanted, Eligible, View!Exposable, Docker!Exposable, View!Usable,
           Docker!Usable, View!UsableAs, Docker!UsableAs, View!ConfigOf, Docker!ConfigOf,
           View!ConfigAs, Docker!ConfigAs, View!Ip, Docker!Ip, View!Port, Docker!Port,
           View!Network, Docker!Network
      <3> QED BY <3>1, <3>2
    <2>2. rpc = "idle" /\ target = None /\ victim = None /\ Members("docker") = servers["docker"]
      BY DEF Quiet, IInv, CallConsistent, TypeOK, Cleaning, Members
    <2>3. {config[u] : u \in servers["docker"]} = exposed
      BY <2>1, <2>2, ConstantsAssumption, ProvidersAssumption DEF IInv, CallConsistent
    <2> HIDE DEF exposed
    <2>4. ASSUME NEW x \in exposed \cap Reachable
          PROVE  \E u \in mine : Kept(u) /\ config[u] = x /\ Column(u) \in Replies
      <3>1. PICK u \in servers["docker"] : config[u] = x
        BY <2>3, <2>4
      <3>2. u \in mine /\ Kept(u)
        BY <2>2, <3>1, ProvidersAssumption DEF IInv, TypeOK, MembersOwned, Kept
      <3>3. pc[u] = "watch"
        <4>1. u # victim
          BY <2>2, <3>2, ConstantsAssumption
        <4> QED BY <2>4, <3>1, <3>2, <4>1
            DEF Quiet, Kept, Created, IInv, KeptServersAreWatched
      <3>4. Column(u) \in Replies
        BY <3>2, <3>3 DEF WatchedHaveReported, IInv, RoutesAreLastReport
      <3> QED BY <3>1, <3>2, <3>4
    <2>5. ASSUME NEW u \in mine, Routed(u)
          PROVE  config[u] \in exposed \/ u \in escaped \/ \E s \in Service : applied[u][s] > 1
      <3>1. CASE Kept(u)
        BY <2>2, <2>3, <3>1 DEF Kept
      <3>2. CASE ~Kept(u)
        BY <2>5, <3>2, LingerInv DEF OnlyEscapedServersLinger
      <3> QED BY <3>1, <3>2
    <2> QED BY <2>4, <2>5 DEF RoutesMatchContainers, exposed
  <1> QED BY <1>1, DiscoveryInvariance, ViewInvariance, PTL
=============================================================================
