----------------------------- MODULE Discovery -----------------------------
(***************************************************************************)
(* The providers and the registry together, as cmd/proxy/main.go starts    *)
(* them: the Docker provider (module Docker) and the static provider call  *)
(* ReplaceServers of one Proxy (module Registry).                          *)
(*                                                                         *)
(* The two modules meet in ReplaceServers.  What Docker remembers as the   *)
(* last argument of the call is what Registry remembers as requested.  The *)
(* goroutine of a provider is in the call until it returns: rpc tells      *)
(* whether a call is running, target whose it is, and while it is the      *)
(* Docker provider's own, that provider takes no step.  A call that finds  *)
(* serverMutex held waits.  Docker's containers, the watchers and the      *)
(* upstreams go on all the time.                                           *)
(***************************************************************************)
EXTENDS Registry

CONSTANTS
  StaticServers,    \* the servers of the configuration file
  Container, Selves, Kinds, Modes, ExposedProjects, DefaultNetwork, MaxEvents

VARIABLES
  started,          \* the static provider has made its call
  mode, self, kind, running, events, subscribed, loop, initial, snapshot,
  missed, skipped   \* the variables of Docker; its pc is loop

dockerVars == <<mode, self, kind, running, events, subscribed, loop, initial,
                snapshot, missed, skipped>>
registryVars == vars
allVars == <<registryVars, started, dockerVars>>

Docker == INSTANCE Docker WITH pc <- loop, servers <- requested["docker"]

(* Config has every configuration that a provider may ask for.             *)
ASSUME ProvidersAssumption ==
  /\ {"static", "docker"} \subseteq Provider
  /\ StaticServers \subseteq Config
  /\ \A c \in Container, k \in Kinds :
       Docker!UsableAs(c, k) => Docker!ConfigAs(c, k) \in Config
  /\ Selves \subseteq Container \cup {None}
  /\ None \notin Container
  /\ MaxEvents \in Nat

-----------------------------------------------------------------------------

DiscoveryInit == Init /\ started = FALSE /\ Docker!Init

(* Mistake: both providers use the same name.                              *)
StaticRun_SameName ==
  /\ ~started
  /\ started' = TRUE
  /\ ReplaceServers("docker", StaticServers)
  /\ UNCHANGED dockerVars

(* Static.Run: one call, and then nothing but waiting for the context.     *)
StaticRun ==
  /\ ~started
  /\ started' = TRUE
  /\ ReplaceServers("static", StaticServers)
  /\ UNCHANGED dockerVars

(* Mistake: all listed containers are handed over.                         *)
HandOver_Unfiltered ==
  /\ loop = "apply" /\ ~Docker!OwnMissing(snapshot)
  /\ ReplaceServers("docker", {Docker!ConfigOf(c) : c \in snapshot})
  /\ loop' = IF initial THEN "subscribe" ELSE "events"
  /\ snapshot' = {}
  /\ skipped' = {}
  /\ UNCHANGED <<started, mode, self, kind, running, events, subscribed, initial, missed>>

(* Mistake: a list without servers is not worth a call.                    *)
HandOver_NotEmpty ==
  /\ loop = "apply" /\ ~Docker!OwnMissing(snapshot)
  /\ \E failed \in SUBSET snapshot :
       LET W == Docker!Configs(snapshot, failed)
       IN IF W # {} THEN ReplaceServers("docker", W)
                    ELSE UNCHANGED registryVars
  /\ loop' = IF initial THEN "subscribe" ELSE "events"
  /\ snapshot' = {}
  /\ skipped' = {}
  /\ UNCHANGED <<started, mode, self, kind, running, events, subscribed, initial, missed>>

(* The list of containers is handed over: handleContainerList enters       *)
(* ReplaceServers.                                                         *)
HandOver ==
  /\ loop = "apply" /\ ~Docker!OwnMissing(snapshot)
  /\ \E failed \in SUBSET snapshot :
       ReplaceServers("docker", Docker!Configs(snapshot, failed))
  /\ Docker!HandleContainerList
  /\ UNCHANGED started

InCall(p) == rpc # "idle" /\ target = p

(* Every other step of the Docker provider.                                *)
DockerStep ==
  /\ UNCHANGED <<registryVars, started>>
  /\ ~InCall("docker")
  /\ \/ Docker!CheckExposeMode
     \/ Docker!ContainerList \/ Docker!ContainerListFails
     \/ Docker!OwnContainerMissing
     \/ Docker!Subscribe \/ Docker!SubscribeFails
     \/ Docker!HandleEvent \/ Docker!StreamBreaks
     \/ Docker!SleepEnds \/ Docker!Restart

Containers ==
  /\ UNCHANGED <<registryVars, started>>
  /\ \E c \in Container : Docker!ContainerStarts(c) \/ Docker!ContainerEnds(c)

RegistryStep ==
  /\ \/ CallStep
     \/ \E u \in Upstream : OwnStep(u) \/ Fetch(u) \/ StreamBreaks(u)
     \/ \E c \in Reachable, r \in Replies : Redeploy(c, r)
  /\ UNCHANGED <<started, dockerVars>>

DiscoveryNext == StaticRun \/ HandOver \/ DockerStep \/ Containers \/ RegistryStep

DiscoverySpec == DiscoveryInit /\ [][DiscoveryNext]_allVars

-----------------------------------------------------------------------------
(* Properties.                                                             *)

(* What Docker's rules expose, with a network and a port to connect to.    *)
Eligible(c) == Docker!Exposable(c) /\ Docker!Usable(c)

(* Whatever the goroutines interleave, every upstream of the provider has  *)
(* the configuration of a container that the rules expose and that has a   *)
(* network and a port.  (Its address in that network may be empty.)        *)
OnlyEligibleContainersRouted ==
  \A u \in Upstream : owner[u] = "docker" =>
    \E c \in Container : Eligible(c) /\ config[u] = Docker!ConfigOf(c)

(* Nothing is left to do: the provider waits for events and has none, the  *)
(* call has returned, every watcher waits on an intact stream or is gone.  *)
Quiet ==
  /\ loop = "events" /\ events = <<>>
  /\ rpc = "idle"
  /\ \A u \in Upstream : \/ pc[u] \in {"none", "done"}
                         \/ pc[u] = "watch" /\ stream[u] /\ ~cancelled[u]

(* From the containers to the routes: at rest, unless a change fell into a *)
(* gap of the event stream, every running container that the rules expose  *)
(* and whose inspection gave a network and a port has a server, and if     *)
(* that answers at all, its routes are a whole list that it reported; and  *)
(* no other container has a route, except through a server that a cleanup  *)
(* failed to stop, or one that reported a name twice.                      *)
RoutesMatchContainers ==
  Quiet /\ ~missed =>
    LET exposed == {Docker!ConfigOf(c) : c \in {d \in running \ skipped : Eligible(d)}}
        mine == {u \in Upstream : owner[u] = "docker"}
    IN /\ \A x \in exposed \cap Reachable :
            \E u \in mine : Kept(u) /\ config[u] = x /\ Column(u) \in Replies
       /\ \A u \in mine : Routed(u) =>
            \/ config[u] \in exposed
            \/ u \in escaped
            \/ \E s \in Service : applied[u][s] > 1

(* Seen from Docker, the proxy keeps the list it was given last: neither   *)
(* the static provider nor a watcher changes it, and no step of the        *)
(* provider depends on how far the registry has come with it.              *)
ImplementsDocker == Docker!Spec
=============================================================================
