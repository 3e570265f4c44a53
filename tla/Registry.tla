------------------------------ MODULE Registry ------------------------------
(***************************************************************************)
(* The core of the proxy: the list of upstream servers that providers      *)
(* replace (proxy/servers.go), one service watcher goroutine per upstream  *)
(* (proxy/services.go), and the service map that requests are routed by.   *)
(*                                                                         *)
(* Three kinds of process interleave here.                                 *)
(*   - A provider calls ReplaceServers.  The call holds serverMutex from   *)
(*     beginning to end, so at most one is in progress; rpc is its control *)
(*     state.  It releases nothing while it cancels watchers and edits the *)
(*     service map, but watchers run between its steps.                    *)
(*   - watchServices runs once per upstream; pc[u] is where it is.         *)
(*   - The upstream processes themselves, which are redeployed with other  *)
(*     services and whose reflection streams break.                        *)
(*                                                                         *)
(* A slice of the service map is a bag here: pool[s][u] counts the entries *)
(* of u in services[s].servers.  Their order matters only to findServer    *)
(* and is the subject of module RoundRobin.  The reflection client is      *)
(* represented by what watchServices can see of it (the result of a fetch, *)
(* and whether the channel of Disconnected is closed); its own goroutines  *)
(* are the subject of module ReflectionClient.                             *)
(***************************************************************************)
EXTENDS Naturals, FiniteSets

CONSTANTS
  Provider,     \* names of the providers ("static", "docker")
  Config,       \* upstream configurations (address and TLS options)
  BadConfig,    \* those whose address grpc.NewClient refuses
  Service,      \* service names
  Upstream,     \* identities of upstreamServer objects: a bound on newUpstream
  Replies,      \* the service lists an upstream may report
  None          \* the value of a field that is not set

ASSUME ConstantsAssumption ==
  /\ BadConfig \subseteq Config
  /\ Replies \subseteq [Service -> Nat]
  /\ Replies # {}
  /\ None \notin Config
  /\ None \notin Provider
  /\ None \notin Upstream

VARIABLES
  \* Proxy.servers, and the fields of each upstreamServer
  servers,      \* servers[p]: the upstreams of provider p
  config,       \* config[u]: its configuration, None until it is created
  owner,        \* owner[u]: the provider it was created for
  armed,        \* armed[u]: stopServiceWatcher is not nil
  \* the ReplaceServers call that holds serverMutex
  rpc,          \* "idle", "sweep", "stop", "remove" or "panicked"
  target,       \* its provider argument
  wanted,       \* the keys of shouldBuildConfigs
  drop,         \* old servers it has still to clean up
  victim,       \* the server cleanupServer is working on
  fresh,        \* newServers
  \* Proxy.services
  names,        \* the keys of the map
  pool,         \* pool[s][u]: entries of u in services[s].servers
  \* the watchers
  pc,           \* pc[u]: where watchServices is
  cancelled,    \* cancelled[u]: its context is done
  info,         \* info[u]: the services of the last fetch
  stream,       \* stream[u]: the channel of Disconnected() is open
  \* the upstream processes
  offer,        \* offer[c]: what the process at c serves now, for a usable c
  \* history variables, read by properties only
  applied,      \* applied[u]: the last list passed to replaceServices
  requested,    \* requested[p]: the last list passed to ReplaceServers
  escaped       \* upstreams whose cleanup did not stop their watcher in time

callVars    == <<rpc, target, wanted, drop, victim, fresh>>
serverVars  == <<servers, config, owner>>
serviceVars == <<names, pool>>
watchVars   == <<pc, cancelled, armed, info, stream>>
history     == <<applied, requested, escaped>>
vars == <<serverVars, callVars, serviceVars, watchVars, offer, history>>

-----------------------------------------------------------------------------

NoRoutes == [s \in Service |-> 0]

(* Mistake: the index is not compared with -1.                             *)
Withdrawn_Unchecked(r) == [s \in Service |-> r[s] - 1]

(* What cleanupServer leaves of an upstream's entries: in every service it *)
(* finds one index of the server and removes that one.                     *)
Withdrawn(r) == [s \in Service |-> IF r[s] = 0 THEN 0 ELSE r[s] - 1]

(* The entries of one upstream over all services.                          *)
Column(u) == [s \in Service |-> pool[s][u]]

SetColumn(u, r) == pool' = [s \in Service |-> [pool[s] EXCEPT ![u] = r[s]]]

Created(u) == pc[u] # "none"

PC == {"none", "spawned", "connect", "list", "retry", "resolve", "check",
       "register", "watch", "lost", "done"}

(* Where a call is in cleanupServer.                                       *)
Cleaning == {"stop", "remove", "panicked"}

Reported == Replies \cup {NoRoutes}

Reachable == Config \ BadConfig

TypeOK ==
  /\ servers \in [Provider -> SUBSET Upstream]
  /\ config \in [Upstream -> Config \cup {None}]
  /\ owner \in [Upstream -> Provider \cup {None}]
  /\ armed \in [Upstream -> BOOLEAN]
  /\ rpc \in {"idle", "sweep"} \cup Cleaning
  /\ target \in Provider \cup {None}
  /\ wanted \in SUBSET Config
  /\ drop \in SUBSET Upstream
  /\ victim \in IF rpc \in Cleaning THEN Upstream ELSE {None}
  /\ fresh \in SUBSET Upstream
  /\ names \in SUBSET Service
  /\ pool \in [Service -> [Upstream -> Nat]]
  /\ pc \in [Upstream -> PC]
  /\ cancelled \in [Upstream -> BOOLEAN]
  /\ info \in [Upstream -> Reported]
  /\ stream \in [Upstream -> BOOLEAN]
  /\ offer \in [Reachable -> Replies]
  /\ applied \in [Upstream -> Reported]
  /\ requested \in [Provider -> SUBSET Config]
  /\ escaped \in SUBSET Upstream

Init ==
  /\ servers = [p \in Provider |-> {}]
  /\ config = [u \in Upstream |-> None]
  /\ owner = [u \in Upstream |-> None]
  /\ armed = [u \in Upstream |-> FALSE]
  /\ rpc = "idle" /\ target = None /\ wanted = {} /\ drop = {}
  /\ victim = None /\ fresh = {}
  /\ names = {}
  /\ pool = [s \in Service |-> [u \in Upstream |-> 0]]
  /\ pc = [u \in Upstream |-> "none"]
  /\ cancelled = [u \in Upstream |-> FALSE]
  /\ info = [u \in Upstream |-> NoRoutes]
  /\ stream = [u \in Upstream |-> FALSE]
  /\ offer \in [Reachable -> Replies]
  /\ applied = [u \in Upstream |-> NoRoutes]
  /\ requested = [p \in Provider |-> {}]
  /\ escaped = {}

-----------------------------------------------------------------------------
(* ReplaceServers, holding serverMutex.                                    *)

(* The bound on created objects: a call starts only if every server it may *)
(* have to build has an unused identity left in Upstream.                  *)
Allocatable(p, W) ==
  Cardinality({c \in W : \A u \in servers[p] : config[u] # c})
    <= Cardinality({u \in Upstream : ~Created(u)})

(* Mistake: every old server is cleaned up and built anew.                 *)
ReplaceServers_Anew(p, W) ==
  /\ rpc = "idle"
  /\ Allocatable(p, W)
  /\ rpc' = "sweep"
  /\ target' = p
  /\ wanted' = W
  /\ fresh' = {}
  /\ drop' = servers[p]
  /\ requested' = [requested EXCEPT ![p] = W]
  /\ UNCHANGED <<serverVars, serviceVars, watchVars, offer, victim, applied, escaped>>

(* Lock serverMutex and split the old list: servers whose configuration is *)
(* still wanted are kept as they are, the others will be cleaned up.       *)
ReplaceServers(p, W) ==
  /\ rpc = "idle"
  /\ Allocatable(p, W)
  /\ rpc' = "sweep"
  /\ target' = p
  /\ wanted' = W
  /\ fresh' = {u \in servers[p] : config[u] \in W}
  /\ drop' = {u \in servers[p] : config[u] \notin W}
  /\ requested' = [requested EXCEPT ![p] = W]
  /\ UNCHANGED <<serverVars, serviceVars, watchVars, offer, victim, applied, escaped>>

(* cleanupServer, first half: stopWatchingServices tests the cancel        *)
(* function.  A watcher that has not run yet has not set it, and nothing   *)
(* tells that watcher to stop later.                                       *)
TestCancel(u) ==
  /\ rpc = "sweep" /\ u \in drop
  /\ rpc' = IF armed[u] THEN "stop" ELSE "remove"
  /\ victim' = u
  /\ escaped' = IF armed[u] THEN escaped ELSE escaped \cup {u}
  /\ UNCHANGED <<serverVars, serviceVars, watchVars, offer, applied, requested,
                 target, wanted, drop, fresh>>

(* It reads the field again to call the function.  If the watcher has      *)
(* cleared it in between, what is called is the value of the test or nil,  *)
(* as the compiler has it; a call of nil ends the process.  (The model     *)
(* lets the goroutines run on, which adds behaviours and takes none away.) *)
StopWatching ==
  /\ rpc = "stop"
  /\ \/ /\ rpc' = "remove"
        /\ cancelled' = [cancelled EXCEPT ![victim] = TRUE]
     \/ /\ ~armed[victim]
        /\ rpc' = "panicked"
        /\ UNCHANGED cancelled
  /\ UNCHANGED <<serverVars, serviceVars, offer, history,
                 target, wanted, drop, victim, fresh, pc, armed, info, stream>>

(* Mistake: the whole service goes with the server.                        *)
RemoveFromServices_Whole ==
  /\ rpc = "remove"
  /\ rpc' = "sweep"
  /\ pool' = [s \in Service |->
       IF pool[s][victim] > 0 THEN [u \in Upstream |-> 0] ELSE pool[s]]
  /\ drop' = drop \ {victim}
  /\ victim' = None
  /\ escaped' = IF pc[victim] = "register" THEN escaped \cup {victim} ELSE escaped
  /\ UNCHANGED <<serverVars, watchVars, offer, applied, requested,
                 target, wanted, fresh, names>>

(* cleanupServer, second half: under servicesMutex, remove one entry of    *)
(* the server from every service.                                          *)
RemoveFromServices ==
  /\ rpc = "remove"
  /\ rpc' = "sweep"
  /\ SetColumn(victim, Withdrawn(Column(victim)))
  /\ drop' = drop \ {victim}
  /\ victim' = None
  /\ escaped' = IF pc[victim] = "register" THEN escaped \cup {victim} ELSE escaped
  /\ UNCHANGED <<serverVars, watchVars, offer, applied, requested,
                 target, wanted, fresh, names>>

(* Mistake: kept servers do not clear their entry of shouldBuildConfigs.   *)
NewUpstream_Kept(c, u) ==
  /\ rpc = "sweep" /\ drop = {}
  /\ c \in wanted
  /\ ~Created(u)
  /\ config' = [config EXCEPT ![u] = c]
  /\ owner' = [owner EXCEPT ![u] = target]
  /\ pc' = [pc EXCEPT ![u] = "spawned"]
  /\ fresh' = fresh \cup {u}
  /\ UNCHANGED <<servers, serviceVars, cancelled, armed, info, stream, offer, history,
                 rpc, target, wanted, drop, victim>>

(* newUpstream for a configuration no kept server has, and the go          *)
(* statement that starts its watcher.                                      *)
NewUpstream(c, u) ==
  /\ rpc = "sweep" /\ drop = {}
  /\ c \in wanted
  /\ \A v \in fresh : config[v] # c
  /\ ~Created(u)
  /\ config' = [config EXCEPT ![u] = c]
  /\ owner' = [owner EXCEPT ![u] = target]
  /\ pc' = [pc EXCEPT ![u] = "spawned"]
  /\ fresh' = fresh \cup {u}
  /\ UNCHANGED <<servers, serviceVars, cancelled, armed, info, stream, offer, history,
                 rpc, target, wanted, drop, victim>>

(* Assign the new list and unlock serverMutex.                             *)
ReplaceDone ==
  /\ rpc = "sweep" /\ drop = {}
  /\ \A c \in wanted : \E u \in fresh : config[u] = c
  /\ servers' = [servers EXCEPT ![target] = fresh]
  /\ rpc' = "idle"
  /\ target' = None
  /\ wanted' = {}
  /\ fresh' = {}
  /\ UNCHANGED <<config, owner, serviceVars, watchVars, offer, history, drop, victim>>

-----------------------------------------------------------------------------
(* watchServices, one goroutine per upstream.                              *)

Goto(u, from, to) ==
  /\ pc[u] = from
  /\ pc' = [pc EXCEPT ![u] = to]

(* Mistake: the cancel function is not cleared.                            *)
Return_Armed(u, from) ==
  /\ Goto(u, from, "done")
  /\ cancelled' = [cancelled EXCEPT ![u] = TRUE]
  /\ armed' = armed

(* The deferred function: cancel the context and clear the cancel function.*)
Return(u, from) ==
  /\ Goto(u, from, "done")
  /\ cancelled' = [cancelled EXCEPT ![u] = TRUE]
  /\ armed' = [armed EXCEPT ![u] = FALSE]

(* The goroutine is scheduled for the first time: it makes its context and *)
(* publishes the cancel function.                                          *)
WatcherStarts(u) ==
  /\ Goto(u, "spawned", "connect")
  /\ armed' = [armed EXCEPT ![u] = TRUE]
  /\ UNCHANGED <<serverVars, callVars, serviceVars, cancelled, info, stream, offer, history>>

(* reflectClient: grpc.NewClient refuses some addresses, and then the      *)
(* watcher returns for good.                                               *)
ReflectClient(u) ==
  /\ \/ config[u] \in BadConfig /\ Return(u, "connect")
     \/ config[u] \in Reachable /\ Goto(u, "connect", "list")
                                   /\ UNCHANGED <<cancelled, armed>>
  /\ UNCHANGED <<serverVars, callVars, serviceVars, info, stream, offer, history>>

(* getServiceInfo, first call: ListServices, on the open stream or on a    *)
(* new one.                                                                *)
ListServices(u) ==
  /\ Goto(u, "list", "resolve")
  /\ info' = [info EXCEPT ![u] = offer[config[u]]]
  /\ stream' = [stream EXCEPT ![u] = TRUE]
  /\ UNCHANGED <<serverVars, callVars, serviceVars, cancelled, armed, offer, history>>

(* Mistake: the watcher gives up at the first error.                       *)
ListServicesFails_Final(u) ==
  /\ Return(u, "list")
  /\ UNCHANGED <<serverVars, callVars, serviceVars, info, stream, offer, history>>

(* ListServices fails: log, then wait ten seconds or for the context.      *)
ListServicesFails(u) ==
  /\ Goto(u, "list", "retry")
  /\ UNCHANGED <<serverVars, callVars, serviceVars, cancelled, armed, info, stream,
                 offer, history>>

(* getServiceInfo, the remaining calls: AllFilesForSymbol for each service.*)
(* An error is logged and skipped, so the fetch succeeds whatever happens. *)
(* If the stream was lost in the meantime, the next of these calls opens a *)
(* new one, and with it a new channel for Disconnected().                  *)
ResolveSymbols(u) ==
  /\ Goto(u, "resolve", "check")
  /\ \/ UNCHANGED stream
     \/ /\ ~stream[u] /\ info[u] # NoRoutes
        /\ stream' = [stream EXCEPT ![u] = TRUE]
  /\ UNCHANGED <<serverVars, callVars, serviceVars, cancelled, armed, info, offer, history>>

(* Mistake: no check of the context after the fetch.                       *)
CheckContext_Not(u) ==
  /\ Goto(u, "check", "register")
  /\ UNCHANGED <<serverVars, callVars, serviceVars, cancelled, armed, info, stream,
                 offer, history>>

(* The check of ctx.Err() after a successful fetch.                        *)
CheckContext(u) ==
  /\ \/ cancelled[u] /\ Return(u, "check")
     \/ ~cancelled[u] /\ Goto(u, "check", "register") /\ UNCHANGED <<cancelled, armed>>
  /\ UNCHANGED <<serverVars, callVars, serviceVars, info, stream, offer, history>>

(* Mistake: the old entries are not filtered out first.                    *)
ReplaceServices_Append(u) ==
  /\ Goto(u, "register", "watch")
  /\ SetColumn(u, [s \in Service |-> pool[s][u] + info[u][s]])
  /\ names' = names \cup {s \in Service : info[u][s] > 0}
  /\ applied' = [applied EXCEPT ![u] = info[u]]
  /\ UNCHANGED <<serverVars, callVars, cancelled, armed, info, stream, offer,
                 requested, escaped>>

(* replaceServices, under servicesMutex: filter the server out of every    *)
(* service, then append it once per name in the list.  Names are added to  *)
(* the map and never deleted from it.                                      *)
ReplaceServices(u) ==
  /\ Goto(u, "register", "watch")
  /\ SetColumn(u, info[u])
  /\ names' = names \cup {s \in Service : info[u][s] > 0}
  /\ applied' = [applied EXCEPT ![u] = info[u]]
  /\ UNCHANGED <<serverVars, callVars, cancelled, armed, info, stream, offer,
                 requested, escaped>>

(* The outer select: the stream is lost; wait ten seconds, then refetch.   *)
NoticeDisconnect(u) ==
  /\ ~stream[u]
  /\ Goto(u, "watch", "lost")
  /\ UNCHANGED <<serverVars, callVars, serviceVars, cancelled, armed, info, stream,
                 offer, history>>

(* Mistake: the outer loop ends when the connection is lost.               *)
TimerFires_Returns(u) ==
  /\ \/ Goto(u, "retry", "list") /\ UNCHANGED <<cancelled, armed>>
     \/ Return(u, "lost")
  /\ UNCHANGED <<serverVars, callVars, serviceVars, info, stream, offer, history>>

(* Mistake: what was fetched before the loss is registered again.          *)
TimerFires_Cached(u) ==
  /\ \/ Goto(u, "retry", "list")
     \/ Goto(u, "lost", "check")
  /\ UNCHANGED <<serverVars, callVars, serviceVars, cancelled, armed, info, stream,
                 offer, history>>

(* Ten seconds after a failure or a loss the services are fetched again.   *)
TimerFires(u) ==
  /\ \E from \in {"retry", "lost"} : Goto(u, from, "list")
  /\ UNCHANGED <<serverVars, callVars, serviceVars, cancelled, armed, info, stream,
                 offer, history>>

(* Mistake: the outer select waits for the connection only.                *)
NoticeCancel_Inner(u) ==
  /\ cancelled[u]
  /\ \E from \in {"retry", "lost"} : Return(u, from)
  /\ UNCHANGED <<serverVars, callVars, serviceVars, info, stream, offer, history>>

(* ctx.Done() in any of the three selects.                                 *)
NoticeCancel(u) ==
  /\ cancelled[u]
  /\ \E from \in {"retry", "watch", "lost"} : Return(u, from)
  /\ UNCHANGED <<serverVars, callVars, serviceVars, info, stream, offer, history>>

-----------------------------------------------------------------------------
(* The environment.                                                        *)

(* The process behind a configuration is replaced by one that serves other *)
(* services; every stream to the old one breaks.                           *)
Redeploy(c, r) ==
  /\ r # offer[c]
  /\ offer' = [offer EXCEPT ![c] = r]
  /\ stream' = [u \in Upstream |-> stream[u] /\ config[u] # c]
  /\ UNCHANGED <<serverVars, callVars, serviceVars, pc, cancelled, armed, info, history>>

StreamBreaks(u) ==
  /\ stream[u]
  /\ stream' = [stream EXCEPT ![u] = FALSE]
  /\ UNCHANGED <<serverVars, callVars, serviceVars, pc, cancelled, armed, info, offer, history>>

-----------------------------------------------------------------------------

CallStep ==
  \/ \E u \in Upstream : TestCancel(u)
  \/ StopWatching
  \/ RemoveFromServices
  \/ \E c \in Config, u \in Upstream : NewUpstream(c, u)
  \/ ReplaceDone

(* The steps a watcher takes on its own, whatever the upstream answers.    *)
OwnStep(u) ==
  \/ WatcherStarts(u)
  \/ ReflectClient(u)
  \/ ResolveSymbols(u)
  \/ CheckContext(u)
  \/ ReplaceServices(u)
  \/ NoticeDisconnect(u)
  \/ TimerFires(u)
  \/ NoticeCancel(u)

Fetch(u) == ListServices(u) \/ ListServicesFails(u)

Next ==
  \/ \E p \in Provider, W \in SUBSET Config : ReplaceServers(p, W)
  \/ CallStep
  \/ \E u \in Upstream : OwnStep(u) \/ Fetch(u) \/ StreamBreaks(u)
  \/ \E c \in Reachable, r \in Replies : Redeploy(c, r)

Spec == Init /\ [][Next]_vars

(***************************************************************************)
(* Fairness.  The Go scheduler runs every goroutine that can run, so each  *)
(* step of the code is weakly fair.  A select with ctx.Done() ready takes  *)
(* it unless another case is ready too, and the runtime then chooses at    *)
(* random: strong fairness for NoticeCancel.  Of the upstream we assume    *)
(* that a fetch ends (it answers, or the stream breaks), and, for the      *)
(* liveness of discovery only, that it does not fail forever.              *)
(***************************************************************************)
CodeFairness ==
  /\ WF_vars(CallStep)
  /\ \A u \in Upstream :
       /\ WF_vars(OwnStep(u))
       /\ WF_vars(Fetch(u))
       /\ SF_vars(NoticeCancel(u))

UpstreamAnswers == \A u \in Upstream : SF_vars(ListServices(u))

FairSpec == Spec /\ CodeFairness /\ UpstreamAnswers

-----------------------------------------------------------------------------
(* Properties.                                                             *)

(* The upstreams of a provider, as the call in progress is changing them.  *)
Members(p) == IF rpc # "idle" /\ p = target THEN drop \cup fresh ELSE servers[p]

Kept(u) == Created(u) /\ u \in Members(owner[u])

Routed(u) == \E s \in Service : pool[s][u] > 0

(* After every ReplaceServers the provider has exactly one upstream for    *)
(* each configuration it asked for, and none for any other; an upstream    *)
(* belongs to one provider.                                                *)
ServersMatchRequest ==
  \A p \in Provider :
    /\ \A u \in Members(p) : owner[u] = p
    /\ \A u, v \in Members(p) : config[u] = config[v] => u = v
    /\ rpc = "idle" => {config[u] : u \in servers[p]} = requested[p]

(* Nobody but the watcher of a server changes the routes of a server that  *)
(* is still in the list: they are the whole of its last report, through    *)
(* every registration and every cleanup of the others.  A server that has  *)
(* been cleaned up has its report, or what one removal leaves of it.       *)
RoutesAreLastReport ==
  \A u \in Upstream :
    /\ Kept(u) => Column(u) = applied[u]
    /\ Column(u) \in {applied[u], Withdrawn(applied[u])}

(* Cancelling reaches only servers that are being removed: a server in the *)
(* list keeps a running watcher, unless its address was refused.           *)
KeptServersAreWatched ==
  \A u \in Upstream :
    Kept(u) /\ (u = victim => rpc = "stop") /\ config[u] \in Reachable
      => pc[u] # "done" /\ ~cancelled[u]

(* The proxy survives the removal of every server whose address it could   *)
(* use: the cancel function that stopWatchingServices tests is still there *)
(* when it is called, because the watcher clears it only when it returns.  *)
OnlyRefusedServersPanic ==
  rpc = "panicked" => config[victim] \in BadConfig

(* A removed server can only be left in the service map in two ways:       *)
(* cleanupServer ran before the watcher had published its cancel function, *)
(* or between the watcher's check of the context and its replaceServices.  *)
(* (A server that reports a name twice is a third: one entry is removed.)  *)
OnlyEscapedServersLinger ==
  \A u \in Upstream :
    Routed(u) /\ ~Kept(u)
      => u \in escaped \/ \E s \in Service : applied[u][s] > 1

(* The inductive invariant: why the invariants above hold.                 *)

(* Between calls the fields of a call are empty; within one, the servers   *)
(* of its provider are those it keeps or has built (fresh), which all have *)
(* a wanted configuration, and those it has still to clean up (drop).      *)
CallConsistent ==
  /\ rpc = "idle" => target = None /\ drop = {} /\ fresh = {}
  /\ rpc # "idle" =>
       /\ target \in Provider
       /\ requested[target] = wanted
       /\ \A u \in fresh : config[u] \in wanted
       /\ \A u \in drop : config[u] \notin wanted
  /\ rpc \in Cleaning => victim \in drop
  /\ \A p \in Provider \ {target} : {config[u] : u \in servers[p]} = requested[p]

(* Every server in a list was built for that provider, with a              *)
(* configuration of its own.                                               *)
MembersOwned ==
  \A p \in Provider : \A u \in Members(p) :
    /\ Created(u)
    /\ owner[u] = p
    /\ \A v \in Members(p) : config[u] = config[v] => u = v

(* The cancel function is set exactly while the watcher runs, and a fetch  *)
(* is only ever made for a usable address.                                 *)
WatchersConsistent ==
  \A u \in Upstream :
    /\ Created(u) => config[u] \in Config /\ owner[u] \in Provider
    /\ armed[u] <=> pc[u] \notin {"none", "spawned", "done"}
    /\ pc[u] \notin {"none", "spawned", "connect", "done"} => config[u] \in Reachable
    /\ pc[u] \in {"resolve", "check", "register"} => info[u] \in Replies

(* A server without an object has left no trace; one that was removed, and *)
(* did not escape, is cancelled, is not about to register, and has in the  *)
(* service map what one withdrawal leaves of its last report.              *)
RemovedAreSilent ==
  /\ rpc = "remove" /\ victim \notin escaped => cancelled[victim]
  /\ \A u \in Upstream :
       /\ ~Created(u) => Column(u) = NoRoutes /\ applied[u] = NoRoutes /\ ~cancelled[u]
       /\ Created(u) /\ ~Kept(u) /\ u \notin escaped =>
            /\ cancelled[u]
            /\ pc[u] # "register"
            /\ Column(u) = Withdrawn(applied[u])

(* A watcher whose cancel function was found has begun to run.             *)
VictimConsistent ==
  /\ rpc = "stop" => pc[victim] # "spawned"
  /\ OnlyRefusedServersPanic

IInv ==
  /\ TypeOK
  /\ CallConsistent
  /\ VictimConsistent
  /\ MembersOwned
  /\ WatchersConsistent
  /\ KeptServersAreWatched
  /\ RoutesAreLastReport
  /\ RemovedAreSilent

(* A server whose configuration the provider asks for again is never       *)
(* dropped, so its watcher, its stream and its routes survive the call.    *)
UnchangedServersStay ==
  [][\A u \in Upstream :
       Kept(u) /\ config[u] \in requested[owner[u]] \cap requested'[owner[u]]
         => Kept(u)']_vars

(* proxy/dashboard.go:75-76 on a service that lists a server which is not  *)
(* in the server list: "Hopefully this never happens".  DashboardContext   *)
(* takes serverMutex, so it looks only when no ReplaceServers is running.  *)
NoUnknownServer ==
  rpc = "idle" =>
    \A u \in Upstream : Routed(u) => \E p \in Provider : u \in servers[p]

(* The service map implements the abstract routing table: whatever the     *)
(* goroutines interleave, a step replaces or withdraws the row of one      *)
(* server and leaves every other row as it was.                            *)
Table == INSTANCE RoutingTable WITH routes <- [u \in Upstream |-> Column(u)]

ImplementsTable == Table!Spec

(* A server in the list is eventually registered, or removed again.        *)
ListedServersRegister ==
  \A u \in Upstream :
    Kept(u) /\ config[u] \in Reachable ~> ~Kept(u) \/ pc[u] = "watch"

(* A watcher whose context is cancelled returns, wherever it was.          *)
CancelledWatchersReturn ==
  \A u \in Upstream : cancelled[u] ~> pc[u] = "done"

(* If the services of a listed server stop changing, and the watcher keeps *)
(* noticing lost streams, the routes settle on what the server offers.     *)
RefetchConverges ==
  \A u \in Upstream, r \in Replies :
    (/\ <>[](Kept(u) /\ config[u] \in Reachable /\ offer[config[u]] = r)
     /\ []<>(pc[u] = "lost"))
      => <>[](Column(u) = r)

(* providers/static.go:24, of the Static provider: "It then continues to   *)
(* update the provided services in the interval specified".  So a listed   *)
(* server whose services stop changing has its routes brought up to date.  *)
ServicesKeepUpdating ==
  \A u \in Upstream, r \in Replies :
    <>[](Kept(u) /\ config[u] \in Reachable /\ offer[config[u]] = r)
      => <>[](Column(u) = r)

=============================================================================
