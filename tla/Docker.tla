------------------------------- MODULE Docker -------------------------------
(***************************************************************************)
(* The Docker provider (providers/docker.go) and the AutoRestarter that    *)
(* runs it (utils/restart.go): it lists the running containers once, hands *)
(* the exposed ones to ReplaceServers, and from then on lists them again   *)
(* for every event that says a container started or ended.  Containers     *)
(* come and go at any time, every call to Docker may fail, and the event   *)
(* stream may break.                                                       *)
(*                                                                         *)
(* What ReplaceServers does with the list is the subject of Registry; here *)
(* it is remembered as servers.                                            *)
(***************************************************************************)
EXTENDS Naturals, Sequences, FiniteSets

CONSTANTS
  Container,        \* containers
  Selves,           \* where the proxy may run: containers, or None for outside
  Kinds,            \* what containers may look like
  Modes,            \* values of ExposeMode to consider
  ExposedProjects,  \* Docker.ExposedProjects
  DefaultNetwork,   \* Docker.DefaultNetwork, or None
  MaxEvents,        \* bound: events waiting in the stream
  None              \* a label that is not set

ASSUME DockerAssumption ==
  /\ Selves \subseteq Container \cup {None}
  /\ None \notin Container
  /\ MaxEvents \in Nat

VARIABLES
  mode,         \* Docker.ExposeMode, as configured
  self,         \* the container the proxy runs in, or None
  kind,         \* kind[c]: labels, networks and ports of a container
  running,      \* the containers Docker lists
  events,       \* the event stream
  subscribed,   \* receiveEvents has a stream
  pc,           \* where Run is
  initial,      \* it is handling the first list, not an event
  snapshot,     \* the list it is handling
  servers,      \* the last argument of ReplaceServers
  \* history variables, read by properties only
  missed,       \* a change has neither been listed nor announced
  skipped       \* the containers whose inspection failed in the last list

provider == <<events, subscribed, pc, initial, snapshot, servers, skipped>>
vars == <<mode, self, kind, running, provider, missed>>

-----------------------------------------------------------------------------
(* Decisions about one container.                                          *)

(* The fields of a kind: enable is the parsed label ("true", "false" or    *)
(* None), project the compose project, net the network label, networks the *)
(* networks it has joined, addressed those of them in which it has an IPv4 *)
(* or IPv6 address, host whether it uses the host's network, port the port *)
(* label, ports the ports it exposes, plaintext the TLS label.             *)

ValidModes == {"all", "manual", "same_project"}

(* checkExposeMode, for a mode it accepts.                                 *)
Effective == IF mode = "" THEN "manual" ELSE mode

(* Mistake: an explicit 'false' is only looked at in manual mode.          *)
Ignored_Manual(c) == Effective = "manual" /\ kind[c].enable # "true"

(* The continue statements of handleContainerList.                         *)
Ignored(c) ==
  \/ kind[c].enable = "false"
  \/ Effective = "manual" /\ kind[c].enable # "true"
  \/ Effective = "projects" /\ kind[c].project \notin ExposedProjects
  \/ Effective = "same_project"
       /\ (kind[self].project = None \/ kind[self].project # kind[c].project)

(* In mode same_project every container that is not ignored by its label   *)
(* needs getOwnContainer, which fails if the proxy is not in a container.  *)
OwnMissing(list) ==
  /\ Effective = "same_project"
  /\ \E c \in list : kind[c].enable # "false"
  /\ self \notin list

(* getIpAddress, for a container of kind k that can be inspected: None is  *)
(* its error.  The label replaces the default network, it is not tried     *)
(* before it.  A container that has joined the network without an address  *)
(* there, as while it is restarted, is no error: its address is empty, and *)
(* the server ":port" is handed over.                                      *)
Network(k) == IF k.net # None THEN k.net ELSE DefaultNetwork

Ip(c, k) ==
  IF k.host THEN <<"loopback">>
  ELSE IF Network(k) = None \/ Network(k) \notin k.networks THEN None
  ELSE IF Network(k) \in k.addressed THEN <<c, Network(k)>> ELSE <<>>

(* getPort: the label, or the lowest exposed port.                         *)
Port(k) ==
  IF k.port # None THEN k.port
  ELSE IF k.ports = {} THEN None
  ELSE CHOOSE p \in k.ports : \A q \in k.ports : p <= q

(* configFromContainer fails if one of the two does.                       *)
UsableAs(c, k) == Ip(c, k) # None /\ Port(k) # None

ConfigAs(c, k) == [ip |-> Ip(c, k), port |-> Port(k), plaintext |-> k.plaintext]

Usable(c) == UsableAs(c, kind[c])

ConfigOf(c) == ConfigAs(c, kind[c])

(* Mistake: the error of configFromContainer is not looked at.             *)
Configs_Unchecked(list, failed) ==
  {ConfigOf(c) : c \in {d \in list \ failed : ~Ignored(d)}}

(* handleContainerList, when the inspections of failed fail.               *)
Configs(list, failed) ==
  {ConfigOf(c) : c \in {d \in list \ failed : ~Ignored(d) /\ Usable(d)}}

-----------------------------------------------------------------------------

Actions == {"start", "die", "stop", "other"}

TypeOK ==
  /\ mode \in Modes
  /\ self \in Selves
  /\ kind \in [Container -> Kinds]
  /\ running \subseteq Container
  /\ events \in Seq(Actions) /\ Len(events) <= MaxEvents
  /\ subscribed \in BOOLEAN
  /\ pc \in {"start", "list", "apply", "subscribe", "events", "sleep", "failed"}
  /\ initial \in BOOLEAN
  /\ snapshot \subseteq Container
  /\ \A x \in servers : \E c \in Container : Usable(c) /\ x = ConfigOf(c)
  /\ missed \in BOOLEAN
  /\ skipped \subseteq Container

Init ==
  /\ mode \in Modes
  /\ kind \in [Container -> Kinds]
  /\ running \in SUBSET Container
  /\ self \in Selves
  /\ self # None => self \in running
  /\ events = <<>>
  /\ subscribed = FALSE
  /\ pc = "start"
  /\ initial = TRUE
  /\ snapshot = {}
  /\ servers = {}
  /\ missed = FALSE
  /\ skipped = {}

-----------------------------------------------------------------------------
(* Run.                                                                    *)

Goto(from, to) == pc = from /\ pc' = to

Relevant == {"start", "die", "stop"}

(* receiveEvents returns: the stream is closed with what is waiting in it. *)
Unsubscribe ==
  /\ subscribed' = FALSE
  /\ events' = <<>>

CheckExposeMode ==
  /\ Goto("start", IF Effective \in ValidModes THEN "list" ELSE "failed")
  /\ initial' = TRUE
  /\ UNCHANGED <<mode, self, kind, running, events, subscribed, snapshot, servers, missed, skipped>>

(* ContainerList, for the first list or for an event.                      *)
ContainerList ==
  /\ Goto("list", "apply")
  /\ snapshot' = running
  /\ missed' = FALSE
  /\ UNCHANGED <<mode, self, kind, running, events, subscribed, initial, servers, skipped>>

(* Run returns the error of the first list; the error of a later one only  *)
(* ends receiveEvents.                                                     *)
GiveUp ==
  IF initial THEN pc' = "failed" /\ UNCHANGED <<events, subscribed>>
             ELSE pc' = "sleep" /\ Unsubscribe

ContainerListFails ==
  /\ pc = "list"
  /\ GiveUp
  /\ missed' = TRUE
  /\ UNCHANGED <<mode, self, kind, running, initial, snapshot, servers, skipped>>

(* handleContainerList.                                                    *)
HandleContainerList ==
  /\ ~OwnMissing(snapshot)
  /\ Goto("apply", IF initial THEN "subscribe" ELSE "events")
  /\ \E failed \in SUBSET snapshot :
       /\ servers' = Configs(snapshot, failed)
       /\ skipped' = failed
  /\ snapshot' = {}
  /\ UNCHANGED <<mode, self, kind, running, events, subscribed, initial, missed>>

OwnContainerMissing ==
  /\ pc = "apply" /\ OwnMissing(snapshot)
  /\ GiveUp
  /\ missed' = TRUE
  /\ snapshot' = {}
  /\ UNCHANGED <<mode, self, kind, running, initial, servers, skipped>>

Subscribe ==
  /\ Goto("subscribe", "events")
  /\ initial' = FALSE
  /\ subscribed' = TRUE
  /\ UNCHANGED <<mode, self, kind, running, events, snapshot, servers, missed, skipped>>

SubscribeFails ==
  /\ Goto("subscribe", "sleep")
  /\ initial' = FALSE
  /\ UNCHANGED <<mode, self, kind, running, events, subscribed, snapshot, servers, missed, skipped>>

(* Mistake: the end of a container is not an event to look at.             *)
HandleEvent_Start ==
  /\ events # <<>>
  /\ Goto("events", IF Head(events) = "start" THEN "list" ELSE "events")
  /\ events' = Tail(events)
  /\ UNCHANGED <<mode, self, kind, running, subscribed, initial, snapshot, servers, missed, skipped>>

(* handleEvent, as far as the list.                                        *)
HandleEvent ==
  /\ events # <<>>
  /\ Goto("events", IF Head(events) \in Relevant THEN "list" ELSE "events")
  /\ events' = Tail(events)
  /\ UNCHANGED <<mode, self, kind, running, subscribed, initial, snapshot, servers, missed, skipped>>

(* The stream breaks.  The select may see the error before the events.     *)
StreamBreaks ==
  /\ Goto("events", "sleep")
  /\ Unsubscribe
  /\ missed' = (missed \/ \E i \in DOMAIN events : events[i] \in Relevant)
  /\ UNCHANGED <<mode, self, kind, running, initial, snapshot, servers, skipped>>

(* Ten seconds later it listens again.  It does not list again.            *)
SleepEnds ==
  /\ Goto("sleep", "subscribe")
  /\ UNCHANGED <<mode, self, kind, running, events, subscribed, initial, snapshot, servers,
                 missed, skipped>>

(* Mistake: AutoRestarter returns when the task has failed.                *)
Restart_Returns ==
  /\ Goto("failed", "failed")
  /\ UNCHANGED <<mode, self, kind, running, events, subscribed, initial, snapshot, servers,
                 missed, skipped>>

(* AutoRestarter calls Run again, ten seconds after it has failed.         *)
Restart ==
  /\ Goto("failed", "start")
  /\ UNCHANGED <<mode, self, kind, running, events, subscribed, initial, snapshot, servers,
                 missed, skipped>>

-----------------------------------------------------------------------------
(* Docker.                                                                 *)

(* A change of the list is announced to a subscriber, or goes unnoticed    *)
(* until the next list.                                                    *)
Announce(messages) ==
  IF subscribed
  THEN /\ Len(events) + Len(messages) <= MaxEvents
       /\ events' = events \o messages
       /\ UNCHANGED missed
  ELSE /\ missed' = TRUE
       /\ UNCHANGED events

ContainerStarts(c) ==
  /\ c \notin running
  /\ running' = running \cup {c}
  /\ Announce(<<"other", "start">>)
  /\ UNCHANGED <<mode, self, kind, subscribed, pc, initial, snapshot, servers, skipped>>

(* It exits by itself, or is stopped.                                      *)
ContainerEnds(c) ==
  /\ c \in running /\ c # self
  /\ running' = running \ {c}
  /\ Announce(<<"die">>) \/ Announce(<<"die", "stop">>)
  /\ UNCHANGED <<mode, self, kind, subscribed, pc, initial, snapshot, servers, skipped>>

-----------------------------------------------------------------------------

ProviderStep ==
  \/ CheckExposeMode
  \/ ContainerList \/ ContainerListFails
  \/ HandleContainerList \/ OwnContainerMissing
  \/ Subscribe \/ SubscribeFails
  \/ HandleEvent \/ StreamBreaks
  \/ SleepEnds \/ Restart

Next ==
  \/ ProviderStep
  \/ \E c \in Container : ContainerStarts(c) \/ ContainerEnds(c)

Spec == Init /\ [][Next]_vars

(* The provider's goroutine runs, its timers fire, and Docker does not     *)
(* refuse the same call forever.                                           *)
FairSpec ==
  /\ Spec
  /\ WF_vars(CheckExposeMode \/ HandleContainerList \/ OwnContainerMissing
               \/ SleepEnds \/ Restart)
  /\ WF_vars(ContainerList \/ ContainerListFails) /\ WF_vars(Subscribe \/ SubscribeFails)
  /\ SF_vars(ContainerList) /\ SF_vars(Subscribe)

-----------------------------------------------------------------------------
(* Properties.                                                             *)

(* The rules of README.md:62,118-120 and providers/docker.go:62-75: what   *)
(* may be exposed in each mode, and what a label excludes in all of them.  *)
Exposable(c) ==
  /\ kind[c].enable # "false"
  /\ mode \in {"", "manual"} => kind[c].enable = "true"
  /\ mode = "projects" => kind[c].project \in ExposedProjects
  /\ mode = "same_project" =>
       self # None /\ kind[self].project # None /\ kind[c].project = kind[self].project

(* Whatever fails and whenever, only containers that the rules expose and  *)
(* that have a network and a port are ever handed to the proxy.  (Two that *)
(* use the host's network, or have no address, may share a configuration.) *)
OnlyExposableServers ==
  \A x \in servers : \E c \in Container : Exposable(c) /\ Usable(c) /\ x = ConfigOf(c)

(* When the provider has nothing left to do and no change fell into a gap  *)
(* of the event stream, the proxy's list is that of the running containers *)
(* whose inspection worked: none is missing, none has ended, and one that  *)
(* cannot be inspected or has no network or no port costs no other its     *)
(* place.                                                                  *)
UpToDateWhenIdle ==
  pc = "events" /\ events = <<>> /\ ~missed =>
    servers = {ConfigOf(c) : c \in {d \in running \ skipped : Exposable(d) /\ Usable(d)}}

(* Whatever fails, the provider comes back to listening for events.        *)
ComesBack ==
  mode \in ValidModes \cup {""} /\ (mode = "same_project" => self # None)
    => []<>(pc = "events")

(* providers/docker.go:74: "ExposeProjects exposes all services which are  *)
(* defined in compose projects specified in [Docker.ExposedProjects]."     *)
ProjectsModeExposes ==
  \A c \in Container :
    (mode = "projects" /\ <>[](c \in running /\ Exposable(c) /\ Usable(c)))
      => <>(ConfigOf(c) \in servers)

=============================================================================
