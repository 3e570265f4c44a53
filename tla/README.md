# A verification of Pancake

Pancake is a gRPC reverse proxy. It discovers which upstream server provides which
service by asking the upstreams' reflection services, keeps a service map, and
forwards each request to one of the servers of its service. This directory holds
TLA+ specifications of that program, the TLC configurations that check them on
small instances, and proofs that TLAPS checks for every instance.

Paths in this file are relative to the root of the repository.

## 1. The system

### Components

| Component | Source | State | Operations |
|---|---|---|---|
| upstream servers | `proxy/servers.go` | `Proxy.servers` under `serverMutex`; per server its configuration, cancel function and reflection client | `ReplaceServers`, `cleanupServer`, `newUpstream` |
| service watcher and service map | `proxy/services.go` | `Proxy.services` under `servicesMutex`; one goroutine per upstream with a context | `watchServices`, `getServiceInfo`, `replaceServices` |
| load balancing | `proxy/proxy.go` | `upstreamService.next`, an atomic counter | `findServer` |
| request path | `proxy/proxy.go` | none that outlives a request | `ServeHTTP`, `forwardRequest` |
| reflection client | `reflection/client.go` | open stream of either version, `disconnected` channel, descriptor cache, under `mu` only in part | `ListServices`, `AllFilesForSymbol`, `getStream`, `streamDisconnected`, the receiver goroutine |
| docker provider | `providers/docker.go` | position in `Run`, event stream | list, inspect, handle events, restart |
| static provider | `providers/static.go` | none | one `ReplaceServers` |
| auto restarter | `utils/restart.go` | none | call again after an error |
| reflection service and resolver | `proxy/reflection.go`, `reflection/resolver.go` | registered files and names, files sent per stream | list services, find files, register files |
| v1alpha adapter | `reflection/adapter.go` | none | converts messages |
| gRPC-Web and response writers | `grpcweb/translate.go`, `utils/http.go`, `utils/reader.go` | per response: headers, headers copied, base64 and gzip encoders | `Write`, `WriteHeader`, `Flush`, `Finish` |
| dashboard | `proxy/dashboard.go` | none | one snapshot of servers and services |
| main | `cmd/proxy/main.go` | none | configuration, listeners, start of the providers |

### How they interact

    provider --ReplaceServers--> server list --go--> service watcher --calls--> reflection client
                                     |                     |                        |
                               cleanupServer         replaceServices      stream, receiver goroutine
                                     |                     |                        |
                                     +----> service map <--+               streamDisconnected
                                                 |
                     requests --findServer-------+------- reflection service, dashboard
                        |                                       |
              gRPC-Web, base64, gzip                     resolver, v1alpha adapter

A provider calls `ReplaceServers`, which cancels watchers, edits the service map and
starts watchers, all under `serverMutex`. Watchers edit the service map on their own
under `servicesMutex`. They share with `ReplaceServers` the field
`stopServiceWatcher`, which no lock protects. The reflection client calls back from
its receiver goroutine, and that callback takes no lock either. Requests read the
service map under the read lock. A watcher that registers services also registers their
files with the resolver, from which the reflection service answers, to v1alpha clients
through the adapter. What a request is answered with passes through the gRPC-Web writer and
the writers below it.

### What is hard, and what makes each part correct

* *Servers and watchers.* Concurrent edits of one map by goroutines that are started
  and cancelled by others. Correct if the list is what the provider asked for, every
  listed server has a live watcher, its routes are what it reported last, and a
  removed server has none.
* *Load balancing.* Requests overlap; slices are reordered and the counter is not
  reset; the counter wraps. Correct if the index is in range and every entry gets its
  turn.
* *Reflection client.* A callback races with the calls. Correct if a response belongs
  to its request, a call always ends, and a lost stream is noticed.
* *Docker provider.* An event stream with gaps, calls that fail, a restart. Correct if
  only containers that the rules admit are exposed and the list is up to date when
  there is nothing left to do.
* *Request path and gRPC-Web.* Headers become trailers depending on when they were set;
  encoders are flushed at certain moments only; the upstream or the client may go at any
  point. Correct if each status arrives once, a broken call does not look finished, and
  nothing of the body stays in an encoder.
* *Reflection service.* Answers are built from files of several servers over time, of which
  those sent before are left out. Correct if the client has every path its files import, and
  finds what it was told of.
* *The whole.* Two providers with one proxy. Correct if only what the rules expose is ever
  routed, and at rest the routes are those of the running containers.

The full list of hazards, each with its line and the properties that cover it, is in
`PROJECT.json`.

## 2. The modules

| Module | Models | Checked by |
|---|---|---|
| `RoutingTable` | abstract: what the service map promises | through the two refinements below |
| `Registry` | server list, watchers, service map | `MCRegistry`, four configurations |
| `RegistryProofs` | theorems about `Registry` | TLAPS |
| `RoundRobin` | one service: its slice, its counter, `findServer` | `MCRoundRobin` |
| `RoundRobinProofs` | theorems about `RoundRobin` | TLAPS |
| `ReflectionClient` | one reflection client and its receivers | `MCReflectionClient`, two configurations |
| `ReflectionClientProofs` | theorems about `ReflectionClient` | TLAPS |
| `Docker` | the Docker provider and its restarter | `MCDocker`, two configurations |
| `DockerProofs` | theorems about `Docker` | TLAPS |
| `Discovery` | both providers and the registry, composed of `Registry` and `Docker` | `MCDiscovery` |
| `DiscoveryProofs` | theorems about `Discovery`, from those about `Registry` and `Docker` | TLAPS |
| `RequestPath` | one request: `ServeHTTP`, gRPC-Web, the response writers | `MCRequestPath` |
| `RequestPathProofs` | theorems about `RequestPath` | TLAPS |
| `ReflectionService` | a stream of the reflection service, the resolver, the v1alpha adapter | `MCReflectionService` |
| `ReflectionProofs` | theorems about `ReflectionService` | TLAPS |

### RoutingTable

One row per upstream: how often it is entered for each service. A step replaces the row
of one server by a report, or withdraws it the way `cleanupServer` does: one entry per
service. Both modules that edit the service map are shown to implement it, each with a
refinement mapping of its own: `Registry` counts entries, `RoundRobin` has the slices.

### Registry

*State.* `servers`, `config`, `owner` are `Proxy.servers` and the fields of
`upstreamServer`. `armed[u]` says that `stopServiceWatcher` is set, `cancelled[u]` that
the watcher's context is done. `rpc`, `target`, `wanted`, `drop`, `victim`, `fresh` are
the locals of the `ReplaceServers` call in progress; `serverMutex` admits one at a time.
`pool[s][u]` counts the entries of `u` in `services[s].servers`, and `names` are the keys
of the map. `pc[u]`, `info[u]` and `stream[u]` belong to the watcher: where it is, what it
fetched, and whether the channel it waits on is open. `offer[c]` is what the upstream
process serves. `applied`, `requested` and `escaped` are history.

*Steps.* `ReplaceServers` locks and splits the old list. `TestCancel`, `StopWatching` and
`RemoveFromServices` are the steps of `cleanupServer`, with other goroutines between them:
the test of `stopServiceWatcher`, the call of what is read a second time, and the edit of the
service map. `NewUpstream` builds a server and starts its watcher; `ReplaceDone` assigns and
unlocks. A watcher goes through

    spawned -> connect -> list -> resolve -> check -> register -> watch -> lost -> list ...
                           ^ |
                           | v
                          retry                        (any select) -> done

with one step for each access to shared state. The check of the context and the
registration are separate steps, as is the publication of the cancel function after the
goroutine has started: these are the gaps in which a removed server escapes.

*Atomicity.* The old list is split in one step and its servers cleaned up afterwards.
The code interleaves both in one loop, but the list and the configurations do not change
meanwhile, so the split is the same. In the loop that builds, the order of the
configurations is left open, as Go leaves the order of a map. The slice header of a
service is edited under `servicesMutex` only, so `replaceServices` and the second half
of `cleanupServer` are one step each.

*Abstractions.* The order within a slice is left to `RoundRobin`. The reflection client is
seen as a watcher sees it, and its channel is assumed to be closed when the stream breaks;
`ReflectionClient` shows when that may fail. If the watcher clears `stopServiceWatcher`
between the test and the call, the second read may or may not see it, and in the latter case
the process ends: `rpc` is then `"panicked"` for good. The other goroutines are let run on, which
only adds behaviours. A provider never hands over the same identity twice, because an upstream
object is never reused.

### RoundRobin

`servers` is the slice in its order, `next` the counter with
`Modulus` values, `ticket[r]` what
`Add` returned to a request that still holds the read lock. Requests overlap in any number
while the writers wait. `replaceServices` filters (`Without` is its loop, with the slice
built so far) and appends, and `cleanupServer` puts the
last entry into the gap. Services are edited independently of each other under one lock, so
one service is enough. `waited` counts, per index, the turns since the last own one, and
starts anew when the slice changes.

### ReflectionClient

The calls hold `client.mu`, and `streamDisconnected` does not. So every read and write of
`v1`, `v1alpha`, `disconnected` and `descriptorCache` is a step of its own on both sides. In
`getStream` that gives the check, the second read that returns the stream, the start of the
receiver, and the assignments in the order of the code, which differs between v1 and
v1alpha. Nil streams, a nil cache that is written, and a channel that is closed twice set
`panicked`, after which nothing moves: hence `CHECK_DEADLOCK FALSE`. The receiver takes a
response off the stream, offers it to a channel of capacity one, and on an error or a full
channel runs `streamDisconnected` and closes the channel.

A stream and the channel made for it share an identity. The two protocol versions exchange
the same messages, so a stream does not record its version, but the two fields remain.
Descriptors are abstracted to whether the cache exists.

### Docker

`pc` follows `Run`: check the mode, list, apply, subscribe, and then for each event list and
apply again; on an error sleep and subscribe again, or fail and be restarted. Containers
start and end at any moment and announce it, if the provider is subscribed. A list, an
inspection, a subscription or the event stream may fail whenever it is used. Which container
is exposed, and as what, follows `handleContainerList`, `getIpAddress` and `getPort`.
`missed` records that a change was neither listed nor announced, and `skipped` which
containers could not be inspected when the list was handled.

`Ip` has the three outcomes of `getIpAddress`: an address, the error of a container that is not in
the network looked for (`None`), and the empty address of one that is in the network but has
neither an IPv4 nor an IPv6 address there, as while it restarts. The last is no error
(`providers/docker.go:284-287`), so `":port"` is handed over; it is the address of the proxy's
own host. A container's address in a network is fixed, and so are its labels. The order of the
cases is the code's, which is not the documented one (finding 5); for a container that uses
the host's network the order makes no difference, because Docker lets it join no other.

### Discovery

`EXTENDS Registry` and an instance of `Docker` whose `servers`, the argument of its last call,
is `requested["docker"]` of `Registry`. The two modules meet in one step: `HandOver` is
`Docker!HandleContainerList` and `ReplaceServers("docker", ...)` at once, the moment the call
gets `serverMutex`. Until the call returns the provider's goroutine is inside it, so
`DockerStep` is disabled by `InCall("docker")`, while containers, watchers and the static
provider go on. `StaticRun` is the one call of `Static.Run`.

### RequestPath

One request per behaviour, because requests share nothing but the service map. `req` says
what it is: its method and path, native gRPC, gRPC-Web or gRPC-Web text, with or without
`gzip` in Accept-Encoding, and whose service it names. `pc` is where `ServeHTTP` is. `w` is
the response through all its layers: the header map the handler sees (`hdr`), that of
`net/http` (`out`; one and the same map for native gRPC), what was sent (`head`, `code`), the
pieces written (`body`), how many of them have left every buffer (`seen`), the bytes since the
last flush (`held`), and how far a base64 decoder gets (`limit`). Operators with the names of the
methods (`WriteHeader`, `Write`, `CopyHeaders`, `Flush`, `Finish`) transform `w`, and the actions apply them in the
order of the code: `Begin` is `WrapRequest` with the announcement of the trailers,
`Unimplemented` is `writeGrpcStatus`, `Respond` copies the upstream's headers, `CopyChunk` is one
read and one auto-flushed write of `io.Copy`, `CopyEnds` adds the trailers, `Return` runs the
deferred `Finish`. The upstream may be unreachable, answer with any subset of the metadata and
the status as headers, refuse, send chunks, or break off anywhere; a client may leave at
any moment. The internal gRPC server and `net/http` are external, modelled by what their
callers rely on.

What a client reads of a response is `Trailers` and `Statuses`. Two kinds of answers are spoilt by
their format, and `Spoilt` names them; the properties that speak of what a client reads have
`~Spoilt` as a premise.

* A text response can be decoded only as far as its flushes fall on multiples of three bytes: each
  flush ends a base64 group, and the groups are not padded (`utils/http.go:66-69`, finding 6).
  That goes for the trailer frame as for the chunks, so `Finish` gives the frame a length too.
  `limit` is the number of pieces before the first such flush. A text response with gzip is
  never readable: its `Content-Encoding` speaks of the bytes inside the base64.
* If the reflection service ends a call without a reply, its first `Flush` commits the headers before
  `CopyHeaders` has run (`grpcweb/translate.go:93-97`). The trailer frame is compressed
  nevertheless, and the client is not told (`Marked`).

Nobody closes the gzip writer, so the last block and the checksum of a gzip stream are never
written (finding 7). They are no piece of the body: a client that decompresses as it reads has
everything that was flushed, and that is the client `Trailers` speaks of. An upstream may end a
body without any status, like a Pancake whose own upstream broke off; the outcome is then
`"bare"`, and the client must see no status either.

### ReflectionService

`Register` and `Publish` are `replaceServices` as far as the reflection service can see it:
first the files, under the lock of the resolver, then the names, when `servicesMutex` is
released (`pending` says that it is held). A file is a linked descriptor, a path in one
version with its imports in fixed versions, and `Over` describes the effect of
`registerFileLocked` on each of the three maps: the last file that brings an entry decides. Only
what a file declares at its top level is registered (`reflection/resolver.go:112-149`): `Nested`
are the symbols and `NestedExtends` the extensions inside its messages, which are asked for and
not found, although `fileDescWithDependencies` sends the file. A
stream asks (`Ask`, through `convertRequest` for v1alpha), is looked up (`Lookup`,
`ListServices`, `ExtensionNumbers`, `UnknownRequest`) and answered (`Build`, which is
`fileDescWithDependencies`; `Send`, through `convertResponse`). The lookup holds the lock, the
building of the answer does not, and registrations happen in between. `received`, `listed` and
`numbered` are what the client knows, and `due` whether its request asked for something it was
told of. `Connect` begins another stream.

## 3. The runs

| Run | Shows |
|---|---|
| `registry_safety` | the invariants, the action property and the refinement of `Registry`, with two providers |
| `registry_liveness` | listed servers register, cancelled watchers return, routes converge |
| `registry_unknown_server` | finding: removed servers in the service map |
| `registry_stale_services` | finding: routes that stay out of date |
| `round_robin` | no division by zero, bounded waiting, refinement |
| `reflection_client` | matching responses, ending calls, noticed breaks |
| `reflection_client_closes` | finding: a channel that is never closed |
| `docker` | exposure rules, up to date when idle, comes back; finding 5 |
| `docker_projects_mode` | finding: a documented mode is refused |
| `discovery` | only eligible containers are routed; routes match containers at rest; refinement of `Docker` |
| `request_path` | what a client is left with, in every format and after every failure; findings 6 and 7 |
| `reflection_service` | imports arrive, promises are kept, answers match, no request is blocked |

### The properties

* `ServersMatchRequest`: after each call a provider has one server per configuration it asked for.
  `UnchangedServersStay`: a server that is asked for again is never dropped.
* `KeptServersAreWatched`: cancelling reaches only servers that are being removed.
* `RoutesAreLastReport`: the routes of a listed server are the whole of its last report.
* `OnlyEscapedServersLinger`: a server that is no longer listed has routes only if it escaped in one
  of the two races, or if it listed a name twice. This is the positive half of the first finding:
  there is no third race.
* `OnlyRefusedServersPanic`: the nil call of `proxy/services.go:39` needs a watcher that returned by
  itself between the test and the call, and only a refused address makes it return.
* `ImplementsTable`: a step concerns the row of one server.
* `ListedServersRegister`, `CancelledWatchersReturn`, `RefetchConverges`: liveness.
* `NoEmptyDivision`: the length cannot become zero between the test and the remainder.
  `BoundedWait`: each entry has its turn within one round, or within two where the counter wraps, as
  long as the counter has a value for each entry.
* `ResponsesMatchRequests`: at most one exchange is on a stream, and what the watcher receives
  answers what it sent. `OnlyErrorsAreDropped`: a full buffer never costs a response. `FetchesEnd`:
  no call hangs on a dead stream.
* `QuietDisconnectsAreSafe`, `BreaksAreNoticed`: as long as no `streamDisconnected` runs while a
  call holds `client.mu`, nothing panics, the stream is forgotten, its channel is closed and the
  watcher sees it.
* `OnlyExposableServers`: whatever fails, only admissible containers are handed over.
  `UpToDateWhenIdle`: with no event left and none missed, the list is that of the running,
  exposable, usable containers that could be inspected: a container that fails costs no other its
  place. *Usable* is a container in its network with a port, not one with an address. `ComesBack`:
  the provider returns to its events again and again.
* `OnlyEligibleContainersRouted`: no upstream of the Docker provider is ever made for a container
  that is not exposed, has no port or is not in its network. `RoutesMatchContainers`: when provider,
  call and watchers have come to rest and no change was missed, every running eligible container
  that could be inspected and is at an address that `grpc.NewClient` accepts has a listed server
  whose routes are a whole report, and no other container is routed, except through a server that
  escaped in a race or listed a name twice. `ImplementsDocker`: nothing the registry does is visible
  to the provider.
* `OneStatusPerCall`: a call that came to its end has exactly one status for the client, the
  upstream's or the proxy's, unless its format spoils it. `FailuresStayVisible`: a call that broke
  off, or whose upstream gave no status, has none, so it cannot be taken for finished; and a status
  is passed on only after everything before it. `MetadataArrives`: headers arrive as headers,
  trailers in a frame that can be decoded, nothing twice, unless the format spoils the answer.
  `NothingHeldBack`: every chunk has left all encoders before the next one is read, the trailer
  frame has left them at the end, and base64 cuts no piece of an answer that is not spoilt.
  `AbandonedRequestsEnd`: a request whose client is gone ends.
* `ImportsArrive`: for every file a client received it has some version of every path that file
  imports, although paths sent before are suppressed. It may be another version than the file was
  linked with: in the run, a client that was sent b1, and then a2, which was linked with b2, does
  not get b2 and may be unable to link a2. The code does nothing against that (hazards without a
  property); `OneVersionLinks`, which is proved, says that there is no other reason.
  `PromisesAreKept`: a listed service whose files were fetched, a listed extension number, and what
  a received file declares at its top level are found. What is nested in a message is not.
  `AnswersMatchRequests`: kind, protocol version, original request and file are those of the
  request. `EveryRequestAnswered`: neither `servicesMutex` nor a registration blocks a stream for
  good.

### Findings

1. *Unknown servers* (`NoUnknownServer`). `proxy/dashboard.go:75-76` hopes that no service
   lists a server that is not in the list. It happens when `cleanupServer` runs before the
   watcher has published its cancel function (`proxy/services.go:38` before line 47), or
   between the check of the context and the registration (lines 77 and 80). Since the watcher
   of the first kind is never cancelled, the routes remain.
2. *Stale services* (`ServicesKeepUpdating`). `providers/static.go:24` and `README.md:48`
   promise updates in an interval. There is no interval in the code: services are fetched
   again after a lost stream only. If an upstream is redeployed while its symbols are
   resolved, the next call opens a new stream, the error is only logged
   (`proxy/services.go:146-150`), and the list of the old process is registered and kept.
3. *A channel that is not closed* (`DisconnectedCloses`). `reflection/client.go:35` says the
   channel is closed when the stream disconnects. The receiver of a v1 stream starts before
   the channel is made; if the stream ends in between, the channel stays open, the watcher
   waits for it, and the client keeps the dead stream, on which every later call fails.
4. *Expose mode `projects`* (`ProjectsModeExposes`). It is documented (`README.md:62`,
   `providers/docker.go:74`), but missing from the list in `checkExposeMode`.

The last three were met while modelling. They are what a passing run says of the code, where a
document says otherwise.

5. *One network* (`UpToDateWhenIdle`). `providers/docker.go:37-42` and `README.md:94-98` say that
   the label's network, the default network and the loopback address are tried in turn. The code
   tries one network: a label replaces the default network (lines 261-264). A container in the
   default network whose label names another one (`NoNet`) is left out.
6. *Base64 without padding* (`OneStatusPerCall`). `utils/http.go:74` says `base64.StdEncoding`;
   line 68 uses `RawStdEncoding`. Two of three lengths of a chunk or of the trailer frame end a
   group in the middle of a quantum, where a decoder of the standard encoding stops.
7. *Gzip without an end* (`NothingHeldBack`). `utils/http.go:107` speaks of compressing with gzip;
   the writer is flushed and never closed, so every compressed answer is a truncated stream.

### Bounds

* `Registry_safety`: two providers, two configurations of which one is refused by
  `grpc.NewClient`, two upstream objects, two services, and a report that names a service
  twice. Two objects are the least with which one server is cleaned up while another one
  registers, or while its successor is built; the object bound is in the guard `Allocatable`.
  Calls that keep, drop and build at once need more objects; those the proofs cover.
  Upstreams are interchangeable, and so are providers, so symmetry is used for both.
* `Registry_live`: one upstream and one provider, without symmetry, all four reports. Liveness
  is a statement about each watcher, and watchers do not wait for each other.
* `RoundRobin`: three servers that may be listed up to twice, two requests, and a counter of
  eight values, so that it wraps within a few requests and its range is no multiple of three,
  five or six. The code has 2^32 values; the proofs cover every range.
* `ReflectionClient`: two streams, so that what is left of the first meets the second, and up
  to two names. Exchanges are sequential, so a third name repeats the second.
* `Docker`: two containers, all five modes, the proxy in a container or outside, three events in
  the stream, and eight kinds of containers: plain, with the label and a second network, excluded, of
  another project, in the host's network, without a port, not in the network its label names,
  and in its network without an address.
* `Discovery`: one container that may be labelled or not, without an address, without a port or
  without a network, which comes and goes, two upstream
  identities, so that it can be dropped and come back, two events, one report, modes `manual` and
  `same_project`, one server in the configuration file. So there is an identity for each of
  the providers, or two for a container that comes back before the static provider has started.
  The state space is a product of two modules that are checked on larger instances by themselves;
  the proofs cover every instance.
* `RequestPath`: two metadata keys, so that one can be a header and the other a trailer; chunks and
  trailer frames of 21 and 22 bytes, which do and do not end a base64 quantum; up to three chunks, so that
  there is a first, a middle and a last one.
* `ReflectionService`: three paths, two of them in two versions with other imports and
  extensions, a nested message, an extension that moves into a message, and four reports: the old version, the new one, both at once, and a service whose
  files were not fetched.

### Fairness

* `Registry`: the scheduler runs every goroutine that can run (weak fairness of the call and of
  each watcher). A `select` with several ready cases chooses at random, so a cancelled context
  is seen eventually (strong fairness of `NoticeCancel`). A fetch ends, because the upstream
  answers or the stream breaks, and an upstream does not refuse forever (strong fairness of
  `ListServices`).
* `ReflectionClient`: weak fairness of the watcher and of each receiver; a request is answered
  or its stream breaks. Nothing forces a stream to break.
* `Docker`: weak fairness of the provider's goroutine and its timers; Docker does not refuse
  the list and the subscription forever. A break of the stream is never forced.
* `RequestPath`: the handler's own steps are weakly fair. Nothing makes an upstream answer; only
  when the client is gone, and the request's context with it, do `Do`, the read of the body or
  `Recv` end (weak fairness of `Cancelled`, which is enabled only then).
* `ReflectionService`: weak fairness of `Publish`; strong fairness of `Serve`, because a reader of
  a `sync.RWMutex` that waits gets in before the next writer.
* `Discovery`: safety only. What must eventually happen is checked in its two parts.

## 4. The proofs

Seven modules hold proofs, for every choice of the constants that satisfies the assumptions of
the module: any number of providers, configurations, servers, services and reports; any
containers, labels and networks, and event queues of any length; any files and import graphs; any
metadata, and bodies of any length; slices of any length, and a counter of any range; any number
of reflection streams and names.

| Module | Theorem | Property |
|---|---|---|
| `RegistryProofs` | `Invariance` | `IInv` |
| | `TypeCorrect` | `TypeOK` |
| | `ServersMatch` | `ServersMatchRequest` |
| | `RoutesCorrect` | `RoutesAreLastReport` |
| | `WatchedCorrect` | `KeptServersAreWatched` |
| | `PanicCorrect` | `OnlyRefusedServersPanic` |
| | `LingerCorrect` | `OnlyEscapedServersLinger` |
| | `UnchangedStay` | `UnchangedServersStay` |
| | `Refinement` | `ImplementsTable` |
| `DockerProofs` | `DockerTypes` | `TypeOK` |
| | `OnlyExposableHandedOver` | `OnlyExposableServers` |
| | `IdleIsUpToDate` | `UpToDateWhenIdle` |
| `DiscoveryProofs` | `DiscoveryIsRegistry` | `DiscoverySpec => Spec` of `Registry` |
| | `DiscoveryIsDocker` | `ImplementsDocker` |
| | `OnlyEligibleRouted` | `OnlyEligibleContainersRouted` |
| | `ContainersAreRouted` | `RoutesMatchContainers` |
| `RoundRobinProofs` | `SlicesTyped` | `TypeOK` |
| | `NeverEmptyDivision` | `NoEmptyDivision` |
| | `RoundRobinFair` | `BoundedWait` |
| | `SlicesImplementTable` | `ImplementsTable` |
| `ReflectionClientProofs` | `ClientTyped` | `TypeOK` |
| | `ClientResponsesMatch` | `ResponsesMatchRequests` |
| | `ClientDropsOnlyErrors` | `OnlyErrorsAreDropped` |
| | `ClientQuietDisconnects` | `QuietDisconnectsAreSafe` |
| `ReflectionProofs` | `ReflectionTypes` | `TypeOK` |
| | `ImportsAlwaysArrive` | `ImportsArrive` |
| | `OneVersionLinks` | the premise `OneVersion` makes every file arrive as it was linked |
| | `ToldNamesAreFound` | `PromisesAreKept` |
| | `AnswersAreRight` | `AnswersMatchRequests` |
| `RequestPathProofs` | `RequestTypeOK` | `TypeOK` |
| | `CallsEndWithOneStatus` | `OneStatusPerCall` |
| | `BrokenCallsCarryNoStatus` | `FailuresStayVisible` |
| | `TranslationKeepsMetadata` | `MetadataArrives` |
| | `WritersKeepNothing` | `NothingHeldBack` |

The assumptions of `Registry` are that reports map services to numbers, that there is at least one
report, that the refused addresses are addresses, and that `None` is none of the other values.
`Docker` assumes that the proxy's own container is a container, or none, and `Discovery`
that `Config` has every configuration a provider may ask for; both assume that the bound on the
event queue is a number. `ReflectionService` assumes of a
linked file what a linker ensures: among the files it brings, each path, name and extension
occurs once. `RequestPath` assumes that chunks are not empty and that no metadata key is one of
the four keys the proxy treats specially. `RoundRobin` assumes that the counter has at least one
value, and `ReflectionClient` that `None` is neither a stream nor the number of a name. No assumption is made about files that were linked separately, and none about
finiteness or about import cycles.

### Registry

*The inductive invariant.* None of the properties is inductive. `KeptServersAreWatched`, for
one, needs to know that a cancel hits a server of `drop`, that `drop` and `fresh` are disjoint,
and that a server is in the list of one provider only. `IInv` collects this:

* `CallConsistent`: the fields of the call in progress are empty between calls; within a call,
  `fresh` has wanted configurations and `drop` others, which keeps the two apart.
* `MembersOwned`: a listed server exists, belongs to that provider and shares its configuration
  with no other.
* `WatchersConsistent`: the cancel function is set exactly while the watcher runs, and only
  usable addresses get past `connect`.
* `RemovedAreSilent`: a removed server that did not escape is cancelled, is not about to
  register, and has in the map what a withdrawal leaves of its last report. This is what
  `OnlyEscapedServersLinger` rests on: such a server can only come to `register` through
  `check`, and there it sees that it is cancelled.
* `VictimConsistent`: a watcher whose cancel function was found has begun to run. So it can only
  have cleared that function by returning, and a watcher with a usable address does not return
  before it is cancelled, which is what the call is about to do.

Each conjunct has a lemma of its own, with one step per action. `WatcherFrame`,
`WatcherLocal`, `CreatedStays`, `MembersStep`, `KeptStep` and `RouteStep` say once what a step
may change, and the conjuncts cite them. `registry_safety` checks `IInv` on its instance.
`Refinement` shows that a step of `Registry` sets one column, which is a `Report` or a
`Withdraw`, or leaves all columns alone.

### Docker

`OnlyExposableServers` is inductive together with `TypeOK` and `ModeAccepted` (past the check, the
mode is one of the three the code handles): `HandedOver` shows that what is not ignored is what
the rules expose and can be used; the address may still be empty. `UpToDateWhenIdle` is not: it needs to know about the time between a change and
its list. `ViewCurrent` says that as long as no change was missed and none is announced in the
event stream, a snapshot is what runs, and the servers are those of what runs. Every step that
changes the containers either announces it or sets `missed`; and a list is taken after the last
relevant event has been consumed.

### Discovery

`StepRegistry` and `StepDocker` show that each step of the composition is a step of either part or
leaves that part alone. For `HandOver` this needs that the arguments are configurations
(`HandedOverEligible`), and for the other steps that only calls of `"docker"` change
`requested["docker"]`. With the inductive invariant of `RegistryProofs`, `DiscoveryInv` adds
that the list a Docker call works on has eligible containers only, because a server is built
long after its list was taken.

`ContainersAreRouted` joins what is proved of the parts. `DockerProofs` is instantiated for the
provider of the composition (`View`), and its invariant says that an idle provider's last list is
`Wanted`. That of `RegistryProofs` says that between calls the servers of the provider have
exactly these configurations, that the watcher of each usable one has not returned, so at rest it
is in `watch`, and that its routes are its last report. What is missing between them is
`WatchedHaveReported`: a watcher gets to `watch` only by registering a report. In the other
direction, a server with routes is listed, or `LingerInv` says why it is not.

### Load balancing

`NoEmptyDivision` is inductive with the types: whoever edits the slice waits for the readers.
`BoundedWait` is not, because how long an entry has waited says nothing without the counter.
`Waits` relates the two: `waited` of an entry is at most the distance from its index to that of the
last turn, counted around the slice; or the counter has wrapped since, has not reached the index
yet, and `waited` is at most a round plus the counter. The premise `Len(servers) <= Modulus` is
needed: with more entries than counter values the last ones have no turn. The refinement rests on
what the three edits do to the number of entries of each server, each a lemma about the set of
indexes (`WithoutFacts`, `TimesAppend`, `TimesCopies`, `WithoutFirstFacts`). The loop of
`replaceServices` is a function over its positions (`WithoutLoop`); what it has built so far has
the entries of the others and none of the server. That is an induction, and since a theorem with an
operator as a parameter cannot be used, `Induction` states it for a set of positions that has zero
and, with every position, the next.

### Reflection client

`ExchangeInv` says where the one request is that a stream may have under way: on its way, answered,
in the receiver's hands, or in the channel; an idle stream has none of these, and a stream is idle
unless the watcher waits on it (`Busy` and `Idle`). It needs no lock, and it survives every race of
`streamDisconnected` with a call, because `ref`, the stream a call works on, is a local of the call.
`QuietDisconnectsAreSafe` needs more: `QuietInv` says that, as long as no disconnect has overlapped a call,
the fields name the stream whose receiver runs (`Fields`), what the call has found out still holds
(`Calling`), and at most one receiver runs (`OneRunning`). A disconnect that starts during a call
sets `overlapped`, so a step of the receiver that clears fields happens only between calls.

### Reflection service

The invariant has the types and three facts about the resolver. `MapsMatch`: an entry is a file
that has what it is filed under. `MapsWhole`: whatever file is in one of the maps, everything it
brings has entries, so a lookup of it succeeds, though perhaps in another version. `ToldIsFound`:
so do the names and numbers the client was told of, because entries are replaced but never removed. The stream
adds `HandlerConsistent` (the handler works on the request the client made) and
`SentIsReceived` (the paths suppressed are those the client has). `ImportsArrive` then follows from
`Build`: of the files that a file brings, each one was sent now, or its path was sent before.
`OneVersionLinks` adds that a path which was sent in one version only was sent in the right one. The
last registration of an entry is a greatest index, whose existence (`MaxIndex`) follows from
the well-foundedness of inclusion among finite sets.

### Request path

The properties speak of the end of a call, so the work is to carry what they need through the
handler. `WriterIdle` says that between two steps of the handler every layer is empty, that the
pieces written are data, and that a text response is still `Legible` if its flushes fell on ends of
quanta; the frame is added to that by `Decodable`. `HandlerConsistent` says what the header maps hold at each place: nothing but the
announcement before an answer (`Untouched`), no status while the reflection service streams
(`Streaming`), exactly the upstream's headers while its body is copied (`Forwarding`), and, per way
the answer came about, what the deferred `Finish` will find (`Answering`). The key fact of the last
one: the status is in the header map of the handler, and in the headers that were sent only if the
upstream put it there. `Finish` leaves out what was sent, so the client sees it once. Each writer
operation has a lemma that says what it does to each field (`WriteHeaderFields`, `WriteFields`,
`FlushFields`, `FinishFields` ...); the steps cite those and never expand a writer.

### What is only model-checked

All liveness properties, because they rest on fairness: `ListedServersRegister`,
`CancelledWatchersReturn` and `RefetchConverges` of `Registry`, `FetchesEnd` and `BreaksAreNoticed` of
`ReflectionClient`, `ComesBack` of `Docker`, `AbandonedRequestsEnd` of `RequestPath`,
`EveryRequestAnswered` of `ReflectionService`. Every safety property that a passing run checks has
a theorem.

## 5. Not modelled

* `main`: configuration, listeners, TLS, CORS, pprof; logging; the page of the dashboard, whose one
  look at the state is `NoUnknownServer`. Setup and presentation.
* The decoding of a text request's body, and the rewriting of its URL: data that no property
  tells apart.
* `SimpleResolver.Clear` and the finders without a caller.
* `AutoRestarter` with a context that is done: `main` passes `context.Background()`.
* The resolver's lock as a state of its own: what it protects, `Register` and `Lookup`, are one
  step each. It is taken inside `servicesMutex` (`proxy/services.go:121`), and no finder takes
  `servicesMutex` while it holds it, so the order of the two cannot be inverted; that is read
  off the code, and `EveryRequestAnswered` is about `servicesMutex` only.
* A reflection stream without an answer and without a break has no deadline
  (`reflection/client.go:112`); the fairness of `Registry` and `ReflectionClient` assumes that it
  does not happen.
* Upstreams that open a v1 stream and refuse it with the first receive, beyond that an error
  may be the first answer: a matter of the gRPC library's version.
* Trailing metadata to native clients, which `proxy/proxy.go:90` does not announce and `net/http`
  therefore drops; and the status of a reflection stream that its client ends
  (`proxy/reflection.go:46` returns `io.EOF` as it came). Both are certain, and a unit test shows
  them.

## 6. Plan

1. *Done:* every component that keeps state is modelled: `RoutingTable`, `Registry`, `RoundRobin`,
   `ReflectionClient`, `Docker`, `Discovery`, `RequestPath`, `ReflectionService`.
2. *Done:* proofs of every safety property of the passing runs, and of the refinements.
3. `ReflectionClient` as an implementation of what `Registry` assumes of a watcher's client: an
   abstract specification of a client whose fetches answer or fail and whose channel closes, and
   the step-by-step refinement as far as `QuietInv` reaches.
