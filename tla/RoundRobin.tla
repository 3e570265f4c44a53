----------------------------- MODULE RoundRobin -----------------------------
(***************************************************************************)
(* One entry of Proxy.services: the slice of upstreams that provide a      *)
(* service and the counter findServer takes turns with (proxy/proxy.go).   *)
(*                                                                         *)
(* Registry counts how often an upstream is in the slice; here the slice   *)
(* has its order, because the turn is an index into it, and the editing    *)
(* code reorders: replaceServices moves the server to the back, and        *)
(* cleanupServer puts the last server into the gap.                        *)
(*                                                                         *)
(* findServer holds the read lock of servicesMutex, so requests overlap    *)
(* each other between the counter's atomic Add and the index, and the      *)
(* writers wait for them.                                                  *)
(***************************************************************************)
EXTENDS Integers, Sequences, FiniteSets

CONSTANTS
  Upstream,     \* upstream servers
  Request,      \* concurrent calls of findServer
  Name,         \* the name of the service
  Counts,       \* how often a server may list the service
  Modulus,      \* values of the counter: 2^32 in the code
  None          \* no ticket, or no server

ASSUME CountersAssumption ==
  /\ Counts \subseteq Nat
  /\ Modulus \in Nat \ {0}
  /\ None \notin Upstream /\ None \notin Nat

VARIABLES
  servers,      \* upstreamService.servers
  next,         \* upstreamService.next
  ticket,       \* ticket[r]: what Add returned to r, while it holds the lock
  answer,       \* answer[r]: what the last call of r returned
  \* history variable, read by properties only
  waited        \* waited[i]: turns since servers[i] had its own, in this slice

vars == <<servers, next, ticket, answer, waited>>

Entries(u) == {i \in DOMAIN servers : servers[i] = u}

TypeOK ==
  /\ servers \in Seq(Upstream)
  /\ next \in 0 .. Modulus - 1
  /\ ticket \in [Request -> {None} \cup 0 .. Modulus - 1]
  /\ answer \in [Request -> {None} \cup Upstream]
  /\ waited \in [DOMAIN servers -> Nat]

Init ==
  /\ servers = <<>>
  /\ next = 0
  /\ ticket = [r \in Request |-> None]
  /\ answer = [r \in Request |-> None]
  /\ waited = <<>>

-----------------------------------------------------------------------------
(* The writers of the slice, under the write lock of servicesMutex.        *)

WriteLock == \A r \in Request : ticket[r] = None

(* Give the service another slice.  The counter is not reset.              *)
SetServers(q) ==
  /\ servers' = q
  /\ waited' = IF q = servers THEN waited ELSE [i \in DOMAIN q |-> 0]
  /\ UNCHANGED <<next, ticket, answer>>

(* The slice without the entries of u, filtered in its order.              *)
Without(u) ==
  LET filtered[i \in 0 .. Len(servers)] ==
        IF i = 0 THEN <<>>
        ELSE IF servers[i] = u THEN filtered[i - 1]
        ELSE Append(filtered[i - 1], servers[i])
  IN  filtered[Len(servers)]

(* replaceServices for a server that lists the service n times.            *)
ReplaceServices(u, n) ==
  /\ WriteLock
  /\ SetServers(Without(u) \o [i \in 1 .. n |-> u])

(* Mistake: the last server is moved to the gap and left at the end, too.  *)
WithoutFirst_Uncut(u) ==
  LET i == CHOOSE j \in Entries(u) : \A k \in Entries(u) : j <= k
  IN  [servers EXCEPT ![i] = servers[Len(servers)]]

(* The slice without the first entry of u: the last entry takes its place. *)
WithoutFirst(u) ==
  LET i == CHOOSE j \in Entries(u) : \A k \in Entries(u) : j <= k
      n == Len(servers)
  IN  SubSeq([servers EXCEPT ![i] = servers[n]], 1, n - 1)

(* Mistake: the lock is not taken.                                         *)
CleanupServer_Unlocked(u) ==
  /\ Entries(u) # {}
  /\ SetServers(WithoutFirst(u))

(* The part of cleanupServer that concerns this service.                   *)
CleanupServer(u) ==
  /\ WriteLock
  /\ Entries(u) # {}
  /\ SetServers(WithoutFirst(u))

-----------------------------------------------------------------------------
(* findServer.                                                             *)

(* Mistake: the counter is wider than its type.                            *)
Added_Unbounded(n) == n + 1

(* atomic.Uint32.Add(1).                                                   *)
Added(n) == (n + 1) % Modulus

(* Mistake: the last index is left out.                                    *)
Turn_Short(t) == IF Len(servers) = 1 THEN 1 ELSE (t % (Len(servers) - 1)) + 1

(* The index, counted from one, that a value of the counter selects.       *)
Turn(t) == (t % Len(servers)) + 1

(* Nobody provides the service: the request is answered Unimplemented.     *)
FindNobody(r) ==
  /\ ticket[r] = None
  /\ servers = <<>>
  /\ answer' = [answer EXCEPT ![r] = None]
  /\ UNCHANGED <<servers, next, ticket, waited>>

(* Take the read lock and the next ticket.                                 *)
TakeTicket(r) ==
  /\ ticket[r] = None
  /\ servers # <<>>
  /\ next' = Added(next)
  /\ ticket' = [ticket EXCEPT ![r] = next']
  /\ waited' = [i \in DOMAIN servers |-> IF i = Turn(next') THEN 0 ELSE waited[i] + 1]
  /\ UNCHANGED <<servers, answer>>

(* Index the slice and release the lock.                                   *)
FindServer(r) ==
  /\ ticket[r] # None
  /\ answer' = [answer EXCEPT ![r] = servers[Turn(ticket[r])]]
  /\ ticket' = [ticket EXCEPT ![r] = None]
  /\ UNCHANGED <<servers, next, waited>>

-----------------------------------------------------------------------------

Next ==
  \/ \E u \in Upstream, n \in Counts : ReplaceServices(u, n)
  \/ \E u \in Upstream : CleanupServer(u)
  \/ \E r \in Request : FindNobody(r) \/ TakeTicket(r) \/ FindServer(r)

Spec == Init /\ [][Next]_vars

-----------------------------------------------------------------------------
(* Properties.                                                             *)

(* While a request holds the read lock the slice it indexes is not empty:  *)
(* the remainder in findServer never divides by zero.                      *)
NoEmptyDivision ==
  (\E r \in Request : ticket[r] # None) => servers # <<>>

(* "round robin load balancing" (proxy/proxy.go:105): while the slice      *)
(* stays as it is every entry has its turn before another has two, however *)
(* requests overlap.  Only where the counter wraps, whose range the number *)
(* of entries need not divide, can an entry wait through another round.    *)
(* (With more entries than the counter has values some have no turn.)      *)
BoundedWait ==
  Len(servers) <= Modulus =>
    \A i \in DOMAIN servers :
      \/ waited[i] < Len(servers)
      \/ waited[i] < 2 * Len(servers) - 1 /\ next < i - 1

(* The slice implements the abstract routing table: filtering, appending   *)
(* and swapping change how often one server is listed, and no other.       *)
Table == INSTANCE RoutingTable WITH
  Service <- {Name},
  Replies <- [{Name} -> Counts],
  routes  <- [u \in Upstream |-> [s \in {Name} |-> Cardinality(Entries(u))]]

ImplementsTable == Table!Spec

=============================================================================
