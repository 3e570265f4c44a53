---------------------------- MODULE RoutingTable ----------------------------
(***************************************************************************)
(* What the service map of the proxy (Proxy.services) promises to          *)
(* everything that reads it: seen from outside, it is one row per upstream *)
(* server, and a step changes the row of at most one server.  The row is   *)
(* either replaced as a whole by what that server reported, or withdrawn.  *)
(*                                                                         *)
(* Registry implements this table with slices that are edited service by   *)
(* service by several goroutines; RoundRobin implements it with the slices *)
(* themselves, in their order.                                             *)
(***************************************************************************)
EXTENDS Naturals

CONSTANTS
  Upstream,   \* identities of upstream servers
  Service,    \* service names
  Replies     \* the service lists a server may report: Service -> how often

VARIABLE
  routes      \* routes[u][s]: how many entries upstream u has for service s

-----------------------------------------------------------------------------

NoRoutes == [s \in Service |-> 0]

(* cleanupServer removes the first entry of a server from every service.   *)
Withdrawn(r) == [s \in Service |-> IF r[s] = 0 THEN 0 ELSE r[s] - 1]

TypeOK == routes \in [Upstream -> [Service -> Nat]]

Init == routes = [u \in Upstream |-> NoRoutes]

Report(u, r) == routes' = [routes EXCEPT ![u] = r]

Withdraw(u) == routes' = [routes EXCEPT ![u] = Withdrawn(@)]

Next == \E u \in Upstream : Withdraw(u) \/ \E r \in Replies : Report(u, r)

Spec == Init /\ [][Next]_routes

=============================================================================
