---------------------------- MODULE MCDiscovery ----------------------------
(* A small instance of Discovery for TLC: one container, exposed by its    *)
(* label or not, with and without an address and a port, that comes and    *)
(* goes, a server in the configuration file, and identities for two        *)
(* upstreams: one for each provider, or, before the static provider has    *)
(* started, two for a container that comes back.                           *)
EXTENDS Discovery, TLC

CONSTANTS n1, s1

Labelled   == [enable |-> "true", project |-> None, net |-> None, networks |-> {n1},
               addressed |-> {n1}, host |-> FALSE, port |-> None, ports |-> {1, 2},
               plaintext |-> FALSE]
Unlabelled == [Labelled EXCEPT !.enable = None]
Restarts   == [Labelled EXCEPT !.addressed = {}]
NoPort     == [Labelled EXCEPT !.ports = {}]
NoNet      == [Labelled EXCEPT !.networks = {}]

AllKinds == {Labelled, Unlabelled, Restarts, NoPort, NoNet}

ConfigFor(c) == [ip |-> <<c, n1>>, port |-> 1, plaintext |-> FALSE]
NoAddress    == [ip |-> <<>>, port |-> 1, plaintext |-> FALSE]
FileServer   == [ip |-> <<"loopback">>, port |-> 2, plaintext |-> TRUE]
FileServers  == {FileServer}
Configs      == {ConfigFor(c) : c \in Container} \cup {NoAddress} \cup FileServers

OneReply == {[s \in Service |-> 1]}

Symmetric == Permutations(Upstream)
=============================================================================
