------------------------------ MODULE MCDocker ------------------------------
(* Small instances of Docker for TLC.                                      *)
EXTENDS Docker

CONSTANTS n1, n2, own, other

Plain == [enable |-> None, project |-> own, net |-> None, networks |-> {n1},
          addressed |-> {n1}, host |-> FALSE, port |-> None, ports |-> {1, 2}, plaintext |-> FALSE]

Enabled  == [Plain EXCEPT !.enable = "true", !.net = n2, !.networks = {n1, n2},
                          !.addressed = {n1, n2}]
Excluded == [Plain EXCEPT !.enable = "false"]
Foreign  == [Plain EXCEPT !.enable = "true", !.project = other, !.plaintext = TRUE]
OnHost   == [Plain EXCEPT !.enable = "true", !.project = None, !.host = TRUE,
                          !.networks = {}, !.addressed = {}, !.port = 1]
NoPort   == [Plain EXCEPT !.enable = "true", !.ports = {}]
(* In the default network, but labelled with another one.                  *)
NoNet    == [Plain EXCEPT !.enable = "true", !.net = n2]
(* In its network without an address.                                      *)
Restarts == [Enabled EXCEPT !.addressed = {n1}]

AllKinds == {Plain, Enabled, Excluded, Foreign, OnHost, NoPort, NoNet, Restarts}
AllModes == {"", "all", "manual", "same_project", "projects"}

ProjectModes == {"projects"}
=============================================================================
