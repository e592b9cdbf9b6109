---------------------------- MODULE MCDhcpServer ----------------------------
(* Instances of DhcpServer for TLC.                                        *)
EXTENDS DhcpServer, TLC

CONSTANTS m1, m2

Client(key, mac, src) == [key |-> key, mac |-> mac, src |-> src]

(* A machine with two client identifiers, and one with an address reserved *)
(* for it; the server restarts.                                            *)
Mixed(j, k, l) ==
    [clients |-> {Client(j, m1, m1), Client(k, m1, m1), Client(l, m2, m2)},
     pool |-> {1, 2, 3}, reserved |-> m2 :> 2, max_leases |-> 3, time |-> 3,
     restarts |-> 1]

(* As many clients behind a relay as there are addresses.                  *)
Relayed ==
    [clients |-> {Client(k, Nobody, Nobody) : k \in Keys},
     pool |-> Subnet, reserved |-> <<>>, max_leases |-> 4, time |-> 1, restarts |-> 0]

MixedAndRelayed ==
    {Mixed(e[1], e[2], e[3]) : e \in {e \in Keys \X Keys \X Keys :
                                        Cardinality({e[1], e[2], e[3]}) = 3}}
    \cup {Relayed}

Symmetry == Permutations(Keys)
=============================================================================
