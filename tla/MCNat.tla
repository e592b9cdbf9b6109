------------------------------- MODULE MCNat -------------------------------
(* Instances of Nat for TLC.                                               *)
EXTENDS Nat, TLC

CONSTANTS h1, h2

Key(ns, proto, ip, port) == [ns |-> ns, proto |-> proto, ip |-> ip, port |-> port]

(* Two endpoints: of one host, which are the ends of a call, or of a host  *)
(* of a namespace and one of the main network.                             *)
OneHost  == {Key(1, "udp", h1, 4), Key(1, "udp", h1, 5)}
TcpHosts == {Key(1, "tcp", h1, 4), Key(0, "tcp", h2, 5)}
TwoHosts == {Key(1, "udp", h1, 4), Key(0, "tcp", h2, 5)}

(* A host that speaks H.323, and one whose data connections are expected.  *)
Caller == {Key(1, "tcp", h1, 4), Key(1, "udp", h1, 4), Key(1, "udp", h1, 5),
           Key(0, "tcp", h2, 5)}

(* The endpoint that H.323 meets, and the one FTP or IRC meets.            *)
Phone  == {Key(1, "tcp", h1, 4)}
Client == {Key(0, "tcp", h2, 5)}

OneServer == {Key(0, "tcp", h1, 4)}

AllKeys == Caller \cup OneServer

NoTimeouts == [proto \in Protos |-> 0]

Symmetry == Permutations(Remotes)

Unlimited ==
    [max_mappings_per_host |-> 0, max_mappings_per_namespace |-> 0,
     max_peers_per_host |-> 0, max_peers_per_namespace |-> 0, max_peers |-> 0,
     max_expectations_per_host |-> 0, max_expectations_per_namespace |-> 0,
     max_hosts_per_namespace |-> 0]

(* Two mappings, a remote and an expectation for each host.                *)
LowLimits == [Unlimited EXCEPT !.max_mappings_per_host = 2, !.max_peers_per_host = 1,
                               !.max_expectations_per_host = 1]

SYN == {{"SYN"}}

Scope(ks, media, data, segments, ports, limits, pending) ==
    {[keys |-> ks, media |-> media, data |-> data, remotes |-> {r},
      segments |-> segments, forwards |-> ports, hairpins |-> ports,
      pending |-> pending, limits |-> limits] : r \in Remotes}

(* All the tables at work; SIP of one host; data connections that are      *)
(* expected while H.323 has its endpoint mapped and expects it late, with  *)
(* forwards or with packets coming in; the same beside SIP of another      *)
(* host; calls until the expectations are full; and the sessions of two    *)
(* remotes with one server.                                                *)
TablesAndSessions ==
    UNION {Scope(OneServer, OneServer, OneServer, SYN, {5}, {LowLimits}, 1),
           Scope(OneHost, OneHost, {}, {}, {4}, {LowLimits}, 1),
           Scope(TcpHosts, TcpHosts, Client, {}, {4}, {LowLimits}, 0),
           Scope(TcpHosts, Phone, Client, SYN, {}, {LowLimits}, 0),
           Scope(TwoHosts, TwoHosts, Client, SYN, {}, {LowLimits}, 0),
           Scope(Caller, Phone, Client, {}, {}, {Unlimited}, 0),
           {[keys |-> OneServer, media |-> {}, data |-> {}, remotes |-> Remotes,
             segments |-> {{"SYN"}, {"FIN", "ACK"}}, forwards |-> {5},
             hairpins |-> {}, pending |-> 0, limits |-> {LowLimits, Unlimited}]}}
=============================================================================
