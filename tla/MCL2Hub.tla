------------------------------- MODULE MCL2Hub -------------------------------
(* Instances of L2Hub for TLC: small hubs, each with what one question     *)
(* needs.                                                                  *)
EXTENDS L2Hub, TLC

Port(limit, mode, secure) == [limit |-> limit, mode |-> mode, secure |-> secure]

Frame(src, dst, tags) == [src |-> src, dst |-> dst, tags |-> tags]

(* Every station to every other, untagged.                                 *)
PlainFrames == {f \in {Frame(s, d, <<>>) : s, d \in Macs} : f.src # f.dst}

(* Two transparent ports, the first of them secure, between two threads.   *)
SecureHub(limit) ==
    [frames |-> PlainFrames, threads |-> Threads, max_ports |-> 2, port_limit |-> limit,
     ports |-> <<Port(limit, Transparent, TRUE), Port(limit, Transparent, FALSE)>>,
     modes |-> {}, limits |-> {}, secures |-> {}, edits |-> 0, time |-> 3]

(* Frames with every stack of tags worth telling apart, from no station,   *)
(* and one from a station, which is learned.                               *)
TaggedFrames(mac) ==
    {Frame(Group, Group, tags) : tags \in {<<>>, <<0>>, <<1>>, <<2>>, <<0, 1>>,
                                           <<1, 2>>, <<2, 1>>, <<2, 2>>}}
    \cup {Frame(mac, Group, <<>>)}

(* Trunks with and without a native VLAN, a transparent port that is       *)
(* connected, and ports that become access ports.                          *)
VlanHub(mac, thread) ==
    [frames |-> TaggedFrames(mac), threads |-> {thread}, max_ports |-> 3,
     port_limit |-> 1,
     ports |-> <<Port(NoLimit, Trunk({0, 1, 2}, 2), FALSE),
                 Port(NoLimit, Trunk({1, 2}, NoVlan), FALSE)>>,
     modes |-> {Access(1), Access(2)}, limits |-> {}, secures |-> {TRUE},
     edits |-> 1, time |-> 0]

TableAndVlans ==
    {[SecureHub(1) EXCEPT !.limits = {0}, !.edits = 1, !.time = 2]}
    \cup {VlanHub(mac, thread) : mac \in Macs, thread \in Threads}

Symmetry == Permutations(Threads) \cup Permutations(Macs)
=============================================================================
