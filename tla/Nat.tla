-------------------------------- MODULE Nat --------------------------------
(***************************************************************************)
(* The tables of the IPv4 NAT (src/src/nat/nat.rs, ports.rs, track.rs):    *)
(* mappings of inside endpoints to outside ports, the reverse table by     *)
(* which inbound packets find them, port forwards, the expectations of     *)
(* application-layer gateways (ALGs), and who holds which outside port.    *)
(*                                                                         *)
(* Each handler works under the lock of NatInner, so it is one step on the *)
(* record inner, built from operators on such a record t.  A time the code *)
(* keeps (last_active, expires, open_until...) is the time left before it  *)
(* matters: -1 is past, Forever never comes, and Tick counts all down.     *)
(***************************************************************************)
EXTENDS Integers, FiniteSets, FiniteSetsExt, Functions

CONSTANTS
    Keys,               \* NatKey: inside endpoints [ns, proto, ip, port]
    Remotes,            \* remote endpoints (address and port)
    AnyRemote,          \* an expectation's remote, unspecified
    Ports,              \* outside ports
    PORT_MIN, PORT_MAX, \* the dynamic pool
    PRESERVE_MIN,
    TIMEOUT,            \* per protocol: a mapping's, or an unsettled remote's
    TCP_ESTABLISHED,    \* timeout of an established TCP connection
    LEASE,              \* life of a forward that has one
    EXPECT,             \* life of an expectation
    ALG_OPEN_WINDOW, RECLAIM_INTERVAL, SWEEP_INTERVAL,
    MAX_PEERS,          \* remotes tracked per mapping
    MAX_EXPECTATIONS,
    Scopes              \* instances, of which a behaviour has one: the endpoints
                        \* (keys), remotes and sets of TCP flags (segments) of its
                        \* packets; the ports that forwards are asked for and the
                        \* public ports that inside hosts send to (hairpins);
                        \* the endpoints that SIP and H.323 (media) and FTP and
                        \* IRC (data) meet in what they rewrite, and the bound on
                        \* what the former have yet to expect when they have
                        \* another mapped (pending); the NatLimits an owner may
                        \* set

Protos == {"tcp", "udp"}
Forever == -2
NoPort == -1
Times == {x \in Int : x >= Forever}

(* NatLimits, 0 being no cap.                                              *)
NatLimits ==
    [max_mappings_per_host : Nat, max_mappings_per_namespace : Nat,
     max_peers_per_host : Nat, max_peers_per_namespace : Nat, max_peers : Nat,
     max_expectations_per_host : Nat, max_expectations_per_namespace : Nat,
     max_hosts_per_namespace : Nat]

ASSUME NatAssumption ==
    /\ \A k \in Keys : k.proto \in Protos /\ k.port \in Ports /\ k.ns \in Nat
    /\ Ports \subseteq Nat /\ IsFiniteSet(Ports)
    /\ PORT_MIN .. PORT_MAX \subseteq Ports /\ PORT_MIN \in Ports
    /\ AnyRemote \notin Remotes /\ Remotes \cap Ports = {}
    /\ TIMEOUT \in [Protos -> Nat]
    /\ {TCP_ESTABLISHED, LEASE, EXPECT, ALG_OPEN_WINDOW, RECLAIM_INTERVAL,
        SWEEP_INTERVAL, MAX_PEERS, MAX_EXPECTATIONS} \subseteq Nat
    /\ \A s \in Scopes :
        /\ s.keys \subseteq Keys /\ s.remotes \subseteq Remotes
        /\ s.forwards \subseteq Ports /\ s.hairpins \subseteq Ports
        /\ s.limits \subseteq NatLimits /\ s.limits # {}

VARIABLES
    inner,      \* NatInner
    sweep,      \* next_sweep
    attached,   \* the namespaces with a side in ns_sides
    late,       \* detached namespaces with one call still on its way in
    asked,      \* what ALGs have yet to expect: the endpoints they have had
                \* mapped, with the outside ports they were told
    shared,     \* history: the TCP ports an ALG's endpoint came to be expected
                \* on beside another endpoint
    scope       \* the instance

calls == <<asked, shared>>
vars == <<inner, sweep, attached, late, calls, scope>>

Pool == PORT_MIN .. PORT_MAX
HostOf(k) == <<k.ns, k.ip>>
Namespaces == {k.ns : k \in Keys} \ {0}
Peers == Remotes \cup Ports
At(k, p) == <<k.proto, p>>

(* A function with x sent to v, and one without the arguments in S.        *)
Put(f, x, v) == [y \in DOMAIN f \cup {x} |-> IF y = x THEN v ELSE f[y]]
Without(f, S) == Restrict(f, DOMAIN f \ S)

(* A cap, 0 being none.                                                    *)
Within(n, max) == max = 0 \/ n < max

-----------------------------------------------------------------------------
(* Ports and the tables that hold them.                                    *)

(* PortMap::remove and retain: each entry that goes releases its port.     *)
Release(t, rks) ==
    [t EXCEPT !.holders =
        [p \in Ports |-> t.holders[p] - Cardinality({rk \in rks : rk[2] = p})]]

Acquire(t, p) == [t EXCEPT !.holders[p] = @ + 1]

Bind(t, rk, k) ==
    [(IF rk \in DOMAIN t.reverse THEN t ELSE Acquire(t, rk[2]))
        EXCEPT !.reverse = Put(@, rk, k)]

Unbind(t, rks) ==
    [Release(t, rks \cap DOMAIN t.reverse) EXCEPT !.reverse = Without(@, rks)]

Endpoint(t, rk) == t.forwards[rk].key

(* Mutant of ForwardsRemove: the index by endpoint is left behind.         *)
ForwardsForget(t, rks) ==
    [Release(t, rks \cap DOMAIN t.forwards) EXCEPT !.forwards = Without(@, rks)]

ForwardsRemove(t, rks) ==
    LET out == rks \cap DOMAIN t.forwards
    IN  [Release(t, out) EXCEPT
            !.forwards = Without(@, out),
            !.byEndpoint = Without(@, {k \in DOMAIN @ :
                                         @[k] \in out /\ k = Endpoint(t, @[k])})]

(* Mutant of ForwardsInsert: the forward it replaces is not taken out.     *)
ForwardsOverwrite(t, rk, f) ==
    [Acquire(t, rk[2]) EXCEPT !.forwards = Put(@, rk, f),
                              !.byEndpoint = Put(@, f.key, rk)]

ForwardsInsert(t, rk, f) ==
    [Acquire(ForwardsRemove(t, {rk}), rk[2]) EXCEPT
        !.forwards = Put(@, rk, f),
        !.byEndpoint = Put(@, f.key, rk)]

(* An expectation is known by what it expects: its target, outside port    *)
(* and remote.  A port is held once for each expectation on it.            *)
ExpectationsDrop(t, es) ==
    [t EXCEPT !.expectations = Without(@, es),
              !.holders = [p \in Ports |->
                             t.holders[p] - Cardinality({e \in es : e.port = p})]]

(* Mutant of ExpectationsPush: the port is not held.                       *)
ExpectationsPushUnheld(t, e, one) ==
    [t EXCEPT !.expectations = Put(@, e, [left |-> EXPECT, one |-> one])]

ExpectationsPush(t, e, one) ==
    [Acquire(t, e.port) EXCEPT
        !.expectations = Put(@, e, [left |-> EXPECT, one |-> one])]

Lapsed(t) == {e \in DOMAIN t.expectations : t.expectations[e].left < 0}
Live(t) == DOMAIN t.expectations \ Lapsed(t)

PurgeLapsed(t) == ExpectationsDrop(t, Lapsed(t))

(* PortUse::search: the first of the ports at or after from, or round      *)
(* again.                                                                  *)
FirstFrom(ports, from) ==
    LET after == {p \in ports : p >= from}
    IN  IF after # {} THEN Min(after) ELSE Min(ports)

FreeIn(t, ports) == {p \in ports : t.holders[p] = 0}

Choose(t, want) ==
    LET free == FreeIn(t, Pool)
        same == {p \in free : p % 2 = want % 2}
    IN  IF want >= PRESERVE_MIN /\ t.holders[want] = 0 THEN want
        ELSE IF same # {} THEN FirstFrom(same, t.nextPort)
        ELSE IF free # {} THEN FirstFrom(free, t.nextPort)
        ELSE NoPort

After(p) == IF p >= PORT_MAX THEN PORT_MIN ELSE p + 1

FreePairs(t) == {p \in Pool : p % 2 = 0 /\ {p, p + 1} \subseteq FreeIn(t, Pool)}

-----------------------------------------------------------------------------
(* Mappings.  A mapping's alias is the empty set or holds the mapping that *)
(* a forward displaced.                                                    *)

Mapping(k, p, open) ==
    [port |-> p, left |-> TIMEOUT[k.proto], peers |-> <<>>, open |-> open,
     openLeft |-> -1, alias |-> {}]

PortsOf(m) == {m.port} \cup {a.port : a \in m.alias}
IsOpen(m) == m.open \/ m.openLeft >= 0
TrackedBy(m) == DOMAIN m.peers \cup UNION {DOMAIN a.peers : a \in m.alias}

(* Peers::expire: the remotes still live, and whether the side may go.     *)
LivePeers(m) == {r \in DOMAIN m.peers : m.peers[r].left >= 0}
Idle(m) == LivePeers(m) = {} /\ m.left < 0
Pruned(m) == [m EXCEPT !.peers = Restrict(@, LivePeers(m))]

(* Mapping::expire and idle: a displaced side goes first, and while it is  *)
(* there the mapping stays as it is.                                       *)
Expired(m) ==
    LET alias == {Pruned(a) : a \in {a \in m.alias : ~Idle(a)}}
    IN  IF alias = {} THEN [Pruned(m) EXCEPT !.alias = {}]
        ELSE [m EXCEPT !.alias = alias]

Gone(m) == Expired(m).alias = {} /\ Idle(m)

(* expire_mapping_locked, for each mapping of ks.                          *)
ExpireMappings(t, ks) ==
    LET here == ks \cap DOMAIN t.mappings
        gone == {k \in here : Gone(t.mappings[k])}
        left == UNION {{At(k, a.port) : a \in t.mappings[k].alias} :
                         k \in {k \in here : Expired(t.mappings[k]).alias = {}}}
        main == {rk \in {At(k, t.mappings[k].port) : k \in gone} \cap DOMAIN t.reverse :
                    t.reverse[rk] \in gone}
    IN  [Unbind(t, left \cup main) EXCEPT
            !.mappings = [k \in DOMAIN @ \ gone |->
                            IF k \in here THEN Expired(@[k]) ELSE @[k]]]

(* Mutant of RemoveMappingsAt: the displaced side goes too.                *)
RemoveWholeMappingsAt(t, rks) ==
    [Unbind(t, rks) EXCEPT
        !.mappings = Without(@, {t.reverse[rk] : rk \in rks \cap DOMAIN t.reverse})]

(* remove_mapping_at_locked, for each port of rks: the sides on it go, and *)
(* a displaced side takes its place back.                                  *)
RemoveMappingsAt(t, rks) ==
    LET Cut(k, s) == /\ At(k, s.port) \in rks \cap DOMAIN t.reverse
                     /\ t.reverse[At(k, s.port)] = k
        Left(k)   == {a \in t.mappings[k].alias : ~Cut(k, a)}
        Whole(k)  == ~Cut(k, t.mappings[k])
    IN  [Unbind(t, rks) EXCEPT
            !.mappings = [k \in {j \in DOMAIN @ : Whole(j) \/ Left(j) # {}} |->
                            IF Whole(k) THEN [@[k] EXCEPT !.alias = Left(k)]
                            ELSE CHOOSE a \in Left(k) : TRUE]]

ForwardLapsed(t, rk) == rk \in DOMAIN t.forwards /\ t.forwards[rk].left = -1

DropForwards(t, rks) == RemoveMappingsAt(ForwardsRemove(t, rks), rks)

ExpireMappingAt(t, rk) ==
    IF rk \in DOMAIN t.reverse THEN ExpireMappings(t, {t.reverse[rk]}) ELSE t

(* expire_port_locked.                                                     *)
ExpirePort(t, rk) ==
    ExpireMappingAt(IF ForwardLapsed(t, rk) THEN DropForwards(t, {rk}) ELSE t, rk)

DropLapsedForwards(t) ==
    DropForwards(t, {rk \in DOMAIN t.forwards : ForwardLapsed(t, rk)})

(* Hosts with a mapping, or in the hand of the caller, are kept in mind.   *)
HostsHolding(t, inHand) == {HostOf(k) : k \in DOMAIN t.mappings} \cup inHand
ForgetHosts(t, inHand) == [t EXCEPT !.hosts = @ \cap HostsHolding(t, inHand)]

(* Mutant of Expire: lapsed forwards stay until someone asks for the port. *)
ExpireMappingsOnly(t, inHand) ==
    ForgetHosts(PurgeLapsed(ExpireMappings(t, DOMAIN t.mappings)), inHand)

(* expire_locked.                                                          *)
Expire(t, inHand) ==
    ForgetHosts(DropLapsedForwards(PurgeLapsed(ExpireMappings(t, DOMAIN t.mappings))),
                inHand)

-----------------------------------------------------------------------------
(* What each host may hold.                                                *)

OfHost(k, j) == HostOf(j) = HostOf(k)
OfNamespace(k, j) == j.ns = k.ns

(* How many mappings, and remotes, the mappings in ks have.                *)
MappingsIn(t, ks) ==
    MapThenSumSet(LAMBDA k : 1 + Cardinality(t.mappings[k].alias),
                  ks \cap DOMAIN t.mappings)

PeersIn(t, ks) ==
    MapThenSumSet(LAMBDA k : Cardinality(DOMAIN t.mappings[k].peers)
                      + MapThenSumSet(LAMBDA a : Cardinality(DOMAIN a.peers),
                                      t.mappings[k].alias),
                  ks \cap DOMAIN t.mappings)

(* host_locked: the host is known afterwards, or refused.                  *)
WithHost(t, h, force) ==
    LET held == t.hosts \cap HostsHolding(t, {})
        HasRoom(hosts) == Within(Cardinality({g \in hosts : g[1] = h[1]}),
                                 t.limits.max_hosts_per_namespace)
    IN  IF h \in t.hosts \/ h[1] = 0 \/ force \/ HasRoom(t.hosts)
        THEN [t EXCEPT !.hosts = @ \cup {h}]
        ELSE [t EXCEPT !.hosts = IF HasRoom(held) THEN held \cup {h} ELSE held]

(* new_mapping_locked grants an endpoint of k's host its nth mapping.      *)
Granted(t, k, n) ==
    /\ HostOf(k) \in t.hosts
    /\ Within(MappingsIn(t, {j \in Keys : OfHost(k, j)}) + n - 1,
              t.limits.max_mappings_per_host)
    /\ \/ k.ns = 0
       \/ Within(MappingsIn(t, {j \in Keys : OfNamespace(k, j)}) + n - 1,
                 t.limits.max_mappings_per_namespace)

(* PeerQuotas::take.                                                       *)
PeerGranted(t, k) ==
    /\ Within(PeersIn(t, {j \in Keys : OfHost(k, j)}), t.limits.max_peers_per_host)
    /\ \/ k.ns = 0
       \/ Within(PeersIn(t, {j \in Keys : OfNamespace(k, j)}),
                 t.limits.max_peers_per_namespace)
    /\ Within(PeersIn(t, Keys), t.limits.max_peers)

(* alloc_port_locked: a port, after a reclaim if need be.                  *)
Reclaim(t, inHand) ==
    IF t.reclaim > 0 THEN t
    ELSE Expire([t EXCEPT !.reclaim = RECLAIM_INTERVAL], inHand)

PortTaken(t, p, want) ==
    [port |-> p,
     t |-> IF p # want /\ p \in Pool THEN [t EXCEPT !.nextPort = After(p)] ELSE t]

Choosing(t, want) == PortTaken(t, Choose(t, want), want)

ReclaimFor(t, want, inHand) ==
    IF Choose(t, want) = NoPort THEN Reclaim(t, inHand) ELSE t

AllocPort(t, want, inHand) ==
    Choosing(ReclaimFor(PurgeLapsed(t), want, inHand), want)

(* alloc_pair_locked: two ports in a row, the first even.                  *)
PairTaken(t, pairs) ==
    LET p == FirstFrom(pairs, t.nextPort)
    IN  IF pairs = {} THEN [port |-> NoPort, t |-> t]
        ELSE [port |-> p, t |-> [t EXCEPT !.nextPort = After(p + 1)]]

ChoosingPair(t) == PairTaken(t, FreePairs(t))

AllocPair(t) ==
    LET u == PurgeLapsed(t)
    IN  ChoosingPair(IF FreePairs(u) = {} THEN Reclaim(u, {}) ELSE u)

Map(t, k, m) == [Bind(t, At(k, m.port), k) EXCEPT !.mappings = Put(@, k, m)]

(* forward_port_for_locked.                                                *)
ForwardPortFor(t, k) ==
    LET rk == t.byEndpoint[k]
    IN  IF k \in DOMAIN t.byEndpoint /\ rk \in DOMAIN t.forwards
           /\ ~ForwardLapsed(t, rk) /\ rk \notin DOMAIN t.reverse
        THEN rk[2] ELSE NoPort

MapAt(a, k) ==
    IF a.port = NoPort THEN a.t ELSE Map(a.t, k, Mapping(k, a.port, FALSE))

MapNew(t, k) ==
    IF Granted(t, k, 1) THEN MapAt(AllocPort(t, k.port, {HostOf(k)}), k) ELSE t

(* get_or_create_mapping_locked; there is none if k is not mapped          *)
(* afterwards.                                                             *)
GetOrCreate(t, k) ==
    LET p == ForwardPortFor(t, k)
    IN  IF k \in DOMAIN t.mappings
        THEN [t EXCEPT !.mappings[k].left = TIMEOUT[k.proto]]
        ELSE IF p # NoPort
        THEN Map(WithHost(t, HostOf(k), TRUE), k, Mapping(k, p, TRUE))
        ELSE MapNew(WithHost(t, HostOf(k), FALSE), k)

(* Mutant of Install: the sessions of the mapping it replaces are dropped. *)
InstallAfresh(t, k, rk, open) ==
    Map(Unbind(WithHost(t, HostOf(k), TRUE),
               {x \in DOMAIN t.reverse : t.reverse[x] = k}),
        k, Mapping(k, rk[2], open))

(* install_mapping_locked, on a port that is free.                         *)
Install(t, k, rk, open) ==
    LET u     == WithHost(t, HostOf(k), TRUE)
        old   == t.mappings[k]
        older == {At(k, a.port) : a \in old.alias}
        kept  == Pruned(old)
        m     == Mapping(k, rk[2], open)
        mine(rks) == {x \in rks \cap DOMAIN t.reverse : t.reverse[x] = k}
    IN  IF k \notin DOMAIN t.mappings THEN Map(u, k, m)
        ELSE IF DOMAIN kept.peers = {}
        THEN Map(Unbind(u, mine(older \cup {At(k, old.port)})), k, m)
        ELSE Map(Unbind(u, mine(older)), k,
                 [m EXCEPT !.alias = {[kept EXCEPT !.alias = {}]}])

-----------------------------------------------------------------------------
(* Remotes.  A remote's state is the set of what has been seen of it.      *)

Closing(st) == "reset" \in st \/ {"finOut", "finIn"} \subseteq st

PeerTimeout(proto, st) ==
    IF proto = "tcp" /\ {"out", "in"} \subseteq st /\ ~Closing(st)
    THEN TCP_ESTABLISHED ELSE TIMEOUT[proto]

(* The state after a segment with these flags; outbound or inbound.        *)
Seen(st, out, flags) ==
    (IF "SYN" \in flags /\ "ACK" \notin flags /\ Closing(st) THEN {} ELSE st)
        \cup {IF out THEN "out" ELSE "in"}
        \cup {x \in {IF out THEN "finOut" ELSE "finIn"} : "FIN" \in flags}
        \cup {x \in {"reset"} : "RST" \in flags}

(* Peers::note, for the remotes of side m of k's mapping.                  *)
Note(t, k, m, r, out, flags) ==
    LET known == r \in DOMAIN m.peers
        old   == IF known THEN m.peers[r].st ELSE {}
        st    == IF k.proto = "tcp" THEN Seen(old, out, flags) ELSE old
        admit == /\ out \/ "RST" \notin flags
                 /\ Cardinality(DOMAIN m.peers) < MAX_PEERS
                 /\ PeerGranted(t, k)
    IN  IF known \/ admit
        THEN [m EXCEPT !.peers = Put(@, r, [left |-> PeerTimeout(k.proto, st), st |-> st])]
        ELSE m

Touch(k, m) == [m EXCEPT !.left = TIMEOUT[k.proto]]

(* Mapping::for_peer and for_port: the displaced side if it carries the    *)
(* remote, or is on the port; and the mapping with that side changed.      *)
SideIn(m, sides) == IF sides = {} THEN m ELSE CHOOSE a \in sides : TRUE
ForPeer(m, r) == SideIn(m, {a \in m.alias : r \in DOMAIN a.peers})
ForPort(m, p) == SideIn(m, {a \in m.alias : a.port = p})

WithSide(m, side, new) == IF side = m THEN new ELSE [m EXCEPT !.alias = {new}]

(* The locked part of outbound_tcpudp: nothing goes out without a mapping. *)
NoteOutbound(t, k, r, flags) ==
    LET side == ForPeer(t.mappings[k], r)
    IN  IF k \notin DOMAIN t.mappings THEN t
        ELSE [t EXCEPT !.mappings[k] =
                WithSide(@, side, Note(t, k, Touch(k, side), r, TRUE, flags))]

SendOut(t, k, r, flags) == NoteOutbound(GetOrCreate(t, k), k, r, flags)

(* note_inbound, on the side of k's mapping at port p.                     *)
NoteInbound(t, k, p, r, flags) ==
    LET side == ForPort(t.mappings[k], p)
    IN  IF k \in DOMAIN t.mappings /\ (IsOpen(side) \/ r \in DOMAIN side.peers)
        THEN [t EXCEPT !.mappings[k] =
                WithSide(@, side, Note(t, k, Touch(k, side), r, FALSE, flags))]
        ELSE t

(* The first packet from the remote expectation e is for: its mapping is   *)
(* made, unless the endpoint has one by now.                               *)
NoteExpected(t, k, r, flags) ==
    [t EXCEPT !.mappings[k] = Note(t, k, @, r, FALSE, flags)]

Connected(t, e, one, r, flags) ==
    LET k == e.target
        u == Install(t, k, At(k, e.port), ~one)
    IN  IF k \in DOMAIN t.mappings THEN t
        ELSE NoteInbound(IF one THEN NoteExpected(u, k, r, flags) ELSE u,
                         k, e.port, r, flags)

Connect(t, e, r, flags) ==
    Connected(ExpireMappings(ExpectationsDrop(t, {e}), {e.target}), e,
              t.expectations[e].one \/ e.remote # AnyRemote, r, flags)

(* The locked part of inbound_tcpudp: an existing mapping, an expectation  *)
(* (any of those that match), or a forward.                                *)
Deliver(t, rk, r, flags) ==
    LET matching == {e \in Live(t) : /\ At(e.target, e.port) = rk
                                     /\ e.remote \in {AnyRemote, r}}
    IN  IF rk \in DOMAIN t.reverse
        THEN {NoteInbound(t, t.reverse[rk], rk[2], r, flags)}
        ELSE IF matching # {} THEN {Connect(t, e, r, flags) : e \in matching}
        ELSE IF rk \notin DOMAIN t.forwards THEN {t}
        ELSE IF ForwardLapsed(t, rk) THEN {DropForwards(t, {rk})}
        ELSE {NoteInbound(Install(t, Endpoint(t, rk), rk, TRUE), Endpoint(t, rk),
                          rk[2], r, flags)}

(* The expectations of hosts or namespaces, and whether they are at their  *)
(* caps or the table is full.                                              *)
OfHostOf(t, k) == {x \in DOMAIN t.expectations : OfHost(k, x.target)}
OfNs(t, k) == {x \in DOMAIN t.expectations : OfNamespace(k, x.target)}
HostFull(t, k) ==
    ~Within(Cardinality(OfHostOf(t, k)), t.limits.max_expectations_per_host)
NsFull(t, k) ==
    k.ns # 0 /\ ~Within(Cardinality(OfNs(t, k)), t.limits.max_expectations_per_namespace)
TableFull(t) == Cardinality(DOMAIN t.expectations) >= MAX_EXPECTATIONS

(* Which one goes to make room: the closest to lapsing of the host's own,  *)
(* of its namespace's, or of a busiest host's.                             *)
Soonest(t, xs) ==
    {x \in xs : \A y \in xs : t.expectations[x].left <= t.expectations[y].left}

Busiest(t) ==
    LET Load(x) == Cardinality(OfHostOf(t, x.target))
    IN  {x \in DOMAIN t.expectations : \A y \in DOMAIN t.expectations : Load(y) <= Load(x)}

Evicted(t, k) ==
    IF HostFull(t, k) THEN Soonest(t, OfHostOf(t, k))
    ELSE IF NsFull(t, k) THEN Soonest(t, OfNs(t, k))
    ELSE IF TableFull(t)
    THEN {x \in Busiest(t) : x \in Soonest(t, OfHostOf(t, x.target))}
    ELSE {}

PushWithRoom(t, e, one, out) ==
    IF out = {} THEN {ExpectationsPush(t, e, one)}
    ELSE {ExpectationsPush(ExpectationsDrop(t, {x}), e, one) : x \in out}

MakeRoom(t, e, one) == PushWithRoom(t, e, one, Evicted(t, e.target))

PurgeIfFull(t, k) ==
    IF HostFull(t, k) \/ NsFull(t, k) \/ TableFull(t) THEN PurgeLapsed(t) ELSE t

(* add_expectation_locked: the states it may lead to.  Which of several    *)
(* equals goes is not said.                                                *)
ExpectAt(t, rk, e, one) ==
    IF \/ rk \in DOMAIN t.reverse /\ t.reverse[rk] # e.target
       \/ rk \in DOMAIN t.forwards
    THEN {t}
    ELSE IF e \in DOMAIN t.expectations
    THEN {[t EXCEPT !.expectations[e] = [left |-> EXPECT, one |-> @.one]]}
    ELSE MakeRoom(PurgeIfFull(t, e.target), e, one)

AddExpectation(t, e, one) ==
    LET rk == At(e.target, e.port) IN ExpectAt(ExpirePort(t, rk), rk, e, one)

(* All that is expected on rk is expected for one endpoint.                *)
ExpectedAlone(t, rk) ==
    \A d, e \in Live(t) : At(d.target, d.port) = rk /\ At(e.target, e.port) = rk
                           => d.target = e.target

Expectation(k, p, r) == [target |-> k, port |-> p, remote |-> r]

-----------------------------------------------------------------------------
Init ==
    /\ scope \in Scopes
    /\ inner = [mappings |-> <<>>, reverse |-> <<>>, holders |-> [p \in Ports |-> 0],
                nextPort |-> PORT_MIN, reclaim |-> 0, forwards |-> <<>>,
                byEndpoint |-> <<>>, expectations |-> <<>>, hosts |-> {},
                limits |-> CHOOSE l \in scope.limits : TRUE]
    /\ sweep = SWEEP_INTERVAL
    /\ attached = {k.ns : k \in scope.keys} \ {0}
    /\ late = {} /\ asked = {} /\ shared = {}

(* maybe_sweep, before a packet is handled.                                *)
Swept == IF sweep = 0 THEN Expire(inner, {}) ELSE inner

PacketSweeps == sweep' = IF sweep = 0 THEN SWEEP_INTERVAL ELSE sweep

(* A call from a host of namespace ns: its side is in place, or was when   *)
(* the call came in.                                                       *)
CallFrom(ns) ==
    /\ ns \in attached \cup late \cup {0}
    /\ late' = late \ {ns}
    /\ UNCHANGED <<attached, scope>>

(* A packet of endpoint k, or a call for it.                               *)
Sends(k) == k \in scope.keys /\ CallFrom(k.ns) /\ UNCHANGED calls

(* A call that SIP or H.323 makes for endpoint k.                          *)
Announces(k) == k \in scope.media /\ CallFrom(k.ns) /\ UNCHANGED shared

(* The flags a packet may have, over all instances.                        *)
Ever(kind) == UNION {s[kind] : s \in Scopes}
FlagsOf(proto) == IF proto = "tcp" THEN Ever("segments") ELSE {{}}
Carries(proto, flags) == proto = "tcp" => flags \in scope.segments

(* handle_outbound, to a remote.                                           *)
Outbound(k, r, flags) ==
    /\ Sends(k) /\ r \in scope.remotes /\ Carries(k.proto, flags)
    /\ inner' = SendOut(Swept, k, r, flags)
    /\ PacketSweeps

(* The port a packet of k to r leaves from, once it has been sent.         *)
LeavesFrom(t, k, r) == ForPeer(t.mappings[k], r).port

(* handle_outbound, to the NAT's public address: the packet turns around   *)
(* as if it had come from outside.  A remote at the public address is      *)
(* known by its port.                                                      *)
TurnAround(t, k, p, flags) ==
    IF k \in DOMAIN t.mappings THEN Deliver(t, At(k, p), LeavesFrom(t, k, p), flags)
    ELSE {t}

Hairpin(k, p, flags) ==
    /\ Sends(k) /\ p \in scope.hairpins /\ Carries(k.proto, flags)
    /\ PacketSweeps
    /\ inner' \in TurnAround(SendOut(Swept, k, p, flags), k, p, flags)

(* handle_inbound.                                                         *)
Inbound(rk, r, flags) ==
    /\ rk[1] \in {k.proto : k \in scope.keys} /\ r \in scope.remotes
    /\ Carries(rk[1], flags)
    /\ inner' \in Deliver(Swept, rk, r, flags)
    /\ PacketSweeps
    /\ UNCHANGED <<attached, late, calls, scope>>

(* add_port_forward_id: another host's forward, a pending expectation,     *)
(* another endpoint's mapping or another forward of the endpoint refuses   *)
(* it; over the endpoint's own mapping it opens it, and over an endpoint's *)
(* it is taken from it drops that one's.                                   *)
WithoutStale(t, k) ==
    IF k \in DOMAIN t.byEndpoint /\ ForwardLapsed(t, t.byEndpoint[k])
    THEN DropForwards(t, {t.byEndpoint[k]}) ELSE t

Forwarding(t, rk, k, left) ==
    LET was   == rk \in DOMAIN t.forwards
        bound == rk \in DOMAIN t.reverse
        own   == bound /\ t.reverse[rk] = k
        refuse == \/ was /\ HostOf(Endpoint(t, rk)) # HostOf(k)
                  \/ \E e \in Live(t) : At(e.target, e.port) = rk
                  \/ bound /\ ~was /\ ~own
                  \/ k \in DOMAIN t.byEndpoint /\ t.byEndpoint[k] # rk
        u == IF own THEN [t EXCEPT !.mappings[k].open = TRUE]
             ELSE IF was /\ Endpoint(t, rk) = k THEN t
             ELSE RemoveMappingsAt(t, {rk})
    IN  IF refuse THEN t ELSE ForwardsInsert(u, rk, [key |-> k, left |-> left])

AddPortForward(rk, k, left) ==
    /\ Sends(k) /\ rk[2] \in scope.forwards
    /\ inner' = Forwarding(WithoutStale(ExpirePort(inner, rk), k), rk, k, left)
    /\ UNCHANGED sweep

RemovePortForward(rk) ==
    /\ rk \in DOMAIN inner.forwards
    /\ inner' = DropForwards(inner, {rk})
    /\ UNCHANGED <<sweep, attached, late, calls, scope>>

(* create_mapping_in, for an ALG that has announced the endpoint.          *)
AlgOpen(t, k, created) ==
    IF k \notin DOMAIN t.mappings THEN t
    ELSE IF created THEN [t EXCEPT !.mappings[k].open = TRUE]
    ELSE IF t.mappings[k].open THEN t
    ELSE [t EXCEPT !.mappings[k].openLeft = ALG_OPEN_WINDOW]

Announced(t, k) == AlgOpen(GetOrCreate(t, k), k, k \notin DOMAIN t.mappings)

(* What the ALG that has had k mapped on port p goes on to expect, in      *)
(* calls of their own: SIP that endpoint there; H.323, whose k is TCP,     *)
(* also the host's UDP endpoint of the same port there and, if that is     *)
(* even, the next one on the next port up (RTCP).                          *)
Media(k, p) ==
    LET udp(port) == {j \in scope.keys : /\ k.proto = "tcp" /\ j.proto = "udp"
                                         /\ OfHost(k, j) /\ j.port = port}
        rtcp == IF k.port % 2 = 0 THEN udp(k.port + 1) ELSE {}
    IN  {<<k, p>>} \cup (udp(k.port) \X {p}) \cup (rtcp \X ({p + 1} \cap Ports))

Told(ks) ==
    /\ Cardinality(asked) <= scope.pending
    /\ asked' = asked \cup UNION {Media(k, inner'.mappings[k].port) :
                                   k \in ks \cap DOMAIN inner'.mappings}

CreateMapping(k) ==
    /\ Announces(k)
    /\ inner' = Announced(ExpireMappings(inner, {k}), k)
    /\ Told({k})
    /\ UNCHANGED sweep

(* create_mapping_pair_in: consecutive ports for two endpoints of a host,  *)
(* RTP and RTCP (SIP).                                                     *)
MapPair(t, k1, k2, p) ==
    IF Granted(t, k1, 2)
    THEN Map(Map(t, k1, Mapping(k1, p, TRUE)), k2, Mapping(k2, p + 1, TRUE))
    ELSE t

MapPairAt(a, k1, k2) ==
    IF a.port = NoPort THEN a.t
    ELSE MapPair(WithHost(a.t, HostOf(k1), FALSE), k1, k2, a.port)

ReuseFor(t, k) == AlgOpen([t EXCEPT !.mappings[k] = Touch(k, @)], k, FALSE)

CreateMappingPair(k1, k2) ==
    LET here == {k1, k2} \cap DOMAIN inner.mappings
        p    == inner.mappings[k1].port
    IN  /\ k1 # k2 /\ OfHost(k1, k2) /\ k1.proto = "udp" /\ k2.proto = "udp"
        /\ Announces(k1) /\ k2 \in scope.media
        /\ UNCHANGED sweep
        /\ \/ /\ here = {k1, k2} /\ p % 2 = 0 /\ inner.mappings[k2].port = p + 1
              /\ inner' = ReuseFor(ReuseFor(inner, k1), k2)
           \/ /\ here = {}
              /\ inner' = MapPairAt(AllocPair(inner), k1, k2)
        /\ Told({k1, k2})

(* expect_from_in, by FTP or IRC: the endpoint's port, or one chosen now,  *)
(* is expected to be connected to by r.                                    *)
ExpectedPorts(t, k) ==
    LET pending == {e.port : e \in {e \in Live(t) : e.target = k}}
        Stays(ports) == {[port |-> p, t |-> t] : p \in ports}
    IN  IF k \in DOMAIN t.mappings THEN Stays({t.mappings[k].port})
        ELSE IF pending # {} THEN Stays(pending)
        ELSE IF ForwardPortFor(t, k) # NoPort THEN Stays({ForwardPortFor(t, k)})
        ELSE {AllocPort(t, k.port, {})}

ExpectFrom(k, r) ==
    /\ Sends(k) /\ k \in scope.data /\ k.proto = "tcp"
    /\ r \in scope.remotes \cup {AnyRemote}
    /\ \E a \in ExpectedPorts(ExpireMappings(inner, {k}), k) :
          IF a.port = NoPort THEN inner' = a.t
          ELSE inner' \in AddExpectation(a.t, Expectation(k, a.port, r), TRUE)
    /\ UNCHANGED sweep

(* add_expectation, from any remote, by SIP or H.323, at any time after    *)
(* create_mapping_in or create_mapping_pair_in has answered: by then the   *)
(* mapping may be gone, and its port another endpoint's.                   *)
ExpectMedia(k, p) ==
    LET rk == At(k, p)
    IN  /\ <<k, p>> \in asked
        /\ asked' = asked \ {<<k, p>>}
        /\ inner' \in AddExpectation(inner, Expectation(k, p, AnyRemote), FALSE)
        /\ shared' = shared \cup {x \in {rk} : k.proto = "tcp" /\ ~ExpectedAlone(inner', rk)}
        /\ UNCHANGED <<sweep, attached, late, scope>>

Sweep ==
    /\ inner' = Expire(inner, {})
    /\ UNCHANGED <<sweep, attached, late, calls, scope>>

SetLimits(l) ==
    /\ l \in scope.limits
    /\ inner' = [inner EXCEPT !.limits = l]
    /\ UNCHANGED <<sweep, attached, late, calls, scope>>

(* cleanup_namespace: the namespace's expectations, forwards and mappings  *)
(* go.                                                                     *)
Unmapped(t, mine) ==
    LET bound == {rk \in DOMAIN t.reverse :
                    t.reverse[rk] \in mine /\ rk[2] \in PortsOf(t.mappings[t.reverse[rk]])}
    IN  [Unbind(t, bound) EXCEPT !.mappings = Without(@, mine)]

WithoutNamespace(t, ns) ==
    LET u == ExpectationsDrop(t, {e \in DOMAIN t.expectations : e.target.ns = ns})
        v == ForwardsRemove(u, {rk \in DOMAIN u.forwards : Endpoint(u, rk).ns = ns})
    IN  Unmapped(v, {k \in DOMAIN v.mappings : k.ns = ns})

(* The cleanup comes once the side is out of ns_sides; a call may have got *)
(* hold of it before.                                                      *)
Detach(ns) ==
    /\ ns \in attached
    /\ attached' = attached \ {ns}
    /\ late' \in {late, late \cup {ns}}
    /\ inner' = WithoutNamespace(inner, ns)
    /\ UNCHANGED <<sweep, calls, scope>>

(* Time passes.                                                            *)
Less(left) == IF left < 0 THEN left ELSE left - 1
AgedSide(s) ==
    [s EXCEPT !.left = Less(@), !.openLeft = Less(@),
              !.peers = [r \in DOMAIN @ |-> [left |-> Less(@[r].left), st |-> @[r].st]]]
AgedMapping(m) == [AgedSide(m) EXCEPT !.alias = {AgedSide(a) : a \in @}]

Aged(t) ==
    [t EXCEPT
        !.mappings = [k \in DOMAIN @ |-> AgedMapping(@[k])],
        !.forwards = [rk \in DOMAIN @ |->
                        [key |-> @[rk].key, left |-> Less(@[rk].left)]],
        !.expectations = [e \in DOMAIN @ |->
                            [left |-> Less(@[e].left), one |-> @[e].one]],
        !.reclaim = IF @ = 0 THEN 0 ELSE @ - 1]

Tick ==
    /\ inner' = Aged(inner)
    /\ sweep' = IF sweep = 0 THEN 0 ELSE sweep - 1
    /\ UNCHANGED <<attached, late, calls, scope>>

Next ==
    \/ \E k \in Keys, r \in Remotes : \E flags \in FlagsOf(k.proto) :
          Outbound(k, r, flags)
    \/ \E k \in Keys, p \in Ever("hairpins") : \E flags \in FlagsOf(k.proto) :
          Hairpin(k, p, flags)
    \/ \E rk \in {k.proto : k \in Keys} \X Ports, r \in Remotes :
          \E flags \in FlagsOf(rk[1]) : Inbound(rk, r, flags)
    \/ \E k \in Keys, p \in Ever("forwards"), left \in {LEASE, Forever} :
          AddPortForward(At(k, p), k, left)
    \/ \E rk \in Protos \X Ports : RemovePortForward(rk)
    \/ \E k \in Keys : CreateMapping(k)
    \/ \E k1, k2 \in Keys : CreateMappingPair(k1, k2)
    \/ \E k \in Keys, r \in Remotes \cup {AnyRemote} : ExpectFrom(k, r)
    \/ \E k \in Keys, p \in Ports : ExpectMedia(k, p)
    \/ Sweep
    \/ \E l \in Ever("limits") : SetLimits(l)
    \/ \E ns \in Namespaces : Detach(ns)
    \/ Tick

Spec == Init /\ [][Next]_vars

-----------------------------------------------------------------------------
SideOK(s) ==
    /\ s.port \in Ports /\ s.open \in BOOLEAN /\ {s.left, s.openLeft} \subseteq Times
    /\ DOMAIN s.peers \subseteq Peers
    /\ \A r \in DOMAIN s.peers :
          /\ s.peers[r].left \in Times
          /\ s.peers[r].st \subseteq {"out", "in", "finOut", "finIn", "reset"}

(* The tables' shape.                                                      *)
TypeOK ==
    /\ DOMAIN inner.mappings \subseteq Keys
    /\ \A k \in DOMAIN inner.mappings :
          LET m == inner.mappings[k]
          IN  Cardinality(m.alias) <= 1
              /\ \A s \in {m} \cup m.alias : SideOK(s)
              /\ \A a \in m.alias : a.alias = {}
    /\ inner.holders \in [Ports -> Nat]
    /\ inner.nextPort \in Pool
    /\ inner.hosts \subseteq {HostOf(k) : k \in Keys}
    /\ sweep \in 0 .. SWEEP_INTERVAL /\ inner.reclaim \in 0 .. RECLAIM_INTERVAL
    /\ attached \subseteq Namespaces /\ late \cap attached = {}

(* An outside port leads to one inside endpoint, and that endpoint's       *)
(* mapping, or the displaced side of it, is on that port: the reverse      *)
(* table and the mappings agree both ways, through every displacement,     *)
(* expiry and take-over (nat.rs, mappings and reverse).                    *)
TablesAgree ==
    /\ \A rk \in DOMAIN inner.reverse :
          LET k == inner.reverse[rk]
          IN  /\ k \in DOMAIN inner.mappings
              /\ rk \in {At(k, p) : p \in PortsOf(inner.mappings[k])}
    /\ \A k \in DOMAIN inner.mappings :
          LET m == inner.mappings[k]
          IN  /\ \A a \in m.alias : a.port # m.port
              /\ \A p \in PortsOf(m) : /\ At(k, p) \in DOMAIN inner.reverse
                                       /\ inner.reverse[At(k, p)] = k

(* A port is counted as held once for each mapping, forward and            *)
(* expectation on it (ports.rs): none leaks, and none is given out while   *)
(* something would receive on it.                                          *)
PortsAccounted ==
    \A p \in Ports :
        inner.holders[p] =
            Cardinality({rk \in DOMAIN inner.reverse : rk[2] = p})
            + Cardinality({rk \in DOMAIN inner.forwards : rk[2] = p})
            + Cardinality({e \in DOMAIN inner.expectations : e.port = p})

(* A forwarded port leads to the forward's endpoint and no other, even     *)
(* when the forward was added over a mapping or moved to another port of   *)
(* the host; an endpoint has one forward; and only a forward displaces     *)
(* (nat.rs, add_port_forward and install_mapping_locked).                  *)
ForwardsRule ==
    /\ \A k \in DOMAIN inner.byEndpoint :
          /\ inner.byEndpoint[k] \in DOMAIN inner.forwards
          /\ Endpoint(inner, inner.byEndpoint[k]) = k
    /\ \A rk \in DOMAIN inner.forwards :
          /\ Endpoint(inner, rk) \in DOMAIN inner.byEndpoint
          /\ inner.byEndpoint[Endpoint(inner, rk)] = rk
          /\ rk \in DOMAIN inner.reverse => inner.reverse[rk] = Endpoint(inner, rk)
    /\ \A k \in DOMAIN inner.mappings :
          inner.mappings[k].alias # {} =>
            /\ At(k, inner.mappings[k].port) \in DOMAIN inner.forwards
            /\ Endpoint(inner, At(k, inner.mappings[k].port)) = k

(* The port expect_from_in hands out is forwarded to none while the       *)
(* expectation lasts, and leads to the endpoint it was asked for or        *)
(* nowhere: no packet, forward, allocation, reclaim or sweep gives it      *)
(* away.  The one thing that may is H.323's add_expectation when it comes  *)
(* after the mapping it is for is gone and the port handed on, since it    *)
(* looks at mappings and forwards but not at what else is expected there   *)
(* (nat.rs, add_expectation_locked; alg_h323.rs, process_outbound).        *)
ExpectedPortKept ==
    \A e \in Live(inner) :
        LET rk == At(e.target, e.port)
        IN  inner.expectations[e].one =>
              /\ rk \notin DOMAIN inner.forwards
              /\ \/ rk \in DOMAIN inner.reverse => inner.reverse[rk] = e.target
                 \/ rk \in shared

(* The session of k with r, if it is tracked and not past its timeout.     *)
SessionLive(k, r) ==
    /\ k \in DOMAIN inner.mappings
    /\ \E s \in {inner.mappings[k]} \cup inner.mappings[k].alias :
          r \in LivePeers(s) /\ s.port = LeavesFrom(inner, k, r)

(* The forward at rk has lapsed, goes, or leads elsewhere from this step.  *)
ForwardEnds(rk) ==
    /\ rk \in DOMAIN inner.forwards
    /\ \/ ForwardLapsed(inner, rk) \/ rk \notin DOMAIN inner'.forwards
       \/ Endpoint(inner', rk) # Endpoint(inner, rk)

(* The remote has sent to both ports of the mapping, and is tracked on     *)
(* both its sides.                                                         *)
OnBothSides(m, r) == \E a \in m.alias : r \in DOMAIN a.peers \cap DOMAIN m.peers

(* A session keeps its outside port for as long as it is not idle: neither *)
(* a forward that displaces its mapping, nor one that takes it over, nor a *)
(* sweep, a reclaim or another session's end moves or drops it.  It ends   *)
(* early only with the forward that carried it or with its namespace, and  *)
(* moves only if the remote itself sends to the endpoint's other port      *)
(* (nat.rs, Mapping::alias and for_peer).                                  *)
SessionKept ==
    [][\A k \in Keys, r \in Peers :
         LET p == LeavesFrom(inner, k, r)
         IN  SessionLive(k, r) /\ ~ForwardEnds(At(k, p))
               /\ k.ns \notin attached \ attached'
             => /\ k \in DOMAIN inner'.mappings
                /\ r \in TrackedBy(inner'.mappings[k])
                /\ \/ LeavesFrom(inner', k, r) = p
                   \/ OnBothSides(inner'.mappings[k], r)]_vars

(* After a sweep, or a reclaim for want of a port, nothing idle or lapsed  *)
(* holds a port, the sides that removed forwards give back included        *)
(* (nat.rs, expire_locked).                                                *)
NothingStale(t) ==
    /\ Lapsed(t) = {}
    /\ \A rk \in DOMAIN t.forwards : ~ForwardLapsed(t, rk)
    /\ \A k \in DOMAIN t.mappings : /\ ~Gone(t.mappings[k])
                                    /\ \A a \in t.mappings[k].alias : ~Idle(a)

SweepComplete == [][Sweep => NothingStale(inner')]_vars

=============================================================================
