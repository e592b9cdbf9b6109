-------------------------------- MODULE L2Hub --------------------------------
(***************************************************************************)
(* The learning Ethernet switch (src/src/l2hub.rs).                        *)
(*                                                                         *)
(* Every device's thread calls forward() for the frames it receives.  A    *)
(* frame takes one snapshot of the port table and lives by it to the end,  *)
(* while other threads connect, disconnect and reconfigure ports.  The     *)
(* learning table is behind a lock of its own: learn() and lookup() first  *)
(* read it under the read lock and then, perhaps, change it under the      *)
(* write lock, and the table may be different by then.  set_port_mode and  *)
(* disconnect publish a port table and then purge the learning table, in   *)
(* two steps.  One step here is one critical section of either lock.       *)
(*                                                                         *)
(* A frame is its source, its destination and the stack of VLAN tags it    *)
(* carries, outermost first.                                               *)
(***************************************************************************)
EXTENDS Integers, Sequences, FiniteSets, FiniteSetsExt, Functions

CONSTANTS
    Threads,                \* threads that forward frames
    Macs,                   \* station addresses
    Group,                  \* a group (multicast) address
    Vlans,                  \* VLAN identifiers; 0 is one of them
    MAX_PORTS,              \* bound: ports ever connected
    MAC_AGING,              \* life of a learned address
    MAC_TABLE_MAX_SIZE,     \* entries of the table
    Scopes                  \* instances, of which a behaviour has one: the frames
                            \* stations send, the threads that forward them, the
                            \* ports connected before any traffic and how many
                            \* may be (max_ports), port_limit, the addresses a port
                            \* may learn unless told otherwise, and the settings
                            \* that reconfigurations choose from (modes, limits,
                            \* secures); bounds on these (edits) and on the clock

NoVlan  == -1
NoLimit == -1
NoTime  == -1

ASSUME HubAssumption ==
    /\ Group \notin Macs
    /\ 0 \in Vlans /\ Vlans \subseteq Nat
    /\ {MAX_PORTS, MAC_AGING, MAC_TABLE_MAX_SIZE} \subseteq Nat
    /\ \A s \in Scopes :
        /\ s.threads \subseteq Threads /\ {s.edits, s.time} \subseteq Nat
        /\ s.max_ports \in Nat /\ s.ports \in Seq(Range(s.ports))
        /\ Len(s.ports) <= s.max_ports /\ s.max_ports <= MAX_PORTS
        /\ \A p \in Range(s.ports) :
                p = [limit |-> p.limit, mode |-> p.mode, secure |-> p.secure]
        /\ {s.port_limit} \cup s.limits \cup {p.limit : p \in Range(s.ports)}
                \subseteq Nat \cup {NoLimit}
        /\ \A f \in s.frames : /\ {f.src, f.dst} \subseteq Macs \cup {Group}
                               /\ f.tags \in Seq(Vlans)

VARIABLES
    clock,
    ports,      \* the published port table, by port id
    last_id,    \* the last port id given out
    purging,    \* per port id, callers that have published and not yet purged
    edits,      \* reconfigurations so far
    table,      \* the learning table: entries, per_port, prune_after
    work,       \* per thread, the frame it is forwarding and how far it is
    copies,     \* what the last step sent, and out of which ports
    scope       \* the instance

vars == <<clock, ports, last_id, purging, edits, table, work, copies, scope>>

Ids  == 1 .. MAX_PORTS
Idle == [pc |-> "idle"]

-----------------------------------------------------------------------------
(* VLANs.  A mode is an access port's VLAN, or the VLANs a trunk carries   *)
(* and its native one.                                                     *)

Access(v)              == [kind |-> "access", vlan |-> v]
Trunk(allowed, native) == [kind |-> "trunk", allowed |-> allowed,
                           native |-> native]
Transparent == Trunk(Vlans, 0)

(* The VLAN a frame arriving belongs to, or NoVlan when it is refused.     *)
(* Identifier 0 is a priority tag, which names no VLAN.                    *)
IngressVlan(mode, tags) ==
    LET tag == IF tags = <<>> THEN 0 ELSE Head(tags)
        own == IF tag = 0 THEN mode.native ELSE tag
    IN  IF mode.kind = "access"
        THEN IF tag = 0 THEN mode.vlan ELSE NoVlan
        ELSE IF own \in mode.allowed THEN own ELSE NoVlan

(* Mutant of PopVlan: what is left may still be tagged.                    *)
PopOuter(tags) == {Tail(tags)}

(* The stack with its outer tag removed, unless that exposes another.      *)
PopVlan(tags) == {s \in {Tail(tags)} : s = <<>>}

(* push_vlan leaves a frame that is tagged as it is.                       *)
PushVlan(tags, vlan) == IF tags = <<>> THEN <<vlan>> ELSE tags

(* The tag stack a frame of this VLAN has when it leaves a port, as a set  *)
(* that is empty when the frame must not leave.                            *)
Leaving(mode, vlan, tags) ==
    LET bare == IF tags = <<>> THEN {<<>>} ELSE PopVlan(tags)
    IN  IF mode.kind = "access"
        THEN IF mode.vlan = vlan THEN bare ELSE {}
        ELSE CASE vlan \notin mode.allowed -> {}
               [] vlan \in mode.allowed /\ mode.native = vlan -> bare
               [] OTHER -> IF tags # <<>> /\ Head(tags) = vlan THEN {tags}
                           ELSE {PushVlan(s, vlan) : s \in bare}

-----------------------------------------------------------------------------
(* The learning table, as operators on a table tb.                         *)

Put(f, x, v) == [y \in DOMAIN f \cup {x} |-> IF y = x THEN v ELSE f[y]]

(* Mutant of Insert: an address that moves is still counted where it was.  *)
InsertForgetful(tb, key, entry) ==
    [tb EXCEPT !.entries = Put(@, key, entry),
               !.per_port = [@ EXCEPT ![entry.port] = @ + 1]]

Without(counts, id) == [counts EXCEPT ![id] = Max({0, @ - 1})]

(* The counts once the entry under key, if any, is gone.                   *)
Uncounted(tb, key) == IF key \in DOMAIN tb.entries
                      THEN Without(tb.per_port, tb.entries[key].port)
                      ELSE tb.per_port

Insert(tb, key, entry) ==
    [tb EXCEPT !.entries = Put(@, key, entry),
               !.per_port = [Uncounted(tb, key) EXCEPT ![entry.port] = @ + 1]]

Remove(tb, key) ==
    [tb EXCEPT !.entries = Restrict(@, DOMAIN @ \ {key}),
               !.per_port = Uncounted(tb, key)]

EntriesOf(tb, id) == {k \in DOMAIN tb.entries : tb.entries[k].port = id}

PurgePort(tb, id) ==
    [tb EXCEPT !.entries = Restrict(@, DOMAIN @ \ EntriesOf(tb, id)),
               !.per_port = [@ EXCEPT ![id] = 0]]

(* Every expired entry dropped and the counts taken again, unless nothing  *)
(* can have expired since the last sweep.                                  *)
PruneExpired(tb, now) ==
    LET live == {k \in DOMAIN tb.entries : tb.entries[k].expires > now}
    IN  IF tb.prune_after # NoTime /\ now < tb.prune_after THEN tb
        ELSE [entries  |-> Restrict(tb.entries, live),
              per_port |-> [i \in Ids |-> Cardinality(live \cap
                                                      EntriesOf(tb, i))],
              prune_after |-> IF live = {} THEN NoTime
                              ELSE Min({tb.entries[k].expires : k \in live})]

-----------------------------------------------------------------------------
(* What learn() decides for the frame w at time now.                       *)

SourceKey(w) == <<w.vlan, w.frame.src>>
DestKey(w)   == <<w.vlan, w.frame.dst>>
Source(w)    == w.snap[w.port]

(* The address is another port's, and that port is secure.                 *)
HeldElsewhere(tb, w, now) ==
    LET key == SourceKey(w)
    IN  /\ key \in DOMAIN tb.entries
        /\ tb.entries[key].port # w.port
        /\ tb.entries[key].expires > now
        /\ tb.entries[key].port \in DOMAIN w.snap
        /\ w.snap[tb.entries[key].port].secure

(* Learned here, and not past half its life.                               *)
KnownAndFresh(tb, w, now) ==
    LET key == SourceKey(w)
    IN  /\ key \in DOMAIN tb.entries
        /\ tb.entries[key].port = w.port
        /\ tb.entries[key].expires - now > MAC_AGING \div 2

(* No room for the address: a new one needs a place in the table, and any  *)
(* needs one of the port's.                                                *)
Full(tb, w, known) ==
    \/ ~ known /\ Cardinality(DOMAIN tb.entries) >= MAC_TABLE_MAX_SIZE
    \/ /\ Source(w).limit # NoLimit
       /\ tb.per_port[w.port] >= Source(w).limit

(* The table once the address is written, or found to have no room: then   *)
(* where it was learned before is forgotten too.  And whether the frame    *)
(* goes on.                                                                *)
Claimed(tb, w, now) ==
    LET key   == SourceKey(w)
        known == key \in DOMAIN tb.entries
        here  == known /\ tb.entries[key].port = w.port
        room  == IF ~ here /\ Full(tb, w, known) THEN PruneExpired(tb, now)
                 ELSE tb
        entry == [port |-> w.port, expires |-> now + MAC_AGING]
    IN  IF ~ here /\ Full(room, w, known)
        THEN [table |-> Remove(room, key), ok |-> ~ Source(w).secure]
        ELSE [table |-> Insert(room, key, entry), ok |-> TRUE]

(* Mutant of Learned: the claim is checked under the read lock only.       *)
LearnedUnchecked(tb, w, now) == Claimed(tb, w, now)

(* The second half of learn(): the claim is checked again.                 *)
Learned(tb, w, now) ==
    IF HeldElsewhere(tb, w, now) THEN [table |-> tb, ok |-> FALSE]
    ELSE Claimed(tb, w, now)

-----------------------------------------------------------------------------
Init ==
    /\ scope \in Scopes
    /\ clock = 0
    /\ ports = scope.ports
    /\ last_id = Len(scope.ports)
    /\ purging = [i \in Ids |-> 0]
    /\ edits = 0
    /\ table = [entries |-> <<>>, per_port |-> [i \in Ids |-> 0],
                prune_after |-> NoTime]
    /\ work = [t \in Threads |-> Idle]
    /\ copies = {}

(* The copies of the frame w that leave the given ports of its snapshot.   *)
Sent(w, ids) ==
    UNION {{[port |-> i, mode |-> w.snap[i].mode, vlan |-> w.vlan, tags |-> s] :
                s \in Leaving(w.snap[i].mode, w.vlan, w.frame.tags)} : i \in ids}

Flooded(w) == Sent(w, DOMAIN w.snap \ {w.port})

(* Thread t's frame w goes on to its destination: flooded at once if that  *)
(* is a group, looked up otherwise.                                        *)
GoOn(t, w) ==
    IF w.frame.dst = Group
    THEN /\ work' = [work EXCEPT ![t] = Idle]
         /\ copies' = Flooded(w)
    ELSE /\ work' = [work EXCEPT ![t] = [w EXCEPT !.pc = "lookup"]]
         /\ copies' = {}

(* The frame ends here, having sent out.                                   *)
Done(t, out) ==
    /\ work' = [work EXCEPT ![t] = Idle]
    /\ copies' = out

Learnable(f) == f.src # Group

(* A frame arrives on a port and takes its snapshot.  One that the port    *)
(* refuses, or that comes from a port already detached, is dropped here.   *)
Arrive(t, id, f) ==
    LET vlan == IngressVlan(ports[id].mode, f.tags)
        w    == [pc |-> "read", port |-> id, snap |-> ports, frame |-> f,
                 vlan |-> vlan, now |-> clock]
    IN  /\ work[t] = Idle /\ t \in scope.threads /\ f \in scope.frames
        /\ id \in DOMAIN ports
        /\ vlan # NoVlan
        /\ IF Learnable(f) THEN /\ work' = [work EXCEPT ![t] = w]
                                /\ copies' = {}
           ELSE GoOn(t, w)
        /\ UNCHANGED <<clock, ports, last_id, purging, edits, table, scope>>

(* learn() reads the clock and then the table, under the read lock.        *)
LearnRead(t) ==
    LET w == work[t]
    IN  /\ w.pc = "read"
        /\ \E now \in w.now .. clock :
            LET next == [w EXCEPT !.now = now]
            IN  CASE KnownAndFresh(table, w, now) -> GoOn(t, next)
                  [] HeldElsewhere(table, w, now) -> Done(t, {})
                  [] OTHER -> /\ work' = [work EXCEPT ![t] =
                                            [next EXCEPT !.pc = "write"]]
                              /\ copies' = {}
        /\ UNCHANGED <<clock, ports, last_id, purging, edits, table, scope>>

(* learn() under the write lock, with the time it read before.             *)
LearnWrite(t) ==
    LET w == work[t]
        l == Learned(table, w, w.now)
    IN  /\ w.pc = "write"
        /\ table' = l.table
        /\ IF l.ok THEN GoOn(t, w) ELSE Done(t, {})
        /\ UNCHANGED <<clock, ports, last_id, purging, edits, scope>>

(* lookup() under the read lock.                                           *)
Lookup(t) ==
    LET w     == work[t]
        key   == DestKey(w)
        found == key \in DOMAIN table.entries
        at    == table.entries[key].port
    IN  /\ w.pc = "lookup"
        /\ \E now \in w.now .. clock :
            LET stale == \/ table.entries[key].expires <= now
                         \/ at # w.port /\ at \notin DOMAIN w.snap
            IN  CASE ~ found -> Done(t, Flooded(w))
                  [] found /\ stale ->
                        /\ work' = [work EXCEPT ![t] = [w EXCEPT !.pc = "evict"]]
                        /\ copies' = {}
                  [] OTHER -> Done(t, Sent(w, {at} \ {w.port}))
        /\ UNCHANGED <<clock, ports, last_id, purging, edits, table, scope>>

(* lookup() under the write lock: the entry it found stale is removed.     *)
Evict(t) ==
    LET w == work[t]
    IN  /\ w.pc = "evict"
        /\ table' = Remove(table, DestKey(w))
        /\ Done(t, Flooded(w))
        /\ UNCHANGED <<clock, ports, last_id, purging, edits, scope>>

-----------------------------------------------------------------------------
(* Configuration.                                                          *)

Connect ==
    /\ last_id < scope.max_ports
    /\ last_id' = last_id + 1
    /\ ports' = Put(ports, last_id', [limit |-> scope.port_limit, mode |-> Transparent,
                                      secure |-> FALSE])
    /\ copies' = {}
    /\ UNCHANGED <<clock, purging, edits, table, work, scope>>

(* A new port table with one port's settings changed; the handle may be    *)
(* that of a port already detached.                                        *)
Reconfigure(id, field, value) ==
    /\ id <= last_id
    /\ edits < scope.edits
    /\ edits' = edits + 1
    /\ ports' = [i \in DOMAIN ports |->
                    IF i = id THEN [ports[i] EXCEPT ![field] = value]
                    ELSE ports[i]]
    /\ copies' = {}
    /\ UNCHANGED <<clock, last_id, table, work, scope>>

SetPortMacLimit(id, limit) ==
    /\ limit \in scope.limits
    /\ Reconfigure(id, "limit", limit)
    /\ UNCHANGED purging

SetPortSecure(id, secure) ==
    /\ secure \in scope.secures
    /\ Reconfigure(id, "secure", secure)
    /\ UNCHANGED purging

SetPortMode(id, mode) ==
    /\ mode \in scope.modes
    /\ Reconfigure(id, "mode", mode)
    /\ purging' = [purging EXCEPT ![id] = @ + 1]

Disconnect(id) ==
    /\ id \in DOMAIN ports
    /\ ports' = Restrict(ports, DOMAIN ports \ {id})
    /\ purging' = [purging EXCEPT ![id] = @ + 1]
    /\ copies' = {}
    /\ UNCHANGED <<clock, last_id, edits, table, work, scope>>

(* The second half of set_port_mode and disconnect.                        *)
Purge(id) ==
    /\ purging[id] > 0
    /\ purging' = [purging EXCEPT ![id] = @ - 1]
    /\ table' = PurgePort(table, id)
    /\ copies' = {}
    /\ UNCHANGED <<clock, ports, last_id, edits, work, scope>>

Tick ==
    /\ clock < scope.time
    /\ clock' = clock + 1
    /\ copies' = {}
    /\ UNCHANGED <<ports, last_id, purging, edits, table, work, scope>>

(* What some instance has of a kind.                                      *)
Ever(kind) == UNION {s[kind] : s \in Scopes}

Next ==
    \/ \E t \in Threads :
        \/ \E id \in Ids, f \in Ever("frames") : Arrive(t, id, f)
        \/ LearnRead(t)
        \/ LearnWrite(t)
        \/ Lookup(t)
        \/ Evict(t)
    \/ Connect
    \/ \E id \in Ids :
        \/ \E limit \in Ever("limits") : SetPortMacLimit(id, limit)
        \/ \E secure \in Ever("secures") : SetPortSecure(id, secure)
        \/ \E mode \in Ever("modes") : SetPortMode(id, mode)
        \/ Disconnect(id)
        \/ Purge(id)
    \/ Tick

Spec == Init /\ [][Next]_vars

-----------------------------------------------------------------------------
Keys == Vlans \X Macs

PortsOK(p) == DOMAIN p \subseteq Ids

TypeOK ==
    /\ clock \in 0 .. scope.time /\ last_id \in Ids \cup {0} /\ edits \in Nat
    /\ PortsOK(ports)
    /\ purging \in [Ids -> Nat]
    /\ DOMAIN table.entries \subseteq Keys
    /\ \A k \in DOMAIN table.entries : /\ table.entries[k].port \in Ids
                                       /\ table.entries[k].expires \in Nat
    /\ table.per_port \in [Ids -> Nat]
    /\ table.prune_after \in Nat \cup {NoTime}
    /\ \A t \in Threads : work[t] # Idle =>
        /\ PortsOK(work[t].snap) /\ work[t].port \in DOMAIN work[t].snap
        /\ work[t].vlan \in Vlans /\ work[t].now \in 0 .. clock
    /\ \A c \in copies : c.port \in Ids /\ c.vlan \in Vlans

(* Every limit some port may ever have.                                    *)
Limits == {scope.port_limit} \cup scope.limits \cup {p.limit : p \in Range(scope.ports)}

(* The per-port counts are the numbers of entries, through moves, sweeps,  *)
(* purges and evictions in any order: a count that drifts up locks a port  *)
(* out of learning for good, one that drifts down lifts its limit.  And so *)
(* no port fills more of the table than a limit allows, learning or        *)
(* claiming, and the table stays within its size.                          *)
CountsMatch ==
    /\ \A i \in Ids : table.per_port[i] = Cardinality(EntriesOf(table, i))
    /\ Cardinality(DOMAIN table.entries) <= MAC_TABLE_MAX_SIZE
    /\ NoLimit \notin Limits =>
            \A i \in Ids : \E limit \in Limits : table.per_port[i] <= limit

Holds(k) ==
    LET e == table.entries[k]
    IN  /\ e.port \in DOMAIN ports
        /\ ports[e.port].secure
        /\ e.expires > clock

(* Every frame under way took its snapshot with the port secure.           *)
SecureToAll(id) ==
    \A t \in Threads : work[t] # Idle =>
        id \in DOMAIN work[t].snap /\ work[t].snap[id].secure

(* An address a secure port holds is not taken over: the claim is checked  *)
(* when it is written, not only when the frame first looked.  A frame that *)
(* was under way when the port was made secure still goes by the ports as  *)
(* they were.                                                              *)
HeldNotStolen ==
    [][\A k \in DOMAIN table.entries :
        Holds(k) /\ SecureToAll(table.entries[k].port) =>
            \/ k \notin DOMAIN table'.entries
            \/ table'.entries[k].port = table.entries[k].port]_vars

(* A copy that leaves a port is read, by a switch at the other end with    *)
(* the same mode, as being on the VLAN the frame was admitted to: tags     *)
(* stacked or swapped never carry it into another.  VLAN 0, of the         *)
(* untagged frames of a transparent port, is not kept, for a tag cannot    *)
(* name it: such a copy is read as an untagged frame is, which puts it on  *)
(* the native VLAN of a trunk that has another, or is refused.             *)
CopiesKeepVlan ==
    \A c \in copies :
        IngressVlan(c.mode, c.tags) =
            IF c.vlan = 0 THEN IngressVlan(c.mode, <<>>) ELSE c.vlan
=============================================================================
