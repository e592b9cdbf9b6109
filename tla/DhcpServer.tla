----------------------------- MODULE DhcpServer -----------------------------
(***************************************************************************)
(* The DHCP server's lease table (src/src/dhcp/server.rs).                 *)
(*                                                                         *)
(* Each message is handled under the lease table's lock, so a handler is   *)
(* one step.  A client is known by a key (its client identifier, or else   *)
(* its hardware address), has a MAC by which an address may be reserved    *)
(* for it, and sends from an Ethernet source, which is not known when a    *)
(* relay stands between.  The server keeps nothing over a restart.         *)
(*                                                                         *)
(* What the clients have been told is the history variable promise: the    *)
(* address of the last ACK a key was sent and when that lease ends.        *)
(***************************************************************************)
EXTENDS Integers, FiniteSets, FiniteSetsExt, Functions

CONSTANTS
    Keys,               \* what clients are known by
    Nobody,             \* no MAC, or no Ethernet source known
    Subnet,             \* addresses of the server's subnet
    Others,             \* addresses of other networks that clients remember
    LEASE,              \* lease_time
    OFFER_HOLD,         \* life of an offer, and of a provisional lease
    PROVISIONAL_MIN_AGE,
    MAX_LEASES_PER_MAC,
    Scopes              \* instances, of which a behaviour has one: its clients,
                        \* records [key, mac, src]; the addresses in_pool accepts
                        \* (pool); static_leases, addresses by MAC (reserved);
                        \* max_leases; bounds on the clock (time) and on restarts

None == -1

(* A client identifier is one machine's (RFC 2131, 4.2).                   *)
ASSUME ServerAssumption ==
    /\ None \notin Keys
    /\ {LEASE, OFFER_HOLD, PROVISIONAL_MIN_AGE, MAX_LEASES_PER_MAC} \subseteq Nat
    /\ Subnet \subseteq Nat /\ IsFiniteSet(Subnet) /\ Subnet \cap Others = {}
    /\ \A s \in Scopes : /\ {c.key : c \in s.clients} \subseteq Keys
                         /\ \A c, d \in s.clients : c.key = d.key => c.mac = d.mac
                         /\ s.pool \subseteq Subnet
                         /\ Nobody \notin DOMAIN s.reserved
                         /\ {s.max_leases, s.time, s.restarts} \subseteq Nat

VARIABLES
    clock,
    leases,     \* the table: by_key and the counts by_ip and by_src
    declined,   \* addresses found in use, with when they may be tried again
    promise,    \* history: per key, the address last granted and until when
    refused,    \* history: the key a renewal was just refused to, if any
    restarts,   \* history: restarts so far
    scope       \* the instance

vars == <<clock, leases, declined, promise, refused, restarts, scope>>

Clients == scope.clients
Pool    == scope.pool
Reserved == scope.reserved
Srcs  == {c.src : c \in Clients} \ {Nobody}
Addrs == Subnet \cup Others

NoPromise == [ip |-> None, until |-> 0]

-----------------------------------------------------------------------------
(* The table, as operators on a table tb.                                  *)

Empty == [by_key |-> <<>>, by_ip |-> [i \in Addrs |-> 0],
          by_src |-> [s \in Srcs |-> 0]]

Has(tb, k) == k \in DOMAIN tb.by_key

Put(f, x, v) == [y \in DOMAIN f \cup {x} |-> IF y = x THEN v ELSE f[y]]

(* The leases of keys left out of the counts.                              *)
Unindex(tb, keys) ==
    [tb EXCEPT
        !.by_ip  = [i \in Addrs |->
                        tb.by_ip[i] - Cardinality({k \in keys : tb.by_key[k].ip = i})],
        !.by_src = [s \in Srcs |->
                        tb.by_src[s] - Cardinality({k \in keys : tb.by_key[k].src = s})]]

Drop(tb, keys) ==
    LET out == keys \cap DOMAIN tb.by_key
    IN  [Unindex(tb, out) EXCEPT
            !.by_key = Restrict(@, DOMAIN @ \ out)]

Count(tb, l) ==
    [tb EXCEPT !.by_ip[l.ip] = @ + 1,
               !.by_src = [s \in Srcs |->
                             tb.by_src[s] + IF s = l.src THEN 1 ELSE 0]]

(* Mutant of Insert: the lease it replaces stays in the counts.            *)
InsertOver(tb, k, l) ==
    [Count(tb, l) EXCEPT !.by_key = Put(@, k, l)]

Insert(tb, k, l) ==
    [Count(Drop(tb, {k}), l) EXCEPT !.by_key = Put(@, k, l)]

(* Mutant of Expire: a lease ends when the client has used half of it.     *)
ExpireEarly(tb, now) ==
    Drop(tb, {k \in DOMAIN tb.by_key : tb.by_key[k].expiry <= now + LEASE \div 2})

Expire(tb, now) ==
    Drop(tb, {k \in DOMAIN tb.by_key : tb.by_key[k].expiry <= now})

HeldByOther(tb, ip, k) ==
    tb.by_ip[ip] > (IF Has(tb, k) /\ tb.by_key[k].ip = ip THEN 1 ELSE 0)

Reservation(c) == IF c.mac \in DOMAIN Reserved THEN Reserved[c.mac] ELSE None

(* Mutant of HeldByOthers: reservations are not.                           *)
LeasedToOthers(tb, c, ip) == HeldByOther(tb, ip, c.key)

(* Another client has the address, or has it reserved.                     *)
HeldByOthers(tb, c, ip) ==
    \/ HeldByOther(tb, ip, c.key)
    \/ \E m \in DOMAIN Reserved : Reserved[m] = ip /\ m # c.mac

OverSrcCap(tb, c) == c.src # Nobody /\ tb.by_src[c.src] >= MAX_LEASES_PER_MAC

Live == {i \in DOMAIN declined : declined[i] > clock}

-----------------------------------------------------------------------------
Init ==
    /\ scope \in Scopes
    /\ clock = 0
    /\ leases = Empty
    /\ declined = <<>>
    /\ promise = [k \in Keys |-> NoPromise]
    /\ refused = None
    /\ restarts = 0

NewLease(c, ip, bound, expiry, since) ==
    [ip |-> ip, expiry |-> expiry, bound |-> bound, provisional |-> since,
     src |-> c.src]

(* allocate: the address reserved, which changes nothing; the one the      *)
(* client has already; or the first free one, held as long as an offer is. *)
Discover(c) ==
    LET k    == c.key
        tb   == Expire(leases, clock)
        own  == tb.by_key[k]
        keep == Has(tb, k) /\ ~ HeldByOthers(tb, c, own.ip)
        rest == Drop(tb, {k})
        free == {i \in Pool : ~ HeldByOthers(rest, c, i) /\ i \notin Live}
        full == \/ Cardinality(DOMAIN rest.by_key) >= scope.max_leases
                \/ OverSrcCap(rest, c)
    IN  /\ c \in Clients /\ Reservation(c) = None
        /\ leases' =
            IF keep
            THEN IF own.bound THEN tb
                 ELSE Insert(tb, k, [own EXCEPT !.expiry = clock + OFFER_HOLD])
            ELSE IF full \/ free = {} THEN rest
                 ELSE Insert(rest, k, NewLease(c, Min(free), FALSE,
                                               clock + OFFER_HOLD, None))
        /\ declined' = Restrict(declined, Live)
        /\ refused' = None
        /\ UNCHANGED <<clock, promise, restarts, scope>>

-----------------------------------------------------------------------------
(* request and commit.                                                     *)

Silent(tb) ==
    /\ leases' = tb
    /\ refused' = None
    /\ UNCHANGED promise

(* The client told no gives the address up.                                *)
Nak(c, tb, renewing) ==
    /\ leases' = tb
    /\ refused' = IF renewing THEN c.key ELSE None
    /\ promise' = [promise EXCEPT ![c.key] = NoPromise]

Ack(c, tb, lease, length) ==
    /\ leases' = Insert(tb, c.key, lease)
    /\ refused' = None
    /\ promise' = [promise EXCEPT ![c.key] = [ip |-> lease.ip,
                                             until |-> clock + length]]

ProvisionalLength == Min({LEASE, OFFER_HOLD})

(* Mutant of Refuses: an address declined is refused to anyone.            *)
RefusesAll(ip, renewing) == ip \in Live

(* An address found in use is kept from those not using it already.        *)
Refuses(ip, renewing) == ip \in Live /\ ~ renewing

Capacity == Min({Cardinality(Pool), scope.max_leases})

(* Mutant of NearlyFull: the whole pool may go to clients not on record.   *)
QuiteFull(tb) == Cardinality(DOMAIN tb.by_key) >= Capacity

NearlyFull(tb) == Cardinality(DOMAIN tb.by_key) * 4 >= Capacity * 3

(* A client the server has no record of asks for an address.               *)
Unrecorded(c, tb, ip, renewing) ==
    CASE ip \notin Pool -> /\ Silent(tb)
                           /\ declined' = Restrict(declined, Live)
      [] ip \in Pool /\ HeldByOthers(tb, c, ip) ->
            /\ Nak(c, tb, renewing)
            /\ declined' = Restrict(declined, Live)
      [] OTHER ->
            IF Refuses(ip, renewing)
            THEN /\ Nak(c, tb, renewing)
                 /\ declined' = Restrict(declined, Live)
            ELSE /\ declined' = Restrict(declined, Live \ {ip})
                 /\ IF NearlyFull(tb) \/ OverSrcCap(tb, c)
                    THEN Silent(tb)
                    ELSE Ack(c, tb, NewLease(c, ip, TRUE, clock + ProvisionalLength,
                                          clock), ProvisionalLength)

(* commit for a client without a reservation whose lease is on record.  A  *)
(* provisional lease becomes a whole one when it is renewed at half time.  *)
Recorded(c, tb, ip, renewing) ==
    LET own  == tb.by_key[c.key]
        ripe == renewing /\ clock - own.provisional >= PROVISIONAL_MIN_AGE
    IN  CASE own.ip = ip /\ ~ HeldByOthers(tb, c, ip)
                /\ own.provisional # None /\ ~ ripe ->
                    Ack(c, tb, [own EXCEPT !.expiry = clock + ProvisionalLength],
                        ProvisionalLength)
          [] own.ip = ip /\ ~ HeldByOthers(tb, c, ip)
                /\ (own.provisional = None \/ ripe) ->
                    Ack(c, tb, NewLease(c, ip, TRUE, clock + LEASE, None), LEASE)
          [] OTHER -> Nak(c, tb, renewing)

Commit(c, tb, ip, renewing) ==
    LET own     == tb.by_key[c.key]
        granted == Has(tb, c.key) /\ own.ip = ip /\ ~ HeldByOthers(tb, c, ip)
    IN  IF ip \notin Subnet \/ Reservation(c) \notin {None, ip}
        THEN /\ Nak(c, tb, renewing)
             /\ declined' = Restrict(declined, Live)
        ELSE IF Reservation(c) = ip
        THEN /\ Ack(c, tb, NewLease(c, ip, TRUE, clock + LEASE, None), LEASE)
             /\ declined' = Restrict(declined, Live)
        ELSE IF Has(tb, c.key) /\ (granted \/ own.bound)
        THEN /\ Recorded(c, tb, ip, renewing)
             /\ declined' = Restrict(declined, Live)
        ELSE Unrecorded(c, Drop(tb, {c.key}), ip, renewing)

(* SELECTING: the client took another server's offer, and ours is free.    *)
RequestElsewhere(c) ==
    LET tb == Expire(leases, clock)
    IN  /\ c \in Clients
        /\ Silent(IF Has(tb, c.key) /\ ~ tb.by_key[c.key].bound
                     THEN Drop(tb, {c.key}) ELSE tb)
        /\ declined' = Restrict(declined, Live)
        /\ UNCHANGED <<clock, restarts, scope>>

(* SELECTING: our offer, which must be for the address it names.           *)
RequestOffered(c, ip) ==
    LET tb == Expire(leases, clock)
    IN  /\ c \in Clients
        /\ IF Has(tb, c.key) /\ ~ tb.by_key[c.key].bound /\ tb.by_key[c.key].ip # ip
           THEN /\ Nak(c, Drop(tb, {c.key}), FALSE)
                /\ declined' = Restrict(declined, Live)
           ELSE Commit(c, tb, ip, FALSE)
        /\ UNCHANGED <<clock, restarts, scope>>

(* INIT-REBOOT: the client asks for an address it remembers.               *)
RequestRemembered(c, ip) ==
    /\ c \in Clients
    /\ Commit(c, Expire(leases, clock), ip, FALSE)
    /\ UNCHANGED <<clock, restarts, scope>>

(* RENEWING and REBINDING: from the address the client is using.           *)
Renew(c) ==
    /\ c \in Clients /\ promise[c.key].until > clock
    /\ Commit(c, Expire(leases, clock), promise[c.key].ip, TRUE)
    /\ UNCHANGED <<clock, restarts, scope>>

-----------------------------------------------------------------------------
(* A client gives its address back.                                        *)
Release(c) ==
    LET k == c.key
    IN  /\ c \in Clients /\ promise[k].until > clock
        /\ leases' = IF Has(leases, k) /\ leases.by_key[k].ip = promise[k].ip
                     THEN Drop(leases, {k}) ELSE leases
        /\ promise' = [promise EXCEPT ![k] = NoPromise]
        /\ refused' = None
        /\ UNCHANGED <<clock, declined, restarts, scope>>

(* A client finds the address it was given in use, and says so.            *)
Decline(c) ==
    LET k    == c.key
        ip   == promise[k].ip
        tb   == Expire(leases, clock)
        ours == \/ Has(tb, k) /\ tb.by_key[k].ip = ip
                \/ Reservation(c) = ip
        room == Cardinality(Live) < scope.max_leases \/ ip \in Live
    IN  /\ c \in Clients /\ promise[k].until > clock
        /\ leases' = IF ours THEN Drop(tb, {k}) ELSE tb
        /\ declined' = IF ours /\ room
                       THEN Put(Restrict(declined, Live), ip, clock + LEASE)
                       ELSE Restrict(declined, Live)
        /\ promise' = [promise EXCEPT ![k] = NoPromise]
        /\ refused' = None
        /\ UNCHANGED <<clock, restarts, scope>>

(* The server is made again; the clients keep what they were given.        *)
Restart ==
    /\ restarts < scope.restarts
    /\ restarts' = restarts + 1
    /\ leases' = Empty
    /\ declined' = <<>>
    /\ refused' = None
    /\ UNCHANGED <<clock, promise, scope>>

Tick ==
    /\ clock < scope.time
    /\ clock' = clock + 1
    /\ refused' = None
    /\ UNCHANGED <<leases, declined, promise, restarts, scope>>

Next ==
    \/ \E c \in UNION {s.clients : s \in Scopes} :
        \/ Discover(c)
        \/ RequestElsewhere(c)
        \/ \E ip \in Addrs : \/ RequestOffered(c, ip)
                             \/ RequestRemembered(c, ip)
        \/ Renew(c)
        \/ Release(c)
        \/ Decline(c)
    \/ Restart
    \/ Tick

Spec == Init /\ [][Next]_vars

-----------------------------------------------------------------------------
LeaseOK(l) ==
    /\ l.ip \in Subnet /\ l.expiry \in Nat /\ l.bound \in BOOLEAN
    /\ l.provisional \in Nat \cup {None} /\ l.src \in Srcs \cup {Nobody}

TypeOK ==
    /\ clock \in 0 .. scope.time
    /\ DOMAIN leases.by_key \subseteq Keys
    /\ \A k \in DOMAIN leases.by_key : LeaseOK(leases.by_key[k])
    /\ leases.by_ip \in [Addrs -> Nat] /\ leases.by_src \in [Srcs -> Nat]
    /\ DOMAIN declined \subseteq Subnet
    /\ \A k \in Keys : promise[k].ip \in Subnet \cup {None}

(* The counts the table is indexed by agree with it: an address counted    *)
(* for nobody is never handed out again, one not counted is handed out     *)
(* twice, and a source's cap would leak away.                              *)
IndexesAgree ==
    /\ \A i \in Addrs : leases.by_ip[i] =
            Cardinality({k \in DOMAIN leases.by_key : leases.by_key[k].ip = i})
    /\ \A s \in Srcs : leases.by_src[s] =
            Cardinality({k \in DOMAIN leases.by_key : leases.by_key[k].src = s})

Holding(k) == promise[k].until > clock

(* While a client may use its address the server that granted it has it on *)
(* record for at least as long: nothing a client or another one asks in    *)
(* the meantime makes the server forget it, short of a restart.            *)
LeaseKept ==
    \A k \in Keys :
        Holding(k) /\ restarts = 0 =>
            /\ Has(leases, k)
            /\ leases.by_key[k].ip = promise[k].ip
            /\ leases.by_key[k].expiry >= promise[k].until

(* No two clients are told to use one address at once, unless they are one *)
(* machine under two keys and the address is reserved for it, or the       *)
(* server has forgotten its leases in a restart.                           *)
NoSharedAddress ==
    \A j, k \in Keys :
        restarts = 0 /\ j # k /\ Holding(j) /\ Holding(k)
            /\ promise[j].ip = promise[k].ip =>
            \A c \in Clients : c.key \in {j, k} => Reservation(c) = promise[j].ip

(* Leases granted on a client's word alone leave a quarter of the          *)
(* capacity, rounded down, to clients that discover.  Of a pool of under   *)
(* four addresses that is nothing: commit tests the table before it adds   *)
(* to it, so such clients may take the whole of it.                        *)
ProvisionalBounded ==
    Cardinality({k \in DOMAIN leases.by_key : leases.by_key[k].provisional # None})
        + Capacity \div 4 <= Capacity

(* A client that renews an address it is using is not refused, even after  *)
(* a restart and even if another found the address in use and declined it, *)
(* unless the address has meanwhile been given or offered to another.      *)
RenewalHonoured ==
    [][\A k \in Keys :
        refused # k /\ refused' = k =>
            \E j \in Keys \ {k} : /\ Has(leases, j)
                                  /\ leases.by_key[j].ip = promise[k].ip]_vars

=============================================================================
