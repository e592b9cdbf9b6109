# A verification of pktkit-rs in TLA+

pktkit-rs is a user-space network toolkit in Rust: layer 2 and layer 3 devices
that hand each other frames and packets by calls, hubs that join them, and the
protocols above (DHCP, NAT, WireGuard, OpenVPN, a TCP stack). These modules
model the parts with state worth arguing about. Each is written from the code
under `src/src/`, checked with TLC on small instances, and where a theorem is
listed, proved with TLAPS for every instance. `PROJECT.json` ties every
definition to the lines it models.

## The system

Everything is a device: `L2Device` and `L3Device` have `send(&self, ..)` and a
handler to call with what they receive, and a device is shared between threads
(`Arc`), so any method may run on any thread at any time. State sits behind
mutexes and read-write locks held for a part of a method only; hubs publish
their port tables as immutable snapshots. Callbacks run with the locks
released, and may call back in.

| component | state | operations | what is hard | correct when |
|---|---|---|---|---|
| WireGuard replay filter (`wg/replay.rs`) | ring of bit words, next counter | is_replay, check_replay | two threads decrypt copies of one packet; the ring wraps | a counter is accepted once, and refused only when accepted before or too old |
| WireGuard tables (`wg/handler.rs`, `handshake.rs`, `transport.rs`) | peers, tombstones, pending handshakes, keypair index, three slots a peer | add, remove and expire a peer, initiate, respond, complete, confirm, clean up, close | every table has its own lock, and cryptography runs between two of them | a removed peer has no session; slots and index agree; only confirmed keypairs send; an initiation is answered once |
| WireGuard timers (`wg/timers.rs`) | attempt, last initiation, what is due | poll, sent, received, complete | two pollers; give-up against new demand | one initiation per REKEY_TIMEOUT; an attempt ends |
| WireGuard server (`wg/server.rs`) | staged packets, endpoints | receive loop, run_timers, send, connect, close | staging against a handshake that completes, fails, or loses its peer | a staged packet is sent or dropped |
| WireGuard adapter (`wg/adapter.rs`) | a device a peer, allowed sources | connect, set_allowed_ips, remove, close | the connector runs unlocked | a device only for an authorized peer, with what it may send |
| WireGuard cookies, rate limiter | secret, buckets | | rotation, limits | |
| OpenVPN reliability (`ovpn/reliable.rs`) | counters, unacked, reorder buffer, owed ACKs, held TLS output | recv_packet, flush_tls, resets, tick | loss, repetition, reordering, packets of other sessions, windows | TLS sees a byte stream, which arrives |
| OpenVPN peer, server (`ovpn/peer.rs`, `server.rs`) | sessions, key slots, auth in progress, addresses | handle_packet, tick, complete_auth, send_data | session succession, renegotiation, late authentication | data only under an authenticated key; an address has one owner |
| Learning switch (`l2hub.rs`) | port snapshot, MAC table with counts | connect, close, configure, forward | snapshot against change, read lock then write lock, ageing | counts and limits hold, a secure port's address is not stolen, VLANs stay apart |
| Layer 3 hub, connectors (`l3hub.rs`, `connect.rs`) | port snapshot, route cache | connect, close, forward | the same, and loops | no packet to a detached port's address for ever |
| DHCP server (`dhcp/server.rs`) | leases with two indexes, declined addresses | discover, request, release, decline | restart, provisional grants, caps, expiry | an address has one user; a lease is kept; a renewal is honoured |
| DHCP client (`dhcp/client.rs`) | state, timers, queue of effects | start, stop, reply, tick | late replies, timers, effects delivered outside the lock | it uses an address only while leased |
| NAT, NAT64, ALGs, UPnP (`nat/`) | mappings, ports, quotas, peers, expectations | outbound, inbound, expire | port exhaustion, sequence shifts, sharing | a port has one mapping; quotas add up |
| TCP stack (`vtcp/`) | connection, buffers, timers, scoreboard | segments, user calls, timers | loss, reordering, zero window, close | bytes arrive once, in order; both ends finish |
| user-mode NAT (`slirp/`), virtual client (`vclient/`) | connection tables, bridged sockets, DNS | packets, socket events, close | half-close, table limits, shutdown | every byte bridged, entries reclaimed |
| adapters, ARP, NDP (`l2adapter.rs`, `arp.rs`, `ndp.rs`) | caches, pending packets | resolve, learn, expire | pending queue against answer and expiry | a queued packet is sent or dropped |
| reassembly (`defrag.rs`, `nat/defrag.rs`) | partial packets | push, evict | overlap, limits | only what was sent comes out |
| impairment, pipes, QEMU, AF_XDP, capture | queues, rings, sockets | | bounded queues, kernel-shared rings | |

`hazards` in PROJECT.json lists, at its line, what is hard to test in the parts
modelled, with the property that covers it. Hazards no property covers are named
under the runs, where modelling showed them, and under *Not modelled*.

## The modules

**WgReplay** (`wg/replay.rs`, `wg/transport.rs`). State: `next`, `bitmap`, and
per thread the counter it is decrypting. `Receive` is `process_data_packet` up
to the unlocked `is_replay`; `OpenFails` a packet that does not authenticate;
`CheckReplay` the locked `check_replay`. The history variable `accepts` counts
acceptances per counter. A word is a set of bits rather than an integer.

**OvpnReliable**, **OvpnStream** (`ovpn/reliable.rs`, `ovpn/peer.rs`). A server
and a client, each with a `Reliable` record as in the code, and a network that
is a set of packets, from which a packet may be received any number of times,
in any order; strays of other sessions are among them. The server's actions are
`handle_control`, `process_tls`, `pump` and `tick`; the client is external: it
runs the same `Reliable`. TLS output is a stream of numbered units.
`OvpnStream` is the abstract specification, a pair of byte streams, and
`ImplementsStream` states that the packets implement it with `read` mapped to
the units each engine was fed, in order. Left out: a soft reset with a packet id
other than 0, which the code refuses, and the stateless opening of a session
(`after_reset` and `skip_reset`, `ovpn/peer.rs:1325`).

**WgHandler** (`wg/handler.rs`, `handshake.rs`, `transport.rs`). The tables of a
`Handler`, and threads whose program counter stops wherever a method releases a
lock: initiate, insert; peek a response, complete, install; accept an
initiation, install; remove, sweep handshakes, sweep sessions; the three steps
of close. A keypair is a record of its peer, index and role. `tombstones` and
`order` are the code's, with room for `MAX_TOMBSTONES` keys. An index may be
drawn while a thread is about to unindex what it finds there, as in the code.
History variables count removals and acceptances of each initiation, and record
which keys the tombstones forgot (`forgotten`), and the indexes installed at
while about to be unindexed (`collided`). Abstracted: there is no clock, so an initiation may be refused as
coming within MIN_INITIATION_INTERVAL at any time.

**L2Hub** (`l2hub.rs`, `build.rs`). Ports, the MAC table with its counts per
port and `prune_after`, and threads carrying a frame: `Arrive` takes the
snapshot, `LearnRead` looks under the read lock, `LearnWrite` writes under the
write lock, `Lookup` and `Evict` the same for the destination; `Connect`,
`Disconnect` and `Purge`, and the three setters change the ports meanwhile.
`copies` holds what the last step sent. A frame is its source, destination and
stack of tags.

**DhcpServer** (`dhcp/server.rs`). The lease table with `by_ip` and `by_src`, the
declined addresses, and one action per message: a handler holds the lease
table's lock throughout. `promise` is what each client was last told. Clients
are well behaved in that they renew, release and decline the address they were
granted, and give it up when told no; they discover and ask for remembered
addresses as they please. `Restart` makes a new server.

**Nat** (`nat/nat.rs`, `nat/ports.rs`, `nat/track.rs`). What `NatInner` holds, as
one record: mappings, the reverse table, how many hold each outside port,
forwards with their index by endpoint, expectations, the hosts known and the
limits. Every handler works under that one lock, so it is one step: a packet
out, in, or turned around at the public address; a forward added or removed; the
calls an ALG makes, which are calls of their own since it releases the lock
between them, each for the endpoints its protocol asks for (`create_mapping_in`;
the pair, by SIP for UDP; `expect_from_in`, by FTP and IRC for TCP;
`add_expectation`, by SIP and H.323); a sweep, a change of limits, and a
namespace detached, after which one call that was already on its way in may
still be handled (`late`). SIP and H.323 have an endpoint mapped under one
locking and expect it under a later one: `asked` holds what they have been told
and have yet to expect, and `ExpectMedia` takes one of these at any time, whatever
has become of the mapping. `shared` is history: the TCP ports on which an
endpoint of theirs came to be expected beside another. A time
the code keeps is the time left before it matters, and `Tick` counts all down.
A forward that receives traffic displaces its endpoint's mapping, which stays as
`alias` for the sessions it has. Abstracted: a remote is an address with its
port; the table of expectations is a set, so which of several that match or are
equally close to lapsing is any of them; a hairpinned packet's two lockings are
one step. Lapsed forwards, and the mappings on their ports, go as a set: the
code's loop over them has the same outcome in any order.

**Vtcp**, **TcpStream** (`vtcp/conn.rs`, `sendbuf.rs`, `recvbuf.rs`,
`vclient/tcp.rs`). Two ends of a connection. A handler is an operator from a
connection record to the next one, and what it queues for the peer gathers in
the record's `out`; the actions are a segment received, the application's
write, read, close and drop, and one per timer: retransmission, tail loss
probe, persist, delayed ACK, TIME_WAIT, FIN_WAIT_2, keepalive, half-open. The
network is a set of segments per direction. Bytes are numbered, sequence
numbers wrap. `TcpStream` is the abstract specification: two streams, each of
which grows at the writer, is read in order, and ends at its close or breaks
off with an error, and `ImplementsStream` states that the segments implement
it. Abstracted: durations (an armed timer may fire at any step; firing while
segments are still on their way counts as a fault), the congestion window,
pacing and loss detection (the choices `burst` and `lost`), and the throttle of
challenge ACKs (one held back is one lost). More than `NetCap` segments in
flight towards an end are lost at no cost. Left out: timestamps and PAWS, SACK,
ECN, Fast Open, SYN cookies, path MTU search, buffer tuning and the pruning of
out-of-order data; of `vclient`, a full accept queue, data refused for want of
memory and the limit on connections in TIME_WAIT. A tail loss probe may come
more often than in the code, which also asks for a new round-trip sample.

**DhcpClient** (`dhcp/client.rs`, `l2adapter.rs`). The client's state, the queue
of transport calls with the run each belongs to, several timer threads, and the
adapter's address and check for conflicts. A tick reads what it watches under
the lock, asks the adapter with none held, and steps under the lock again; calls
are queued under the lock and made outside it, by whichever thread is
delivering. Servers are external: any of them may offer, grant or refuse,
late and twice, and one may name itself in no reply. `held` is what a server
has granted. Assumed of the threads, though the code has no such check: calls
queued are made before the next interval is over (`Drained`) and before the next
second (`Prompt`). Abstracted: whether a retransmission is due is a choice; T1
and T2 are constants without the random part; infinite leases and adapters that cannot
probe are left out, and so is a second `Client` on one adapter.

**WgServer**, **WgAdapter** (`wg/timers.rs`, `server.rs`, `adapter.rs`, and the parts
of `handler.rs`, `handshake.rs` and `transport.rs` they call). One peer of a
server in single-handler mode. The maintenance thread polls the timers, and so
does a sender that finds no session; a poll claims an initiation under the
timers' lock, builds it with none held, inserts it, and acts on what it
collected. Readers process packets, dispatch, wire the device and flush what is
staged. WgAdapter adds the devices: `on_peer_connected` around the connector's
call, `set_allowed_ips`, `remove_peer` through the handler's sweep, both hooks
and the teardown, expiry, re-addition, and `close`. Time is counted by how long
ago each thing happened, in REKEY_TIMEOUTs, so nothing bounds the clock; the
keypair tables are WgHandler's, and here a session is the age of its current
keypair. The peer is external: it answers, restarts, initiates, sends, or
leaves. Left out: the multi-handler, the byte limit of staged packets, jitter,
and the pruning of expired peers the callback accepted (WgHandler has it).

`MC*` modules hold the constants of the runs and their symmetry. Where one
configuration that does everything would be too large, a module has a constant
`Scopes` (`Setups` in Vtcp): records of who is there and how often each thing
may happen. Init picks one, so a run is the union of several small instances of
one specification and the properties hold in each.

## The runs

Bounds are named in the modules (`MAX_*`, `*_UNITS`, the fields of a scope);
they are just large enough for the case in question. The third column is the
number of distinct states.

| run | bounds, and why they suffice | states | shows |
|---|---|---|---|
| wg_replay | 3 words of 2 bits, 12 counters, 2 threads: three laps of the ring, a jump past the whole of it, the reject limit | 158 K | AcceptedOnce, WindowExact, OldStaysOld |
| wg_handler | 2 peers, 2 threads, 2 indexes, 1 re-addition; 1 peer and 3 keypairs, so that a slot is displaced; the same with a close; a fourth keypair on the index being removed; 2 peers and one tombstone | 1.3 M | RemovedHasNoSession, NoTakeover, UnknownBounded, SlotsIndexed, SendsConfirmed, InitiationOnce |
| wg_server | 1 peer, 1 retry; nine scopes: a send with a loss, a restart or a departure; three sends to a dead session, one more than is staged; a kept-alive peer that leaves; removal and expiry with a packet waiting, and re-addition; two readers wiring at once against the owner | 275 K | OneInitiation, DevicesFollow, AllowedAgree, NoEndlessWait, ComesToRest |
| ovpn_reliable | window 2, one unit a packet, three units up, one down | 98 K | AckedMeansTaken, NoTlsBeforeProof, the stream refinement |
| ovpn_delivery | window 1, lossy | 1.5 K | AllDelivered |
| hub_table | a secure and a plain port, 2 addresses, a limit of one that may be set to zero, time for an entry to age; every kind of mode with stacks of up to two tags | 2.5 M | CountsMatch, HeldNotStolen, CopiesKeepVlan |
| dhcp_table | 3 keys of 2 machines, one with a reserved address, 3 addresses, time for an offer and a lease to end, one restart; 4 relayed clients and addresses, so that three quarters of the pool is a number of addresses | 140 K | IndexesAgree, LeaseKept, NoSharedAddress, RenewalHonoured, ProvisionalBounded |
| dhcp_client | two checks over three runs of the client; two timer threads; two servers, one anonymous; leases of 3 steps with T1 and T2 apart | 3.4 M | AdapterFollows, LeaseCovered, DeclinesJustified |
| nat_tables | one to four endpoints of two hosts, one in a namespace, a pool of two ports, caps of two mappings, a remote and an expectation for each host, or none and a table of two expectations, timeouts of one step: every port is wanted by someone else; one or two mappings told to an ALG and not expected yet (`pending`), which outlive their namespace; one TCP endpoint with two remotes and a forwarded port | 456 K | TablesAgree, PortsAccounted, ForwardsRule, ExpectedPortKept, SweepComplete, SessionKept |
| tcp_transfer | nine setups of 1 to 3 bytes and up to 2 faults: reordering and retransmission, a closed window also in units of two bytes, both ways at once, an application that lets go at either end, a simultaneous open, keepalive and a vanished host; the first sequence number wraps after two | 272 K | StreamIntact, AckedIsHeld, the stream refinement |
| tcp_live | a loss and its repair, a closed window, orphans whose peer vanishes | 109 K | Delivered, OrphansEndOrGap |
| tcp_orphan | an orphan, one byte still to come, two faults | | OrphansEnd is violated |

Deadlock is not checked where the instance may really come to rest: counters,
identifiers or peers used up, every port detached, everything delivered.

tcp_orphan is expected to fail and refutes comments of the repository, which
`findings` quotes: in FIN_WAIT_1, a segment that acknowledges our FIN and carries the
peer's ahead of a missing byte stops the retransmission timer and leaves the
state; if the peer then vanishes, no timer is left to end a connection its
application has released. This is with keepalive off, the default of
`ConnConfig` (`vtcp/conn.rs:511`); `vclient` and `slirp` turn it on, and there
`on_keepalive` ends the connection. The comments speak of a peer that never
sends its FIN; this one has sent it, but it was never taken. OrphansEndOrGap is
what holds: every other released connection ends.

Modelling showed other places where a comment says more than the code keeps, or
where a gap between two locks shows, not given a run.

- WireGuard. A handshake begun under one authorization of a peer installs a
  session under the next (`wg/handler.rs:1089`); an initiation begun before
  `remove_peer` is inserted after it (`wg/handshake.rs:192`); a keypair
  installed between two steps of `close` stays indexed without a slot
  (`wg/handler.rs:940`), which is why SlotsIndexed is stated for behaviours
  without `close`. `received_with_keypair` removes a displaced keypair by its
  index alone, after it has released the sessions lock (`wg/handler.rs:1186`): if
  the peer was swept meanwhile, and the index drawn and installed at again, the
  new keypair loses its entry and its slot can no longer receive. It takes the
  same 32-bit random draw in that moment; SlotsIndexed excepts those indexes.
  The tombstones make room by the order of first removals, so a key that was
  removed, came back and is now the last to be removed may be the next forgotten
  (`wg/handler.rs:62`), although "the one removed longest ago" is said to be;
  InitiationOnce allows an old initiation once more whenever that happens.
  A packet that `send_with` stages after the handshake it waits for has
  completed and flushed waits, session and all, for the peer's next
  authenticated packet (`wg/server.rs:591`), and so does one of a peer that was
  expired while its handshake completed and was added again before the prune;
  NoEndlessWait is about packets a handshake is still wanted for.
  `process_incoming` may record the endpoint of a peer just removed
  (`wg/server.rs:349`). `Adapter::remove_peer` ends with a teardown that does
  not ask whether the peer has been added again, and then takes the new device
  (`wg/adapter.rs:502`).
- Learning switch. `lookup` removes under the write lock an entry it saw stale
  under the read lock, though it was learned anew in between (`l2hub.rs:938`);
  a frame under way when its port's mode changes is learned under the old VLAN
  (`l2hub.rs:675`); `learn` reads the clock before it waits for the lock, so an
  entry may expire before `prune_after` (`l2hub.rs:860`); a frame on VLAN 0
  leaves a trunk with another native VLAN tagged 0, which names no VLAN, and is
  taken for that native VLAN at the other end (`l2hub.rs:262`): CopiesKeepVlan
  says so, and keeps only the other VLANs apart.
- DHCP server. Renewing a lease on record writes its client's new Ethernet
  source without a look at `max_leases_per_mac` (`dhcp/server.rs:609`).
- NAT. A remote that sends to both ports of a displaced mapping is tracked on
  both sides and answered from the old port, although the forward's is said to
  take over once traffic arrives on it (`nat/nat.rs:790`, `1863`): SessionKept
  excepts it. A forward added by a call that was under way when its namespace
  was detached stays (`nat/nat.rs:1662`). `add_expectation_locked` looks at
  mappings and forwards, and not at what else is expected on a port
  (`nat/nat.rs:670`): when H.323 has had an endpoint mapped (`nat/alg_h323.rs:112`),
  the mapping goes with its namespace, FTP is handed the port, and only then
  H.323 expects its endpoint there (`nat/alg_h323.rs:124`), a connection to that
  port may be given to either. ExpectedPortKept excepts such ports.

**Fairness.** In ovpn_delivery timers run: `Server` ticks its peers about once a
second and the backoff is capped, so `Tick` is weakly fair for each packet
unacknowledged. The engines write and a client sends what it owes (weak
fairness). Of the network only this: a packet sent again and again is received
in the end, and so is the answer to one (strong fairness per packet id). Giving
up (`failed`) is always possible, so the property excepts it. In tcp_live a
segment on its way is delivered or lost, and losses are finite (`faults`); an
application that has not let go reads what there is to read; an armed timer
fires in the end, for `vclient` ticks every connection. Deliver, AppRead and the
retransmission and persist timers have their weak fairness spelt out, since TLC
evaluates ENABLED of such handlers too slowly. In wg_server threads
run, the maintenance thread polls, time passes, and the network delivers what
it has not lost; nobody has to send, remove or answer, and the peer may be gone.

## The proofs

Each component's theorems are in a module `...Proofs` beside it. They hold for
every value of the constants that the component's ASSUME allows: any set of
peers, ports, clients, addresses or threads, any limits and times, any scopes.
`theorems` in PROJECT.json lists them with the property each states. The runs
show the same properties on small instances; every inductive invariant was first
checked there.

| module | theorem | property |
|---|---|---|
| WgReplayProofs | TypeCorrect, NoReplay, FilterExact, OldNeverReturns | type, AcceptedOnce, WindowExact, OldStaysOld |
| WgHandlerProofs | IndexNamesOne, RemovalIsFinal, SendsOnlyConfirmed, InitiationAcceptedOnce, UnknownPeersBounded, SlotsAndIndexAgree | NoTakeover, RemovedHasNoSession, SendsConfirmed, InitiationOnce, UnknownBounded, SlotsIndexed |
| WgAdapterProofs | NoDeviceLost, AllowedUpToDate, OneInitiationDecided | DevicesFollow, AllowedAgree, OneInitiation |
| OvpnReliableProofs | AckedWasTaken, TlsWaitsForProof | AckedMeansTaken, NoTlsBeforeProof |
| L2HubProofs | CountsAreRight, SecureKeepsAddress, VlansStayApart | CountsMatch, HeldNotStolen, CopiesKeepVlan |
| DhcpServerProofs | CountsAgree, LeasesAreKept, AddressesNotShared, QuarterIsKept, RenewalsHonoured | IndexesAgree, LeaseKept, NoSharedAddress, ProvisionalBounded, RenewalHonoured |
| NatProofs | PortLeadsToOne, NoPortLeaks, ForwardsLeadHome, ExpectedPortIsKept, SweepLeavesNothing, SessionsKeepPort | TablesAgree, PortsAccounted, ForwardsRule, ExpectedPortKept, SweepComplete, SessionKept |
| DhcpClientProofs | AddressFollowsLease, DeclinesAreJust, LeaseIsCovered | AdapterFollows, DeclinesJustified, LeaseCovered |

**WgReplay.** AcceptedOnce is not inductive: that a counter is not accepted
again depends on its bit still being in the ring. `IInv` adds that no counter
from `next` on has been accepted, and that for each counter of the words in the
ring (`InRing`) the bit is set exactly when the counter was accepted. The key
lemmas are `CellInjective`, two counters of the ring share a cell only when
equal, and `AdvanceExact`, what the clearing loop leaves: the words between the
old and the new current word are empty, all others kept, also when the jump
clears the whole ring. The window being a word shorter than the ring is what
makes every counter of the window one of the ring (`YoungInRing`).

**WgHandler.** Typing, NoTakeover and RemovedHasNoSession are inductive once a
thread's program counter is tied to its other fields (`OpFields`).
SendsConfirmed needs that a keypair whose packet is being handled has been heard
under (`HeardUnder`). InitiationOnce counts: what was accepted of a timestamp is
at most the number of times the peer was forgotten, and one more only if the
timestamp is behind what the peer's entry has, or behind what its tombstone kept
of it (`AcceptedBehind`); removal, eviction and pruning move it from one to the
other, and a tombstone that makes room for another adds to `forgotten`.
UnknownBounded needs the table finite. SlotsIndexed needs `IndexInv`: slots hold
keypairs of their peer, an index that is about to be removed is in no slot unless
it is `collided`, and a close under way has been counted.

**WgAdapter** (with WgServer's actions). `DeviceInv` says where devices are: whose
hands hold one and at which step (`HandsInv`), what becomes of one in the table
when the peer or the adapter goes (`FateInv`), and that the number wired is the
number in hands and in the table (`CountInv`). OneInitiation needs only that an
initiation claimed in this interval started the interval anew (`ClaimInv`),
shown for every step of every thread.

**OvpnReliable.** The only reason an end may forget a packet is an ACK on the
network, so `Core` says of every packet under way what its ACKs name: something
the peer has taken, in order or into the reorder buffer (`AcksTrue`); of each
end, that it owes ACKs only for what it took, that its reorder buffer is ahead of
its counter, and that its packet ids are below its next one. A step of an end is
one `Advance`: taken grows, and what goes out acknowledges what was taken.
`DrainedIs`, what the loop that empties the reorder buffer leaves, is by
pigeonhole. NoTlsBeforeProof follows from how `in_counter` and the reset's entry
in `unacked` change.

**L2Hub.** `HubInv`: the counts are cardinalities (`Counted`) and within the
limits (`Bounded`), and a frame under way has a snapshot of well-formed ports
and a clock reading not ahead of the clock. VLAN separation is a lemma on the
operators (`LeavingKeeps`) for every mode and every stack of tags; on VLAN 0 it
says only that the copy is read as an untagged frame is.

**DhcpServer.** `ServerInv`: the two indexes count the leases; two keys share an
address only where it is reserved; a lease fits the subnet; and every promise still
running is on record for as long (`Promised`), short of a restart. Every handler
is one `Answered` step: a refusal, silence, an offer or a grant; `ServerNext`
is proved from that. `QuarterIsKept` counts provisional leases against the
three quarters `NearlyFull` compares with. `commit` compares before it adds, so
the quarter kept is rounded down, and a pool of under four addresses keeps none
(`dhcp/server.rs:655`): its clients may take all of it on their word.

**DhcpClient.** A queue of calls lies between the client and the adapter, so
`FollowInv` says that the last call queued that sets an address sets the right
one (`FinalLast`); `WatchInv` that an address being probed has its check live,
begun, or about to be by a call still queued, and that what a tick read of it was
shown; `CoverInv` that calls are in the order of their transactions, that no call
of an earlier one can still give the address up once an answer is there, and that
what was requested is counted from when it was asked. The client's own steps are
summarised by `Moved`.

**Nat.** `NatInv` is a predicate on the record `inner`, so that it can be said
of every state between two operators of one handler. `Sound`: the records are
whole and a mapping has displaced at most one side, on another port
(`MappingsOK`); the reverse table and the mappings agree (`Agree`); a port's
holders are the entries on it (`Counted`); forwards and their index agree, and a
forwarded port is bound to its endpoint or to none (`Forwarded`); an expected
port is not forwarded, and a TCP one is expected for one endpoint and bound to
that or to none unless it is `shared` (`ExpectingBut`). The four invariants lean on each other: that a
port chosen with no holder may be bound takes `Counted`, that what it displaces
is the endpoint's own takes `Forwarded`. Removing a forward breaks one part, that only a forward displaces,
until the mapping on its port is removed too: `Displaced(t, rks)` says so short
of the ports in hand, and `DropForwards` is shown to end with none in hand.
Lemmas say what each operator does to the tables (`Binds`, `Unbinds`,
`Unforwards`, `Drops`, `Pushes`), then that it keeps the invariant, then each
handler is a chain of those. SweepLeavesNothing needs that removing the lapsed
forwards after the mappings were expired leaves no side idle that was not.

SessionsKeepPort follows every session through the same chains. A session is
`Safe` when its remote is live on the side it leaves from and no lapsed forward
is on that port. Every operator but three `Spares` the safe sessions: they are
safe afterwards, on the same port. The three are the removal of forwards, which
leaves the sessions on other ports (`LeavesLiving`); a take-over, where a session
that goes was on a port forwarded to its own endpoint and now to another
(`LivesOrTaken`); and the cleanup of a namespace. A packet that has its remote
tracked on both sides, and time, end a handler, so there it is enough that the
session still has its port or the remote is on both (`Passes`).

**Assumptions.** Beside types and bounds the proofs use these, each in the
component's ASSUME. WgServer: the maintenance, application and operator threads
are three, none of them a reader. DhcpServer: a client's key names one machine (the
same key comes with the same hardware address, as RFC 2131 asks of identifiers),
and the mark for no key is none. L2Hub: limits are numbers or `NoLimit`, and an
instance has no more ports than the most a hub takes. DhcpClient: T1 and T2 come in
order within the lease. OvpnReliable: a window is no larger than the buffer that
receives it.

**What the proofs showed.** SlotsIndexed and ExpectedPortKept are not theorems
without their exceptions (`collided`, `shared`): the attempts to prove them ended
in the two interleavings described above, which TLC then confirmed. A second
`remove_peer` that could begin while the first still has the device in hand
would lose a device; in the code the teardown is part of the call, on the
operator's thread, and WgAdapter's `RemovePeer` waits for it. A port's limit may
be raised, lowered or lifted while it has entries, so CountsMatch bounds a port's
entries by a limit some port may have, and only in instances where all have one.

**Only model-checked.** Liveness (AllDelivered, Delivered, OrphansEndOrGap,
NoEndlessWait, ComesToRest), being under fairness. The two stream refinements:
what a packet carries is a slice of a sequence and what a stream holds their
concatenation, which takes induction over data. Vtcp's StreamIntact and
AckedIsHeld: what the receiver holds is a slice of what was written, and the
comparisons of its sequence numbers wrap. Nat and Vtcp have a `TypeOK`; the runs do not check it, since what the properties they do check leave
of it is the shape of the records.

## Not modelled

Cryptography, randomness, system calls and kernel objects, wire layout, logging
and statistics; the fuzz targets, benches, interop harness and platform
bindings. A decryption is a nondeterministic success or failure, a random index
a choice among those free. Of the NAT, ICMP (whose echo identifiers use the same
tables), fragments, checksums, the text rewriting of the ALGs and sequence
adjustment are left out. What Vtcp, DhcpClient and WgServer leave out is said
with the module.

More than half of the repository's lines are tests inside the source files, and
much of the rest is parsing, building and checksumming of packets, or calls to
the kernel, which keep no state. The models cover the state machines named
above, and `PROJECT.json` gives, per component, what is missing. Not modelled
yet although they have state of their own: the OpenVPN peer and server,
SACK-based loss recovery, SYN cookies, NAT64, the NAT's sequence adjustment
across the 32-bit wrap (`nat/track.rs:413`), the UPnP tables, slirp (one
direction of a bridged connection may fail while the other carries data,
`slirp/tcp_stream.rs`), address resolution, the layer 3 hub (a packet is routed
with a snapshot of the ports while one is detached, `l3hub.rs`), both
reassemblers, impairment, and the AF_XDP rings. Congestion windows of CUBIC and BBR are
real-valued curves, out of TLC's reach.

## Plan

1. *Theorems*: Vtcp's AckedIsHeld, from lemmas on the wrapping comparisons.
2. *Models*: OvpnPeer (sessions, key slots, authentication) composed with
   OvpnReliable; the TCP scoreboard; slirp and vclient's backlog over TcpStream;
   NAT64, UPnP leases and sequence adjustment beside Nat; ARP/NDP resolution;
   L3Hub and the forwarding-depth guard; both reassemblers; impairment, AF_XDP
   rings, QEMU listeners.
3. *Abstract specifications*: a lease book for DHCP client and server together,
   a one-to-one mapping for NAT, exclusive ownership for AF_XDP frames.
