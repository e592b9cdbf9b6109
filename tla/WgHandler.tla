----------------------------- MODULE WgHandler ------------------------------
(***************************************************************************)
(* The tables of one WireGuard identity (Handler, src/src/wg/handler.rs)   *)
(* under the operations that change them: peers added, expired, removed    *)
(* and evicted; handshakes started, answered and completed                 *)
(* (src/src/wg/handshake.rs); transport packets received                   *)
(* (src/src/wg/transport.rs); maintenance and close.                       *)
(*                                                                         *)
(* Threads run the operations at once.  Each table has a lock of its own,  *)
(* so an operation is a chain of steps, one for each time it takes locks,  *)
(* and th[t] says what thread t has decided and not done yet.  What is     *)
(* read and rechecked later in the same operation shares a step with the   *)
(* read before it.  Cryptography is ideal: a response authenticates only   *)
(* against the handshake it answers, a packet only under its keypair.      *)
(***************************************************************************)
EXTENDS Integers, FiniteSets, Sequences

CONSTANTS
    Peers, Threads,
    Indexes,            \* local indexes that can be drawn
    UNKNOWN_PEER_LIMIT,
    MAX_TOMBSTONES,     \* removed keys whose last timestamp is remembered
    MAX_REMOVALS,       \* bound: times a peer is removed
    Scopes              \* bounds, of which a behaviour has one: the peers that
                        \* turn up, the indexes drawn, the number of handshakes
                        \* (ids), the timestamps of initiations, calls of close,
                        \* and which of these events occur: "initiate" (by this
                        \* side), "unknown" (peers taken), "expire", "age" (of
                        \* handshakes and keypairs)

ASSUME HandlerAssumption ==
    /\ {UNKNOWN_PEER_LIMIT, MAX_REMOVALS} \subseteq Nat
    /\ MAX_TOMBSTONES \in Nat \ {0}
    /\ 0 \notin Indexes
    /\ \A s \in Scopes :
        /\ s.peers \subseteq Peers /\ s.indexes \subseteq Indexes
        /\ {s.ids, s.timestamps, s.closes} \subseteq Nat

VARIABLES
    table,      \* peers: per peer, Absent or its PeerEntry
    tombstones, \* per peer, the last timestamp remembered from a removal
    order,      \* the keys remembered, by their first removal
    handshakes, \* pending initiations
    keypairs,   \* the index of keypairs
    sessions,   \* per peer, NoSession or its three slots
    th,         \* per thread, the operation it is in the middle of
    ids,        \* history: handshakes begun, which names them apart
    removals,   \* history: per peer, how often it was removed
    consumed,   \* history: how often each initiation was accepted
    confirmed,  \* history: keypairs the peer has been heard under
    forgotten,  \* history: per peer, how often its tombstone made room while
                \* it was out of the table
    collided,   \* history: indexes installed at while about to be unindexed
    closes,     \* history: calls of close
    scope       \* the bounds of this behaviour

burials == <<tombstones, order, forgotten>>

vars == <<table, burials, handshakes, keypairs, sessions, th, ids, removals,
          consumed, confirmed, collided, closes, scope>>

history == <<ids, removals, consumed, confirmed, collided, closes, scope>>

Absent    == [in |-> FALSE]
NoKeypair == [idx |-> 0]
NoSession == [open |-> FALSE]
Idle      == [pc |-> "idle"]

Timestamps == 1 .. scope.timestamps

Known(p) == table[p].in

(* is_authorized_peer: in the table and not past its expiry.               *)
Authorized(p) == Known(p) /\ ~ table[p].expired

Slots(s) == IF s.open THEN {s.current, s.prev, s.next} \ {NoKeypair} ELSE {}

InUse(idx) == \E e \in handshakes \cup keypairs : e.idx = idx

(* A thread has taken idx's keypair out of its slot, and will remove       *)
(* whatever it then finds at idx.                                          *)
Unindexing(idx) == \E t \in Threads : th[t].pc = "unindex" /\ th[t].idx = idx

(* allocate_index: any index that no pending handshake or keypair uses.    *)
(* Two threads may draw the same one before either inserts it, and an      *)
(* index another thread is about to remove may be drawn.                   *)
Drawable == {idx \in scope.indexes : ~ InUse(idx)}

Init ==
    /\ scope \in Scopes
    /\ table = [p \in Peers |-> Absent]
    /\ tombstones = [p \in Peers |-> 0]
    /\ order = <<>>
    /\ handshakes = {}
    /\ keypairs = {}
    /\ sessions = [p \in Peers |-> NoSession]
    /\ th = [t \in Threads |-> Idle]
    /\ ids = 0
    /\ removals = [p \in Peers |-> 0]
    /\ consumed = [p \in Peers |-> [ts \in Timestamps |-> 0]]
    /\ confirmed = {}
    /\ forgotten = [p \in Peers |-> 0]
    /\ collided = {}
    /\ closes = 0

-----------------------------------------------------------------------------
(* The peer table.                                                         *)

(* Mutant of NewEntry: the replay state of a removed key is not restored.  *)
NewEntryForgetful(p, unknown, stones) ==
    [in |-> TRUE, expired |-> FALSE, unknown |-> unknown, last |-> 0]

(* A fresh entry, carrying over the replay state of a key removed before,  *)
(* if the tombstones still have it.                                        *)
NewEntry(p, unknown, stones) ==
    [in |-> TRUE, expired |-> FALSE, unknown |-> unknown, last |-> stones[p]]

(* add_peer_locked: a known peer is refreshed in place.                    *)
Added(p, unknown) ==
    IF Known(p)
    THEN [table[p] EXCEPT !.expired = FALSE, !.unknown = @ /\ unknown]
    ELSE NewEntry(p, unknown, tombstones)

(* take_peer_locked of p records a key that the tombstones do not have.    *)
Recorded(p) == Known(p) /\ table[p].last > 0 /\ tombstones[p] = 0

(* Tombstones::record makes room for a new key at the expense of the one   *)
(* that was first recorded longest ago.                                    *)
Evicted(p) ==
    IF Recorded(p) /\ Len(order) >= MAX_TOMBSTONES THEN {Head(order)} ELSE {}

(* What p's removal leaves of the tombstones.  A key that has one keeps    *)
(* its place in the order, with the later of the two timestamps.           *)
Buried(p) ==
    [q \in Peers |->
        IF q = p /\ Known(p) /\ table[p].last > tombstones[p]
        THEN table[p].last
        ELSE IF q \in Evicted(p) THEN 0 ELSE tombstones[q]]

Ordered(p) ==
    IF Recorded(p)
    THEN Append(IF Evicted(p) = {} THEN order ELSE Tail(order), p)
    ELSE order

AddPeer(p) ==
    /\ p \in scope.peers
    /\ table' = [table EXCEPT ![p] = Added(p, FALSE)]
    /\ UNCHANGED <<burials, handshakes, keypairs, sessions, th, history>>

(* A peer's expiry passes.                                                 *)
Expire(p) ==
    /\ "expire" \in scope.events /\ Authorized(p)
    /\ table' = [table EXCEPT ![p].expired = TRUE]
    /\ UNCHANGED <<burials, handshakes, keypairs, sessions, th, history>>

(* p leaves the table, and thread t goes on with what the removal calls    *)
(* for.                                                                    *)
Take(t, p, goesOn, entries) ==
    /\ table' = entries
    /\ tombstones' = Buried(p)
    /\ order' = Ordered(p)
    /\ forgotten' = [q \in Peers |-> IF q \in Evicted(p) /\ ~ Known(q)
                                     THEN forgotten[q] + 1 ELSE forgotten[q]]
    /\ removals' = [removals EXCEPT ![p] = IF Known(p) THEN @ + 1 ELSE @]
    /\ th' = [th EXCEPT ![t] = goesOn]
    /\ UNCHANGED <<handshakes, keypairs, sessions, ids, consumed, confirmed,
                   collided, closes, scope>>

Without(p) == [table EXCEPT ![p] = Absent]

(* forget_peers of gone comes next, and later is what follows it.          *)
Sweep(gone, later) ==
    [pc |-> "sweep_handshakes", gone |-> gone, later |-> later]

CanCount(p) == removals[p] < MAX_REMOVALS

(* remove_peer deauthorizes first; a key not in the table is swept too.    *)
RemovePeer(t, p) ==
    /\ th[t] = Idle /\ p \in scope.peers /\ CanCount(p)
    /\ Take(t, p, Sweep({p}, Idle), Without(p))

(* maintenance drops the unknown peers it took that expired long ago, one  *)
(* after the other, and then sweeps them together.  The code holds the     *)
(* peers lock from the first to the last; here others may come between.    *)
PruneExpiredPeers(t) ==
    \E p \in Peers :
        LET gone == IF th[t] = Idle THEN {p} ELSE th[t].gone \cup {p}
        IN  /\ th[t] = Idle \/ th[t].pc = "prune"
            /\ Known(p) /\ table[p].unknown /\ table[p].expired /\ CanCount(p)
            /\ Take(t, p, [pc |-> "prune", gone |-> gone, later |-> Idle],
                    Without(p))

Pruned(t) ==
    /\ th[t].pc = "prune"
    /\ th' = [th EXCEPT ![t].pc = "sweep_handshakes"]
    /\ UNCHANGED <<table, burials, handshakes, keypairs, sessions, history>>

(* forget_peers, its first half: pending initiations go.                   *)
SweepHandshakes(t) ==
    /\ th[t].pc = "sweep_handshakes"
    /\ handshakes' = {h \in handshakes : h.peer \notin th[t].gone}
    /\ th' = [th EXCEPT ![t].pc = "sweep_sessions"]
    /\ UNCHANGED <<table, burials, keypairs, sessions, history>>

(* Its second half, under the sessions and keypairs locks.                 *)
SweepSessions(t) ==
    /\ th[t].pc = "sweep_sessions"
    /\ sessions' = [p \in Peers |-> IF p \in th[t].gone THEN NoSession
                                    ELSE sessions[p]]
    /\ keypairs' = {k \in keypairs : k.peer \notin th[t].gone}
    /\ th' = [th EXCEPT ![t] = th[t].later]
    /\ UNCHANGED <<table, burials, handshakes, history>>
-----------------------------------------------------------------------------
(* Handshakes we start.                                                    *)

(* initiate_handshake up to allocate_index.                                *)
Initiate(t, p) ==
    /\ "initiate" \in scope.events
    /\ th[t] = Idle /\ Authorized(p) /\ ids < scope.ids
    /\ ids' = ids + 1
    /\ \E idx \in Drawable :
        th' = [th EXCEPT ![t] =
                [pc |-> "insert_handshake",
                 hs |-> [idx |-> idx, peer |-> p, id |-> ids']]]
    /\ UNCHANGED <<table, burials, handshakes, keypairs, sessions, removals,
                   consumed, confirmed, collided, closes, scope>>

(* insert_handshake: the peer's earlier initiation is superseded, and then *)
(* the index refused if another handshake has taken it since.              *)
InsertHandshake(t) ==
    LET hs   == th[t].hs
        kept == {h \in handshakes : h.peer # hs.peer}
    IN  /\ th[t].pc = "insert_handshake"
        /\ handshakes' = IF \E e \in kept \cup keypairs : e.idx = hs.idx
                         THEN kept ELSE kept \cup {hs}
        /\ th' = [th EXCEPT ![t] = Idle]
        /\ UNCHANGED <<table, burials, keypairs, sessions, history>>

(* A response authenticates against the handshake found at its index, and  *)
(* the peer is still authorized.                                           *)
Response(t, hs) ==
    /\ th[t] = Idle /\ Authorized(hs.peer)
    /\ th' = [th EXCEPT ![t] =
                [pc |-> "complete", idx |-> hs.idx,
                 kp |-> [idx |-> hs.idx, peer |-> hs.peer, id |-> hs.id,
                         initiator |-> TRUE]]]
    /\ UNCHANGED <<table, burials, handshakes, keypairs, sessions, history>>

(* complete_handshake: of two copies of a response one goes on.            *)
Complete(t) ==
    /\ th[t].pc = "complete"
    /\ handshakes' = {h \in handshakes : h.idx # th[t].idx}
    /\ th' = [th EXCEPT ![t] =
                IF handshakes' = handshakes THEN Idle
                ELSE [pc |-> "install", kp |-> th[t].kp]]
    /\ UNCHANGED <<table, burials, keypairs, sessions, history>>

-----------------------------------------------------------------------------
(* Handshakes we answer.                                                   *)

(* accept_peer_initiation: strictly later than the last one accepted.      *)
Fresh(p, ts) == ts > table[p].last

(* process_handshake_initiation once the peer is known to be authorized,   *)
(* up to allocate_index.  Refused, it ends there: a peer gone, a timestamp *)
(* not fresh, or an initiation within MIN_INITIATION_INTERVAL of the last, *)
(* which may be any, as there is no clock.                                 *)
Accept(t, p, ts) ==
    \/ /\ Authorized(p) /\ Fresh(p, ts) /\ ids < scope.ids
       /\ table' = [table EXCEPT ![p].last = ts]
       /\ consumed' = [consumed EXCEPT ![p][ts] = @ + 1]
       /\ ids' = ids + 1
       /\ \E idx \in Drawable :
            th' = [th EXCEPT ![t] =
                    [pc |-> "install",
                     kp |-> [idx |-> idx, peer |-> p, id |-> ids',
                             initiator |-> FALSE]]]
       /\ UNCHANGED <<burials, handshakes, keypairs, sessions, removals,
                      confirmed, collided, closes, scope>>
    \/ /\ th[t] # Idle
       /\ th' = [th EXCEPT ![t] = Idle]
       /\ UNCHANGED <<table, burials, handshakes, keypairs, sessions,
                      history>>

Initiation(t, p, ts) == th[t] = Idle /\ Authorized(p) /\ Accept(t, p, ts)

(* Mutant of Full: one peer too many is taken.                             *)
FullPastLimit == Cardinality({q \in Peers : Known(q)}) > UNKNOWN_PEER_LIMIT

Full == Cardinality({q \in Peers : Known(q)}) >= UNKNOWN_PEER_LIMIT

(* accept_unknown_peer, from the callback on an initiation of a peer that  *)
(* is not authorized: an expired one is refreshed, a new one takes a free  *)
(* place or that of an expired unknown peer, or is refused.  The victim's  *)
(* tombstone comes first, and may be at the expense of the newcomer's own. *)
AcceptUnknown(t, p, ts) ==
    LET rerun == [pc |-> "accept", peer |-> p, ts |-> ts]
    IN  /\ "unknown" \in scope.events
        /\ th[t] = Idle /\ p \in scope.peers /\ ~ Authorized(p)
        /\ \/ /\ Known(p) \/ ~ Full
              /\ table' = [table EXCEPT ![p] = Added(p, TRUE)]
              /\ th' = [th EXCEPT ![t] = rerun]
              /\ UNCHANGED <<burials, handshakes, keypairs, sessions,
                             history>>
           \/ /\ ~ Known(p) /\ Full
              /\ \E victim \in Peers :
                    /\ Known(victim) /\ table[victim].unknown
                    /\ table[victim].expired /\ CanCount(victim)
                    /\ Take(t, victim, Sweep({victim}, rerun),
                            [Without(victim) EXCEPT
                                ![p] = NewEntry(p, TRUE, Buried(victim))])

Rerun(t) == th[t].pc = "accept" /\ Accept(t, th[t].peer, th[t].ts)

-----------------------------------------------------------------------------
(* Keypairs and their three slots.                                         *)

EmptySession == [open |-> TRUE, current |-> NoKeypair, prev |-> NoKeypair,
                 next |-> NoKeypair]

(* Mutant of Placed: an unconfirmed keypair is sent with at once.          *)
PlacedAtOnce(s, kp) == [s EXCEPT !.prev = s.current, !.current = kp]

(* install_initiator_keypair makes kp current, and keeps an unconfirmed    *)
(* next, which the peer may send with, in place of current as previous.    *)
(* install_responder_keypair holds kp as next until it is confirmed.       *)
Placed(s, kp) ==
    IF kp.initiator
    THEN [s EXCEPT !.current = kp, !.next = NoKeypair,
                   !.prev = IF s.next # NoKeypair THEN s.next ELSE s.current]
    ELSE [s EXCEPT !.next = kp]

(* Mutant of Installable: authorization is left to the caller's check.     *)
IndexFree(kp) == \A k \in keypairs : k.idx # kp.idx

(* Mutant of Installable: an index drawn again meanwhile is not noticed.   *)
OwnerAuthorized(kp) == Authorized(kp.peer)

(* What install checks under the sessions lock before it touches anything. *)
Installable(kp) ==
    Authorized(kp.peer) /\ \A k \in keypairs : k.idx # kp.idx

(* What the install functions push out of their slots.                     *)
Displaced(s, kp) ==
    (IF ~ kp.initiator THEN {s.next}
     ELSE IF s.next # NoKeypair THEN {s.prev, s.current} ELSE {s.prev})
    \ {NoKeypair}

(* install: index kp, give it its slot, and unindex what it displaces, by  *)
(* index.                                                                  *)
Install(t) ==
    LET kp  == th[t].kp
        old == IF sessions[kp.peer].open THEN sessions[kp.peer]
               ELSE EmptySession
    IN  /\ th[t].pc = "install"
        /\ \/ /\ Installable(kp)
              /\ sessions' = [sessions EXCEPT ![kp.peer] = Placed(old, kp)]
              /\ keypairs' = {k \in keypairs \cup {kp} :
                                \A o \in Displaced(old, kp) : k.idx # o.idx}
              /\ collided' = IF Unindexing(kp.idx) THEN collided \cup {kp.idx}
                             ELSE collided
           \/ /\ ~ Installable(kp)
              /\ UNCHANGED <<sessions, keypairs, collided>>
        /\ th' = [th EXCEPT ![t] = Idle]
        /\ UNCHANGED <<table, burials, handshakes, ids, removals, consumed,
                       confirmed, closes, scope>>

(* A transport packet authenticates under an indexed keypair of a peer     *)
(* that is authorized.                                                     *)
Receive(t, kp) ==
    /\ th[t] = Idle /\ Authorized(kp.peer)
    /\ confirmed' = confirmed \cup {kp.id}
    /\ th' = [th EXCEPT ![t] = [pc |-> "received", kp |-> kp]]
    /\ UNCHANGED <<table, burials, handshakes, keypairs, sessions, ids,
                   removals, consumed, collided, closes, scope>>

(* received_with_keypair: a next keypair is confirmed and becomes current; *)
(* the one that leaves is unindexed once the sessions lock is released.    *)
Confirm(t) ==
    LET kp == th[t].kp
        s  == sessions[kp.peer]
        isNext == s.open /\ s.next = kp
    IN  /\ th[t].pc = "received"
        /\ \/ /\ isNext
              /\ sessions' = [sessions EXCEPT ![kp.peer] =
                                [s EXCEPT !.current = kp, !.prev = s.current,
                                          !.next = NoKeypair]]
              /\ th' = [th EXCEPT ![t] =
                            IF s.prev = NoKeypair THEN Idle
                            ELSE [pc |-> "unindex", idx |-> s.prev.idx]]
           \/ /\ ~ isNext
              /\ th' = [th EXCEPT ![t] = Idle]
              /\ UNCHANGED sessions
        /\ UNCHANGED <<table, burials, handshakes, keypairs, history>>

Unindex(t) ==
    /\ th[t].pc = "unindex"
    /\ keypairs' = {k \in keypairs : k.idx # th[t].idx}
    /\ th' = [th EXCEPT ![t] = Idle]
    /\ UNCHANGED <<table, burials, handshakes, sessions, history>>

-----------------------------------------------------------------------------
(* Maintenance and close.                                                  *)

CleanupHandshakes ==
    /\ "age" \in scope.events
    /\ \E stale \in SUBSET handshakes \ {{}} : handshakes' = handshakes \ stale
    /\ UNCHANGED <<table, burials, keypairs, sessions, th, history>>

(* Mutant of Reaped: the previous keypair's slot is forgotten.             *)
ReapedExceptPrev(s, dead) ==
    LET Keep(k) == IF k \in dead THEN NoKeypair ELSE k
    IN  [s EXCEPT !.current = Keep(@), !.next = Keep(@)]

(* The session once the keypairs in dead are past REJECT_AFTER_TIME.       *)
Reaped(s, dead) ==
    LET Keep(k) == IF k \in dead THEN NoKeypair ELSE k
    IN  [s EXCEPT !.current = Keep(@), !.prev = Keep(@), !.next = Keep(@)]

(* cleanup_sessions: keypairs too old leave their slot and the index, and  *)
(* a session with neither a current nor a next keypair goes once inactive. *)
(* A previous keypair is never younger than the current one.               *)
CleanupSessions ==
    \E dead \in SUBSET UNION {Slots(sessions[p]) : p \in Peers},
       inactive \in SUBSET Peers :
        LET After(p) == Reaped(sessions[p], dead)
            Goes(p)  == /\ p \in inactive
                        /\ After(p).current = NoKeypair
                        /\ After(p).next = NoKeypair
        IN  /\ "age" \in scope.events /\ dead # {}
            /\ \A p \in Peers : sessions[p].open /\ sessions[p].current \in dead
                    => Slots([sessions[p] EXCEPT !.next = NoKeypair]) \subseteq dead
            /\ sessions' = [p \in Peers |->
                                IF ~ sessions[p].open THEN NoSession
                                ELSE IF Goes(p) THEN NoSession ELSE After(p)]
            /\ keypairs' = {k \in keypairs : \A d \in dead : k.idx # d.idx}
            /\ UNCHANGED <<table, burials, handshakes, th, history>>

(* close empties each table under its own lock.                            *)
CloseHandshakes(t) ==
    /\ th[t] = Idle /\ closes < scope.closes
    /\ closes' = closes + 1
    /\ handshakes' = {}
    /\ th' = [th EXCEPT ![t] = [pc |-> "close_keypairs"]]
    /\ UNCHANGED <<table, burials, keypairs, sessions, ids, removals, consumed,
                   confirmed, collided, scope>>

CloseKeypairs(t) ==
    /\ th[t].pc = "close_keypairs"
    /\ keypairs' = {}
    /\ th' = [th EXCEPT ![t].pc = "close_sessions"]
    /\ UNCHANGED <<table, burials, handshakes, sessions, history>>

CloseSessions(t) ==
    /\ th[t].pc = "close_sessions"
    /\ sessions' = [p \in Peers |-> NoSession]
    /\ th' = [th EXCEPT ![t] = Idle]
    /\ UNCHANGED <<table, burials, handshakes, keypairs, history>>

-----------------------------------------------------------------------------
Step(t) ==
    \/ PruneExpiredPeers(t) \/ Pruned(t)
    \/ SweepHandshakes(t) \/ SweepSessions(t)
    \/ InsertHandshake(t) \/ Complete(t) \/ Rerun(t)
    \/ Install(t) \/ Confirm(t) \/ Unindex(t)
    \/ CloseKeypairs(t) \/ CloseSessions(t)

Start(t) ==
    \/ \E p \in Peers : \/ RemovePeer(t, p)
                        \/ Initiate(t, p)
                        \/ \E ts \in Timestamps : \/ Initiation(t, p, ts)
                                                  \/ AcceptUnknown(t, p, ts)
    \/ \E hs \in handshakes : Response(t, hs)
    \/ \E kp \in keypairs : Receive(t, kp)
    \/ CloseHandshakes(t)

Next ==
    \/ \E t \in Threads : Start(t) \/ Step(t)
    \/ \E p \in Peers : AddPeer(p) \/ Expire(p)
    \/ CleanupHandshakes
    \/ CleanupSessions

Spec == Init /\ [][Next]_vars

-----------------------------------------------------------------------------
KeypairOK(k) ==
    /\ k.idx \in Indexes /\ k.peer \in Peers /\ k.id \in 1 .. scope.ids
    /\ k.initiator \in BOOLEAN

TypeOK ==
    /\ \A p \in Peers :
        /\ Known(p) => table[p].last \in 0 .. scope.timestamps
        /\ \A k \in Slots(sessions[p]) : KeypairOK(k) /\ k.peer = p
    /\ tombstones \in [Peers -> 0 .. scope.timestamps]
    /\ \A h \in handshakes : h.idx \in Indexes /\ h.peer \in Peers
    /\ \A k \in keypairs : KeypairOK(k)

Sweeping(p) == \E t \in Threads :
    /\ th[t].pc \in {"prune", "sweep_handshakes", "sweep_sessions"}
    /\ p \in th[t].gone

(* A peer removed, whichever way, leaves no session and no keypair behind  *)
(* once its sweep is over, however a handshake of its was under way: the   *)
(* authorization check of install is under the lock the sweep takes.       *)
RemovedHasNoSession ==
    \A p \in Peers : ~ Known(p) /\ ~ Sweeping(p) =>
        /\ ~ sessions[p].open
        /\ \A k \in keypairs : k.peer # p

(* The slots and the index agree: a keypair in a slot is found by its      *)
(* index, and one that is found sits in a slot of its peer, or is about to *)
(* be unindexed.  Otherwise a live keypair cannot receive, or a dead one   *)
(* is never wiped.  received_with_keypair unindexes after it has released  *)
(* the sessions lock, so an index installed at in that moment may lose its *)
(* keypair: the damage stays with the keypairs of that index.  close takes *)
(* the two tables one after the other, and promises no more than that both *)
(* were empty once.                                                        *)
SlotsIndexed ==
    closes = 0 =>
        /\ \A p \in Peers : \A k \in Slots(sessions[p]) :
            k \in keypairs \/ k.idx \in collided
        /\ \A k \in keypairs :
            \/ k \in Slots(sessions[k.peer])
            \/ Unindexing(k.idx)

(* No index names two keypairs or two pending handshakes, though two       *)
(* threads may draw the same one.                                          *)
NoTakeover ==
    /\ \A a, b \in keypairs : a.idx = b.idx => a = b
    /\ \A a, b \in handshakes : a.idx = b.idx \/ a.peer = b.peer => a = b

(* A responder never sends with a keypair before it has been heard under:  *)
(* the initiator may not have it.                                          *)
SendsConfirmed ==
    \A p \in Peers :
        LET s == sessions[p]
        IN  s.open /\ s.current # NoKeypair =>
                s.current.initiator \/ s.current.id \in confirmed

(* An initiation is accepted once, and once more at most each time its     *)
(* sender's tombstone made room for another key's while the sender was out *)
(* of the table: removal and authorization alone never reopen it.          *)
InitiationOnce ==
    \A p \in Peers, ts \in Timestamps : consumed[p][ts] <= 1 + forgotten[p]

(* Unknown peers never hold more places than the limit.                    *)
UnknownBounded ==
    Cardinality({p \in Peers : Known(p) /\ table[p].unknown})
        <= UNKNOWN_PEER_LIMIT
=============================================================================
