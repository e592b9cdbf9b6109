-------------------------- MODULE WgHandlerProofs ---------------------------
(***************************************************************************)
(* Proofs about the tables of a WireGuard identity, for any peers, threads *)
(* and indexes, and any number of handshakes.                              *)
(***************************************************************************)
EXTENDS WgHandler, TLAPS, FiniteSetTheorems

USE DEF burials

Entries  == [in : {TRUE}, expired : BOOLEAN, unknown : BOOLEAN, last : Nat]
Pendings == [idx : Indexes, peer : Peers, id : Nat]
Keypairs == [idx : Indexes, peer : Peers, id : Nat, initiator : BOOLEAN]
Slot     == Keypairs \cup {NoKeypair}
Opened   == [open : {TRUE}, current : Slot, prev : Slot, next : Slot]
Reruns   == [pc : {"accept"}, peer : Peers, ts : Nat]
Ops      == {Idle} \cup Reruns
              \cup [pc : {"insert_handshake"}, hs : Pendings]
              \cup [pc : {"complete"}, idx : Indexes, kp : Keypairs]
              \cup [pc : {"install", "received"}, kp : Keypairs]
              \cup [pc : {"unindex"}, idx : Indexes]
              \cup [pc : {"close_keypairs", "close_sessions"}]
              \cup [pc : {"prune", "sweep_handshakes", "sweep_sessions"},
                    gone : SUBSET Peers, later : {Idle} \cup Reruns]

Typed ==
    /\ scope \in Scopes
    /\ table \in [Peers -> Entries \cup {Absent}]
    /\ tombstones \in [Peers -> Nat]
    /\ order \in Seq(Peers)
    /\ forgotten \in [Peers -> Nat]
    /\ handshakes \subseteq Pendings
    /\ keypairs \subseteq Keypairs
    /\ sessions \in [Peers -> Opened \cup {NoSession}]
    /\ th \in [Threads -> Ops]
    /\ ids \in Nat
    /\ removals \in [Peers -> Nat]
    /\ consumed \in [Peers -> [Timestamps -> Nat]]
    /\ closes \in Nat

(* Keypairs: what a slot holds is its peer's, and is held once; a previous *)
(* keypair stands behind a current one; what is being unindexed has left   *)
(* its slot.                                                               *)
Whole(k, bad) == k # NoKeypair /\ k.idx \notin bad

Sound(s, p, bad) ==
    /\ \A k \in Slots(s) : k.peer = p
    /\ s.current = NoKeypair => s.prev = NoKeypair
    /\ Whole(s.current, bad) => s.current # s.prev /\ s.current # s.next
    /\ Whole(s.prev, bad) => s.prev # s.next

SlotsSound ==
    closes = 0 =>
        \A p \in Peers : sessions[p].open => Sound(sessions[p], p, collided)

UnindexedLeft ==
    closes = 0 =>
        \A p \in Peers : \A k \in Slots(sessions[p]) :
            ~ Unindexing(k.idx) \/ k.idx \in collided

ClosingCounted ==
    \A t \in Threads : th[t].pc \in {"close_keypairs", "close_sessions"} => closes > 0

IndexInv == /\ NoTakeover /\ SlotsSound /\ SlotsIndexed /\ UnindexedLeft
            /\ ClosingCounted

(* A keypair whose packet is being handled has been heard under.           *)
HeardUnder ==
    \A t \in Threads : th[t].pc = "received" => th[t].kp.id \in confirmed

(* Every initiation accepted is behind the peer's timestamp, or behind     *)
(* what its removal left of it, but for one each time that was lost.       *)
Remembered(p) == IF Known(p) THEN table[p].last ELSE tombstones[p]

AcceptedBehind ==
    \A p \in Peers, ts \in Timestamps :
        consumed[p][ts] <= forgotten[p] + (IF ts <= Remembered(p) THEN 1 ELSE 0)

-----------------------------------------------------------------------------
(* What a thread's program counter says of its other fields.               *)
LEMMA OpFields ==
    ASSUME NEW o \in Ops
    PROVE  /\ o.pc = "accept" => o.peer \in Peers /\ o.ts \in Nat
           /\ o.pc = "insert_handshake" => o.hs \in Pendings
           /\ o.pc = "complete" => o.idx \in Indexes /\ o.kp \in Keypairs
           /\ o.pc \in {"install", "received"} => o.kp \in Keypairs
           /\ o.pc = "unindex" => o.idx \in Indexes
           /\ o.pc \in {"prune", "sweep_handshakes", "sweep_sessions"} =>
                /\ o.gone \in SUBSET Peers /\ o.later \in {Idle} \cup Reruns
           /\ o.pc \in {"close_keypairs", "close_sessions"} =>
                [o EXCEPT !.pc = "close_sessions"] = [pc |-> "close_sessions"]
  BY DEF Ops, Idle, Reruns

LEMMA OpKinds ==
    /\ Idle \in Ops /\ Reruns \subseteq Ops
    /\ \A hs \in Pendings : [pc |-> "insert_handshake", hs |-> hs] \in Ops
    /\ \A idx \in Indexes, kp \in Keypairs :
            [pc |-> "complete", idx |-> idx, kp |-> kp] \in Ops
    /\ \A kp \in Keypairs : /\ [pc |-> "install", kp |-> kp] \in Ops
                            /\ [pc |-> "received", kp |-> kp] \in Ops
    /\ \A idx \in Indexes : [pc |-> "unindex", idx |-> idx] \in Ops
    /\ [pc |-> "close_keypairs"] \in Ops
    /\ [pc |-> "close_sessions"] \in Ops
    /\ \A gone \in SUBSET Peers, later \in {Idle} \cup Reruns :
        /\ [pc |-> "prune", gone |-> gone, later |-> later] \in Ops
        /\ [pc |-> "sweep_handshakes", gone |-> gone, later |-> later] \in Ops
        /\ [pc |-> "sweep_sessions", gone |-> gone, later |-> later] \in Ops
  BY DEF Ops

(* The table's operators stay within its types.                            *)
LEMMA EntryTypes ==
    ASSUME Typed
    PROVE  /\ \A p \in Peers, u \in BOOLEAN, stones \in [Peers -> Nat] :
                NewEntry(p, u, stones) \in Entries
           /\ \A p \in Peers, u \in BOOLEAN : Added(p, u) \in Entries
           /\ \A p \in Peers : Known(p) => table[p] \in Entries
<1>1. \A p \in Peers, u \in BOOLEAN, stones \in [Peers -> Nat] :
            NewEntry(p, u, stones) \in Entries
  BY DEF NewEntry, Entries
<1>2. \A p \in Peers : Known(p) => table[p] \in Entries
  BY DEF Typed, Known, Absent
<1>3. ASSUME NEW p \in Peers, NEW u \in BOOLEAN, Known(p)
      PROVE  Added(p, u) \in Entries
  BY <1>2, <1>3 DEF Added, Entries
<1>4. ASSUME NEW p \in Peers, NEW u \in BOOLEAN, ~ Known(p)
      PROVE  Added(p, u) \in Entries
  BY <1>1, <1>4 DEF Added, Typed
<1> QED  BY <1>1, <1>2, <1>3, <1>4

LEMMA SessionTypes ==
    /\ EmptySession \in Opened
    /\ \A s \in Opened, kp \in Keypairs : Placed(s, kp) \in Opened
    /\ \A s \in Opened : \A dead : Reaped(s, dead) \in Opened
    /\ \A s \in Opened \cup {NoSession} : s.open => s \in Opened
    /\ \A s \in Opened \cup {NoSession} : Slots(s) \subseteq Keypairs
<1>1. EmptySession \in Opened
  BY DEF EmptySession, Opened, Slot
<1>2. ASSUME NEW s \in Opened, NEW kp \in Keypairs
      PROVE  Placed(s, kp) \in Opened
  <2>1. kp \in Slot /\ NoKeypair \in Slot  BY DEF Slot
  <2>2. CASE kp.initiator  BY <2>1, <2>2 DEF Placed, Opened
  <2>3. CASE ~ kp.initiator  BY <2>1, <2>3 DEF Placed, Opened
  <2> QED  BY <2>2, <2>3
<1>3. ASSUME NEW s \in Opened, NEW dead
      PROVE  Reaped(s, dead) \in Opened
  <2>1. NoKeypair \in Slot  BY DEF Slot
  <2> QED  BY <2>1 DEF Reaped, Opened
<1>4. \A s \in Opened \cup {NoSession} : s.open => s \in Opened
  BY DEF NoSession
<1>5. \A s \in Opened \cup {NoSession} : Slots(s) \subseteq Keypairs
  <2>1. ASSUME NEW s \in Opened PROVE Slots(s) \subseteq Keypairs
    BY DEF Slots, Opened, Slot
  <2>2. Slots(NoSession) = {}  BY DEF NoSession, Slots
  <2> QED  BY <2>1, <2>2
<1> QED  BY <1>1, <1>2, <1>3, <1>4, <1>5

(* A removal leaves tombstones, and their order, of the right type.        *)
LEMMA BuriedTyped ==
    ASSUME Typed, NEW p \in Peers
    PROVE  /\ Evicted(p) \subseteq Peers
           /\ Buried(p) \in [Peers -> Nat]
           /\ Ordered(p) \in Seq(Peers)
<1>1. Known(p) => table[p].last \in Nat
  BY EntryTypes DEF Entries
<1>2. Buried(p) \in [Peers -> Nat]
  BY <1>1 DEF Buried, Typed
<1>3. Len(order) >= MAX_TOMBSTONES =>
        Head(order) \in Peers /\ Tail(order) \in Seq(Peers)
  BY HandlerAssumption DEF Typed
<1>4. Evicted(p) \subseteq Peers  BY <1>3 DEF Evicted
<1>5. Ordered(p) \in Seq(Peers)
  <2>1. CASE Evicted(p) = {}  BY <2>1 DEF Ordered, Typed
  <2>2. CASE Evicted(p) # {} /\ Recorded(p)
    BY <1>3, <2>2 DEF Ordered, Evicted, Typed
  <2>3. CASE ~ Recorded(p)  BY <2>3 DEF Ordered, Typed
  <2> QED  BY <2>1, <2>2, <2>3
<1> QED  BY <1>2, <1>4, <1>5

LEMMA TakeTyped ==
    ASSUME Typed, NEW t \in Threads, NEW p \in Peers, NEW goesOn \in Ops,
           NEW entries \in [Peers -> Entries \cup {Absent}],
           Take(t, p, goesOn, entries)
    PROVE  Typed'
<1>1. tombstones' \in [Peers -> Nat] /\ order' \in Seq(Peers)
  BY BuriedTyped DEF Take
<1>2. removals' \in [Peers -> Nat]  BY DEF Take, Typed
<1>3. th' \in [Threads -> Ops]  BY DEF Take, Typed
<1>4. table' \in [Peers -> Entries \cup {Absent}]  BY DEF Take
<1>5. forgotten' \in [Peers -> Nat]  BY DEF Take, Typed
<1> QED  BY <1>1, <1>2, <1>3, <1>4, <1>5 DEF Take, Typed, Timestamps

LEMMA WithoutTyped ==
    ASSUME Typed, NEW p \in Peers
    PROVE  Without(p) \in [Peers -> Entries \cup {Absent}]
  BY DEF Typed, Without

LEMMA SweepTyped ==
    ASSUME NEW p \in Peers, NEW later \in {Idle} \cup Reruns
    PROVE  Sweep({p}, later) \in Ops
  BY OpKinds DEF Sweep

LEMMA PruneTyped ==
    ASSUME Typed, NEW t \in Threads, PruneExpiredPeers(t)
    PROVE  \E p \in Peers : \E gone \in SUBSET Peers :
            /\ Known(p) /\ p \in gone
            /\ th[t].pc = "idle" \/ (th[t].pc = "prune" /\ th[t].gone \subseteq gone)
            /\ Take(t, p, [pc |-> "prune", gone |-> gone, later |-> Idle],
                    Without(p))
<1>1. PICK p \in Peers :
        /\ th[t] = Idle \/ th[t].pc = "prune"
        /\ Known(p)
        /\ Take(t, p, [pc |-> "prune",
                       gone |-> IF th[t] = Idle THEN {p} ELSE th[t].gone \cup {p},
                       later |-> Idle],
                Without(p))
  BY DEF PruneExpiredPeers
<1>2. PICK gone : gone = IF th[t] = Idle THEN {p} ELSE th[t].gone \cup {p}
  OBVIOUS
<1>3. th[t] \in Ops  BY DEF Typed
<1>4. th[t].pc = "prune" => th[t].gone \in SUBSET Peers  BY <1>3, OpFields
<1>5. /\ gone \in SUBSET Peers /\ p \in gone
      /\ th[t].pc = "idle" \/ (th[t].pc = "prune" /\ th[t].gone \subseteq gone)
  BY <1>1, <1>2, <1>4 DEF Idle
<1>6. Take(t, p, [pc |-> "prune", gone |-> gone, later |-> Idle], Without(p))
  BY <1>1, <1>2
<1> QED  BY <1>1, <1>5, <1>6

LEMMA AcceptTyped ==
    ASSUME Typed, NEW t \in Threads, NEW p \in Peers, NEW ts \in Nat,
           Accept(t, p, ts)
    PROVE  Typed'
<1>1. CASE UNCHANGED <<table, burials, handshakes, keypairs, sessions, history>>
           /\ th' = [th EXCEPT ![t] = Idle]
  BY <1>1, OpKinds DEF Typed, history, Timestamps
<1>2. ASSUME Authorized(p), ids' = ids + 1,
             table' = [table EXCEPT ![p].last = ts],
             consumed' = [consumed EXCEPT ![p][ts] = @ + 1],
             NEW idx \in Drawable,
             th' = [th EXCEPT ![t] =
                        [pc |-> "install",
                         kp |-> [idx |-> idx, peer |-> p, id |-> ids',
                                 initiator |-> FALSE]]],
             UNCHANGED <<burials, handshakes, keypairs, sessions, removals,
                         confirmed, collided, closes, scope>>
      PROVE  Typed'
  <2>1. idx \in Indexes  BY <1>2, HandlerAssumption DEF Typed, Drawable
  <2>2. ids' \in Nat  BY <1>2 DEF Typed
  <2>3. th' \in [Threads -> Ops]
    BY <1>2, <2>1, <2>2, OpKinds DEF Typed, Keypairs
  <2>4. table' \in [Peers -> Entries \cup {Absent}]
    <3>1. table[p] \in Entries  BY <1>2, EntryTypes DEF Authorized
    <3>2. [table[p] EXCEPT !.last = ts] \in Entries  BY <3>1 DEF Entries
    <3> QED  BY <1>2, <3>2 DEF Typed
  <2>5. consumed' \in [Peers -> [Timestamps -> Nat]]
    <3> DEFINE c == [consumed[p] EXCEPT ![ts] = @ + 1]
    <3>1. consumed[p] \in [Timestamps -> Nat]  BY DEF Typed
    <3>2. c \in [Timestamps -> Nat]
      <4>1. CASE ts \in Timestamps  BY <3>1, <4>1
      <4>2. CASE ts \notin Timestamps  BY <3>1, <4>2
      <4> QED  BY <4>1, <4>2
    <3>3. consumed' = [consumed EXCEPT ![p] = c]  BY <1>2
    <3> HIDE DEF c
    <3> QED  BY <3>2, <3>3 DEF Typed
  <2> QED  BY <1>2, <2>2, <2>3, <2>4, <2>5 DEF Typed, Timestamps
<1> QED  BY <1>1, <1>2 DEF Accept

LEMMA TypedStart ==
    ASSUME Typed, NEW t \in Threads, Start(t)
    PROVE  Typed'
<1>1. ASSUME NEW p \in Peers, RemovePeer(t, p) PROVE Typed'
  BY <1>1, TakeTyped, WithoutTyped, SweepTyped DEF RemovePeer
<1>2. ASSUME NEW p \in Peers, Initiate(t, p) PROVE Typed'
  <2>1. PICK idx \in Drawable :
            th' = [th EXCEPT ![t] =
                    [pc |-> "insert_handshake",
                     hs |-> [idx |-> idx, peer |-> p, id |-> ids']]]
    BY <1>2 DEF Initiate
  <2>2. idx \in Indexes /\ ids' \in Nat
    BY <1>2, HandlerAssumption DEF Typed, Drawable, Initiate
  <2>3. th' \in [Threads -> Ops]
    BY <2>1, <2>2, OpKinds DEF Typed, Pendings
  <2> QED  BY <1>2, <2>2, <2>3 DEF Initiate, Typed, Timestamps
<1>3. ASSUME NEW p \in Peers, NEW ts \in Timestamps, Initiation(t, p, ts)
      PROVE Typed'
  <2>1. ts \in Nat  BY HandlerAssumption DEF Typed, Timestamps
  <2> QED  BY <1>3, <2>1, AcceptTyped DEF Initiation
<1>4. ASSUME NEW p \in Peers, NEW ts \in Timestamps, AcceptUnknown(t, p, ts)
      PROVE Typed'
  <2> DEFINE rerun == [pc |-> "accept", peer |-> p, ts |-> ts]
  <2>1. rerun \in Reruns
    BY HandlerAssumption DEF Typed, Timestamps, Reruns
  <2>2. CASE /\ table' = [table EXCEPT ![p] = Added(p, TRUE)]
             /\ th' = [th EXCEPT ![t] = rerun]
             /\ UNCHANGED <<burials, handshakes, keypairs, sessions, history>>
    <3>1. table' \in [Peers -> Entries \cup {Absent}]
      BY <2>2, EntryTypes DEF Typed
    <3>2. th' \in [Threads -> Ops]
      BY <2>1, <2>2, OpKinds DEF Typed
    <3> QED  BY <2>2, <3>1, <3>2 DEF Typed, history, Timestamps
  <2>3. ASSUME NEW victim \in Peers,
               Take(t, victim, Sweep({victim}, rerun),
                    [Without(victim) EXCEPT
                        ![p] = NewEntry(p, TRUE, Buried(victim))])
        PROVE  Typed'
    <3>1. [Without(victim) EXCEPT ![p] = NewEntry(p, TRUE, Buried(victim))]
            \in [Peers -> Entries \cup {Absent}]
      BY WithoutTyped, EntryTypes, BuriedTyped
    <3>2. Sweep({victim}, rerun) \in Ops  BY <2>1, SweepTyped
    <3> QED  BY <2>3, <3>1, <3>2, TakeTyped
  <2> QED  BY <1>4, <2>2, <2>3 DEF AcceptUnknown
<1>6. ASSUME NEW hs \in handshakes, Response(t, hs) PROVE Typed'
  <2>1. th' \in [Threads -> Ops]
    BY <1>6, OpKinds DEF Response, Typed, Pendings, Keypairs
  <2> QED  BY <1>6, <2>1 DEF Response, Typed, history, Timestamps
<1>7. ASSUME NEW kp \in keypairs, Receive(t, kp) PROVE Typed'
  <2>1. th' \in [Threads -> Ops]  BY <1>7, OpKinds DEF Receive, Typed
  <2> QED  BY <1>7, <2>1 DEF Receive, Typed, Timestamps
<1>8. ASSUME CloseHandshakes(t) PROVE Typed'
  <2>1. th' \in [Threads -> Ops]  BY <1>8, OpKinds DEF CloseHandshakes, Typed
  <2> QED  BY <1>8, <2>1 DEF CloseHandshakes, Typed, Timestamps
<1> QED  BY <1>1, <1>2, <1>3, <1>4, <1>6, <1>7, <1>8 DEF Start

LEMMA TypedStep ==
    ASSUME Typed, NEW t \in Threads, Step(t)
    PROVE  Typed'
<1> th[t] \in Ops  BY DEF Typed
<1>a. ASSUME PruneExpiredPeers(t) PROVE Typed'
  <2>1. PICK p \in Peers : \E gone \in SUBSET Peers :
            Take(t, p, [pc |-> "prune", gone |-> gone, later |-> Idle], Without(p))
    BY <1>a, PruneTyped
  <2>2. PICK gone \in SUBSET Peers :
            Take(t, p, [pc |-> "prune", gone |-> gone, later |-> Idle], Without(p))
    BY <2>1
  <2>3. [pc |-> "prune", gone |-> gone, later |-> Idle] \in Ops  BY OpKinds
  <2> QED  BY <2>2, <2>3, TakeTyped, WithoutTyped
<1>b. ASSUME Pruned(t) PROVE Typed'
  <2>1. th' = [th EXCEPT ![t] = [th[t] EXCEPT !.pc = "sweep_handshakes"]]
    BY <1>b DEF Pruned
  <2>2. th[t].pc = "prune"  BY <1>b DEF Pruned
  <2>3. [th[t] EXCEPT !.pc = "sweep_handshakes"] \in Ops
    BY <2>2 DEF Ops, Idle, Reruns
  <2>4. th' \in [Threads -> Ops]  BY <2>1, <2>3 DEF Typed
  <2> QED  BY <1>b, <2>4 DEF Pruned, Typed, history, Timestamps
<1>1. ASSUME SweepHandshakes(t) PROVE Typed'
  <2>1. th' = [th EXCEPT ![t] = [th[t] EXCEPT !.pc = "sweep_sessions"]]
    BY <1>1 DEF SweepHandshakes
  <2>2. th[t].pc = "sweep_handshakes"  BY <1>1 DEF SweepHandshakes
  <2>3. [th[t] EXCEPT !.pc = "sweep_sessions"] \in Ops
    BY <2>2 DEF Ops, Idle, Reruns
  <2>4. th' \in [Threads -> Ops]  BY <2>1, <2>3 DEF Typed
  <2> QED  BY <1>1, <2>4 DEF SweepHandshakes, Typed, history, Timestamps
<1>2. ASSUME SweepSessions(t) PROVE Typed'
  <2>1. th' \in [Threads -> Ops]
    BY <1>2, OpFields, OpKinds DEF SweepSessions, Typed
  <2>2. sessions' \in [Peers -> Opened \cup {NoSession}]
    BY <1>2 DEF SweepSessions, Typed
  <2> QED  BY <1>2, <2>1, <2>2 DEF SweepSessions, Typed, history, Timestamps
<1>3. ASSUME InsertHandshake(t) PROVE Typed'
  <2>1. th' \in [Threads -> Ops]  BY <1>3, OpKinds DEF InsertHandshake, Typed
  <2>2. handshakes' \subseteq Pendings
    BY <1>3, OpFields DEF InsertHandshake, Typed
  <2> QED  BY <1>3, <2>1, <2>2 DEF InsertHandshake, Typed, history, Timestamps
<1>4. ASSUME Complete(t) PROVE Typed'
  <2>1. th' \in [Threads -> Ops]
    BY <1>4, OpFields, OpKinds DEF Complete, Typed
  <2> QED  BY <1>4, <2>1 DEF Complete, Typed, history, Timestamps
<1>5. ASSUME Rerun(t) PROVE Typed'
  BY <1>5, OpFields, AcceptTyped DEF Rerun
<1>6. ASSUME Install(t) PROVE Typed'
  <2>1. th' \in [Threads -> Ops]  BY <1>6, OpKinds DEF Install, Typed
  <2>2. th[t].kp \in Keypairs  BY <1>6, OpFields DEF Install
  <2>3. th[t].kp.peer \in Peers  BY <2>2 DEF Keypairs
  <2>4. sessions' \in [Peers -> Opened \cup {NoSession}]
    <3>1. sessions \in [Peers -> Opened \cup {NoSession}]  BY DEF Typed
    <3>2. PICK old : /\ old = IF sessions[th[t].kp.peer].open
                             THEN sessions[th[t].kp.peer] ELSE EmptySession
                     /\ sessions' = sessions \/ sessions' =
                          [sessions EXCEPT ![th[t].kp.peer] = Placed(old, th[t].kp)]
      BY <1>6 DEF Install
    <3>3. old \in Opened  BY <2>3, <3>1, <3>2, SessionTypes
    <3>4. Placed(old, th[t].kp) \in Opened  BY <2>2, <3>3, SessionTypes
    <3> QED  BY <3>1, <3>2, <3>4
  <2>5. keypairs' \subseteq Keypairs  BY <1>6, <2>2 DEF Install, Typed
  <2> QED
    BY <1>6, <2>1, <2>4, <2>5 DEF Install, Typed, history, Timestamps
<1>7. ASSUME Confirm(t) PROVE Typed'
  <2> DEFINE kp == th[t].kp  s == sessions[kp.peer]
  <2>1. kp \in Keypairs /\ kp.peer \in Peers
    BY <1>7, OpFields DEF Confirm, Keypairs
  <2>2. CASE s.open
    <3>1. s \in Opened  BY <2>1, <2>2, SessionTypes DEF Typed
    <3>2. [s EXCEPT !.current = kp, !.prev = s.current, !.next = NoKeypair]
            \in Opened
      BY <2>1, <3>1 DEF Opened, Slot
    <3>3. s.prev # NoKeypair => s.prev.idx \in Indexes
      BY <3>1 DEF Opened, Slot, Keypairs
    <3>4. th' \in [Threads -> Ops]
      <4>1. th \in [Threads -> Ops]  BY DEF Typed
      <4>2. th' = [th EXCEPT ![t] = Idle]
            \/ (/\ s.prev # NoKeypair
                /\ th' = [th EXCEPT ![t] = [pc |-> "unindex", idx |-> s.prev.idx]])
        BY <1>7 DEF Confirm
      <4> QED  BY <3>3, <4>1, <4>2, OpKinds
    <3>5. sessions' \in [Peers -> Opened \cup {NoSession}]
      BY <1>7, <3>2 DEF Confirm, Typed
    <3> QED  BY <1>7, <3>4, <3>5 DEF Confirm, Typed, history, Timestamps
  <2>3. CASE ~ s.open
    <3>1. th' \in [Threads -> Ops]
      BY <1>7, <2>3, OpKinds DEF Confirm, Typed
    <3> QED  BY <1>7, <2>3, <3>1 DEF Confirm, Typed, history, Timestamps
  <2> QED  BY <2>2, <2>3
<1>8. ASSUME Unindex(t) PROVE Typed'
  <2>1. th' \in [Threads -> Ops]  BY <1>8, OpKinds DEF Unindex, Typed
  <2> QED  BY <1>8, <2>1 DEF Unindex, Typed, history, Timestamps
<1>9. ASSUME CloseKeypairs(t) PROVE Typed'
  <2>1. th' \in [Threads -> Ops]
    BY <1>9, OpFields, OpKinds DEF CloseKeypairs, Typed
  <2> QED  BY <1>9, <2>1 DEF CloseKeypairs, Typed, history, Timestamps
<1>10. ASSUME CloseSessions(t) PROVE Typed'
  <2>1. th' \in [Threads -> Ops]  BY <1>10, OpKinds DEF CloseSessions, Typed
  <2> QED  BY <1>10, <2>1 DEF CloseSessions, Typed, history, Timestamps
<1> QED
  BY <1>1, <1>2, <1>3, <1>4, <1>5, <1>6, <1>7, <1>8, <1>9, <1>10, <1>a, <1>b
  DEF Step

LEMMA TypedNext ==
    ASSUME Typed, [Next]_vars
    PROVE  Typed'
<1>1. ASSUME NEW t \in Threads, Start(t) PROVE Typed'  BY <1>1, TypedStart
<1>2. ASSUME NEW t \in Threads, Step(t) PROVE Typed'  BY <1>2, TypedStep
<1>3. ASSUME NEW p \in Peers, AddPeer(p) PROVE Typed'
  <2>1. table' \in [Peers -> Entries \cup {Absent}]
    BY <1>3, EntryTypes DEF AddPeer, Typed
  <2> QED  BY <1>3, <2>1 DEF AddPeer, Typed, history, Timestamps
<1>4. ASSUME NEW p \in Peers, Expire(p) PROVE Typed'
  <2>1. table[p] \in Entries  BY <1>4, EntryTypes DEF Expire, Authorized
  <2>2. [table[p] EXCEPT !.expired = TRUE] \in Entries  BY <2>1 DEF Entries
  <2>3. table' \in [Peers -> Entries \cup {Absent}]
    BY <1>4, <2>2 DEF Expire, Typed
  <2> QED  BY <1>4, <2>3 DEF Expire, Typed, history, Timestamps
<1>5. ASSUME CleanupHandshakes PROVE Typed'
  BY <1>5 DEF CleanupHandshakes, Typed, history, Timestamps
<1>6. ASSUME CleanupSessions PROVE Typed'
  <2>1. sessions' \in [Peers -> Opened \cup {NoSession}]
    <3>1. sessions \in [Peers -> Opened \cup {NoSession}]  BY DEF Typed
    <3> QED  BY <1>6, <3>1, SessionTypes DEF CleanupSessions
  <2> QED  BY <1>6, <2>1 DEF CleanupSessions, Typed, history, Timestamps
<1>7. CASE UNCHANGED vars  BY <1>7 DEF vars, Typed, Timestamps
<1> QED  BY <1>1, <1>2, <1>3, <1>4, <1>5, <1>6, <1>7 DEF Next

LEMMA TypedInit == Init => Typed
  BY HandlerAssumption, OpKinds DEF Init, Typed, Timestamps

-----------------------------------------------------------------------------
(* Which steps touch what.  A step that is none of the listed ones leaves  *)
(* the keypairs and their slots alone, and no thread is on its way to      *)
(* unindex one because of it.                                              *)

SlotStep == \/ \E t \in Threads : \/ SweepSessions(t) \/ Install(t)
                                  \/ Confirm(t) \/ Unindex(t)
                                  \/ CloseKeypairs(t) \/ CloseSessions(t)
            \/ CleanupSessions

Quiet ==
    /\ UNCHANGED <<keypairs, sessions, collided>>
    /\ closes' = closes \/ closes' > 0
    /\ \A t \in Threads :
        /\ th[t].pc = "unindex" \/ th'[t].pc = "unindex" => th'[t] = th[t]
        /\ th'[t].pc \in {"close_keypairs", "close_sessions"} =>
                th'[t] = th[t] \/ closes' > 0

LEMMA QuietSteps ==
    ASSUME Typed, [Next]_vars
    PROVE  SlotStep \/ Quiet
<1>a. \A t \in Threads : th[t] \in Ops  BY DEF Typed
<1>b. ASSUME NEW t \in Threads, NEW p, NEW op, NEW entries,
             th[t].pc \in {"idle", "prune"}, Take(t, p, op, entries),
             op.pc \in {"prune", "sweep_handshakes"}
      PROVE  Quiet
  BY <1>b DEF Take, Quiet, Typed
<1>d. \A gone, later : Sweep(gone, later).pc = "sweep_handshakes"  BY DEF Sweep
<1>e. Idle.pc = "idle"  BY DEF Idle
<1>c. ASSUME NEW t \in Threads, NEW p, NEW ts,
             th[t].pc \in {"idle", "accept"}, Accept(t, p, ts)
      PROVE  Quiet
  BY <1>c DEF Accept, Quiet, Idle, Typed, history
<1>1. ASSUME NEW t \in Threads, Start(t) PROVE Quiet
  <2>1. ASSUME NEW p \in Peers, RemovePeer(t, p) PROVE Quiet
    BY <1>b, <1>d, <1>e, <2>1 DEF RemovePeer
  <2>2. ASSUME NEW p \in Peers, Initiate(t, p) PROVE Quiet
    BY <2>2 DEF Initiate, Quiet, Idle, Typed
  <2>3. ASSUME NEW p \in Peers, NEW ts \in Timestamps, Initiation(t, p, ts)
        PROVE Quiet
    BY <1>c, <2>3 DEF Initiation, Idle
  <2>4. ASSUME NEW p \in Peers, NEW ts \in Timestamps, AcceptUnknown(t, p, ts)
        PROVE Quiet
    <3>1. CASE /\ th' = [th EXCEPT ![t] = [pc |-> "accept", peer |-> p, ts |-> ts]]
               /\ UNCHANGED <<burials, handshakes, keypairs, sessions, history>>
      BY <2>4, <3>1 DEF AcceptUnknown, Quiet, Idle, Typed, history
    <3>2. ASSUME NEW victim, NEW later, NEW entries, th[t] = Idle,
                 Take(t, victim, Sweep({victim}, later), entries)
          PROVE  Quiet
      BY <1>b, <1>d, <1>e, <3>2
    <3> QED  BY <2>4, <3>1, <3>2 DEF AcceptUnknown
  <2>6. ASSUME NEW hs \in handshakes, Response(t, hs) PROVE Quiet
    BY <2>6 DEF Response, Quiet, Idle, Typed, history
  <2>7. ASSUME NEW kp \in keypairs, Receive(t, kp) PROVE Quiet
    BY <2>7 DEF Receive, Quiet, Idle, Typed
  <2>8. ASSUME CloseHandshakes(t) PROVE Quiet
    BY <2>8 DEF CloseHandshakes, Quiet, Idle, Typed
  <2> QED  BY <1>1, <2>1, <2>2, <2>3, <2>4, <2>6, <2>7, <2>8 DEF Start
<1>2. ASSUME NEW t \in Threads, Step(t) PROVE SlotStep \/ Quiet
  <2>1. ASSUME SweepHandshakes(t) PROVE Quiet
    <3>1. th'[t].pc = "sweep_sessions"
      BY <1>a, <2>1 DEF SweepHandshakes, Typed, Ops, Idle, Reruns
    <3> QED  BY <2>1, <3>1 DEF SweepHandshakes, Quiet, Typed, history
  <2>2. ASSUME InsertHandshake(t) PROVE Quiet
    BY <2>2 DEF InsertHandshake, Quiet, Idle, Typed, history
  <2>3. ASSUME Complete(t) PROVE Quiet
    BY <2>3 DEF Complete, Quiet, Idle, Typed, history
  <2>4. ASSUME Rerun(t) PROVE Quiet
    BY <1>c, <2>4 DEF Rerun
  <2>5. ASSUME PruneExpiredPeers(t) PROVE Quiet
    <3>1. PICK p \in Peers : \E gone \in SUBSET Peers :
            /\ th[t].pc \in {"idle", "prune"}
            /\ Take(t, p, [pc |-> "prune", gone |-> gone, later |-> Idle],
                    Without(p))
      BY <2>5, PruneTyped
    <3> QED  BY <1>b, <3>1
  <2>6. ASSUME Pruned(t) PROVE Quiet
    <3>1. th'[t].pc = "sweep_handshakes"
      BY <1>a, <2>6 DEF Pruned, Typed, Ops, Idle, Reruns
    <3> QED  BY <2>6, <3>1 DEF Pruned, Quiet, Typed, history
  <2> QED  BY <1>2, <2>1, <2>2, <2>3, <2>4, <2>5, <2>6 DEF Step, SlotStep
<1>3. ASSUME NEW p \in Peers, AddPeer(p) \/ Expire(p) PROVE Quiet
  BY <1>3 DEF AddPeer, Expire, Quiet, history
<1>4. ASSUME CleanupHandshakes PROVE Quiet
  BY <1>4 DEF CleanupHandshakes, Quiet, history
<1>5. CASE UNCHANGED vars  BY <1>5 DEF vars, Quiet
<1> QED  BY <1>1, <1>2, <1>3, <1>4, <1>5 DEF Next, SlotStep

LEMMA PendingSteps ==
    ASSUME [Next]_vars
    PROVE  \/ handshakes' \subseteq handshakes
           \/ \E t \in Threads : InsertHandshake(t)
<1>1. ASSUME NEW t \in Threads, Start(t) PROVE handshakes' \subseteq handshakes
  <2>1. ASSUME NEW q, NEW op, NEW entries, Take(t, q, op, entries)
        PROVE  handshakes' \subseteq handshakes
    BY <2>1 DEF Take
  <2>2. ASSUME NEW p \in Peers, RemovePeer(t, p)
        PROVE  handshakes' \subseteq handshakes
    BY <2>1, <2>2 DEF RemovePeer
  <2>3. ASSUME NEW p \in Peers, NEW ts \in Timestamps,
               Initiation(t, p, ts) \/ AcceptUnknown(t, p, ts)
        PROVE  handshakes' \subseteq handshakes
    BY <2>1, <2>3 DEF Initiation, Accept, AcceptUnknown
  <2> QED
    BY <1>1, <2>2, <2>3
    DEF Start, Initiate, Response, Receive, CloseHandshakes
<1>2. ASSUME NEW t \in Threads, Step(t), ~ InsertHandshake(t)
      PROVE  handshakes' \subseteq handshakes
  BY <1>2
  DEF Step, PruneExpiredPeers, Take, Pruned, SweepHandshakes,
      SweepSessions, Complete, Rerun, Accept, Install,
      Confirm, Unindex, CloseKeypairs, CloseSessions
<1>3. CASE \/ \E p \in Peers : AddPeer(p) \/ Expire(p)
           \/ CleanupHandshakes
           \/ CleanupSessions
           \/ UNCHANGED vars
  BY <1>3 DEF AddPeer, Expire, CleanupHandshakes, CleanupSessions, vars
<1> QED  BY <1>1, <1>2, <1>3 DEF Next

(* Only install adds to the index, and only at an index that is free.      *)
LEMMA KeypairSteps ==
    ASSUME Typed, [Next]_vars
    PROVE  \/ keypairs' \subseteq keypairs
           \/ \E t \in Threads : /\ Install(t) /\ Installable(th[t].kp)
                                 /\ keypairs' \subseteq keypairs \cup {th[t].kp}
<1>1. CASE SlotStep
  BY <1>1 DEF SlotStep, SweepSessions, Install, Confirm, Unindex, CloseKeypairs,
              CloseSessions, CleanupSessions
<1> QED  BY <1>1, QuietSteps DEF Quiet

LEMMA TakeoverNext ==
    ASSUME Typed, NoTakeover, [Next]_vars
    PROVE  NoTakeover'
<1>1. \A a, b \in keypairs' : a.idx = b.idx => a = b
  BY KeypairSteps DEF NoTakeover, Installable
<1>2. \A a, b \in handshakes' : a.idx = b.idx \/ a.peer = b.peer => a = b
  <2>1. ASSUME NEW t \in Threads, InsertHandshake(t)
        PROVE  \A a, b \in handshakes' : a.idx = b.idx \/ a.peer = b.peer => a = b
    BY <2>1 DEF InsertHandshake, NoTakeover
  <2> QED  BY <2>1, PendingSteps DEF NoTakeover
<1> QED  BY <1>1, <1>2 DEF NoTakeover

(* However two threads' draws of an index interleave with insertions and   *)
(* removals, insert_handshake and install never let an index name two      *)
(* keypairs, or two pending handshakes of one identity.                    *)
THEOREM IndexNamesOne == Spec => []NoTakeover
<1>1. Init => Typed /\ NoTakeover
  <2>1. Init => NoTakeover  BY DEF Init, NoTakeover
  <2> QED  BY <2>1, TypedInit
<1>2. Typed /\ NoTakeover /\ [Next]_vars => Typed' /\ NoTakeover'
  BY TypedNext, TakeoverNext
<1> QED  BY <1>1, <1>2, PTL DEF Spec

-----------------------------------------------------------------------------
(* Removal.                                                                *)

(* A thread's operation moves only by its own steps.                       *)
LEMMA OwnThread ==
    ASSUME Typed, [Next]_vars, NEW u \in Threads, th'[u] # th[u]
    PROVE  (th[u] = Idle /\ Start(u)) \/ Step(u)
<1>1. ASSUME NEW t \in Threads, Start(t)
      PROVE  th[t] = Idle /\ \E op : th' = [th EXCEPT ![t] = op]
  <2>1. ASSUME NEW q, NEW o, NEW entries, Take(t, q, o, entries)
        PROVE  \E op : th' = [th EXCEPT ![t] = op]
    BY <2>1 DEF Take
  <2>2. ASSUME NEW p \in Peers, RemovePeer(t, p)
        PROVE  th[t] = Idle /\ \E op : th' = [th EXCEPT ![t] = op]
    BY <2>1, <2>2 DEF RemovePeer
  <2>3. ASSUME NEW p \in Peers, NEW ts \in Timestamps, AcceptUnknown(t, p, ts)
        PROVE  th[t] = Idle /\ \E op : th' = [th EXCEPT ![t] = op]
    BY <2>1, <2>3 DEF AcceptUnknown
  <2>5. ASSUME NEW p \in Peers, NEW ts \in Timestamps, Initiation(t, p, ts)
        PROVE  th[t] = Idle /\ \E op : th' = [th EXCEPT ![t] = op]
    BY <2>5 DEF Initiation, Accept
  <2> QED
    BY <1>1, <2>2, <2>3, <2>5
    DEF Start, Initiate, Response, Receive, CloseHandshakes
<1>2. ASSUME NEW t \in Threads, Step(t)
      PROVE  \E op : th' = [th EXCEPT ![t] = op]
  <2>1. ASSUME SweepHandshakes(t) PROVE \E op : th' = [th EXCEPT ![t] = op]
    BY <2>1 DEF SweepHandshakes
  <2>2. ASSUME CloseKeypairs(t) PROVE \E op : th' = [th EXCEPT ![t] = op]
    BY <2>2 DEF CloseKeypairs
  <2>3. ASSUME Rerun(t) PROVE \E op : th' = [th EXCEPT ![t] = op]
    BY <2>3 DEF Rerun, Accept
  <2>4. ASSUME \/ SweepSessions(t) \/ InsertHandshake(t) \/ Complete(t)
               \/ Install(t) \/ Unindex(t) \/ CloseSessions(t)
        PROVE  \E op : th' = [th EXCEPT ![t] = op]
    BY <2>4 DEF SweepSessions, InsertHandshake, Complete, Install, Unindex,
                CloseSessions
  <2>5. ASSUME Confirm(t) PROVE \E op : th' = [th EXCEPT ![t] = op]
    BY <2>5 DEF Confirm
  <2>6. ASSUME PruneExpiredPeers(t) PROVE \E op : th' = [th EXCEPT ![t] = op]
    BY <2>6 DEF PruneExpiredPeers, Take
  <2>7. ASSUME Pruned(t) PROVE \E op : th' = [th EXCEPT ![t] = op]
    BY <2>7 DEF Pruned
  <2> QED  BY <1>2, <2>1, <2>2, <2>3, <2>4, <2>5, <2>6, <2>7 DEF Step
<1>3. ASSUME NEW t \in Threads, NEW op, th' = [th EXCEPT ![t] = op]
      PROVE  u = t
  BY <1>3 DEF Typed
<1>4. CASE \/ \E p \in Peers : AddPeer(p) \/ Expire(p)
           \/ CleanupHandshakes
           \/ CleanupSessions
           \/ UNCHANGED vars
  BY <1>4 DEF AddPeer, Expire, CleanupHandshakes, CleanupSessions, vars
<1> QED  BY <1>1, <1>2, <1>3, <1>4 DEF Next

(* Whoever takes a peer out of the table goes on to sweep it, and stops    *)
(* sweeping it only when its session is gone.                              *)
LEMMA SweepSteps ==
    ASSUME Typed, [Next]_vars, NEW p \in Peers
    PROVE  /\ Known(p) => Known(p)' \/ Sweeping(p)'
           /\ Sweeping(p) =>
                \/ Sweeping(p)'
                \/ \E t \in Threads : SweepSessions(t) /\ p \in th[t].gone
<1>1. ASSUME Known(p), ~ Known(p)' PROVE Sweeping(p)'
  <2>b. \A q \in Peers, u \in BOOLEAN :
            /\ Added(q, u).in
            /\ \A stones : NewEntry(q, u, stones).in
    BY EntryTypes DEF Entries, NewEntry
  <2>1. ASSUME NEW t \in Threads, NEW v \in Peers, NEW op, NEW entries,
               \A q \in Peers \ {v} : Known(q) => entries[q].in,
               op.pc \in {"prune", "sweep_handshakes"}, v \in op.gone,
               Take(t, v, op, entries)
        PROVE  Sweeping(p)'
    <3>1. p = v  BY <1>1, <2>1 DEF Take, Known
    <3>2. th'[t] = op  BY <2>1 DEF Take, Typed
    <3> QED  BY <2>1, <3>1, <3>2 DEF Sweeping
  <2>2. ASSUME NEW v \in Peers
        PROVE  \A q \in Peers \ {v} : Known(q) => Without(v)[q].in
    BY DEF Without, Known, Typed
  <2>c. ASSUME NEW v, NEW later
        PROVE  /\ Sweep({v}, later).pc = "sweep_handshakes"
               /\ v \in Sweep({v}, later).gone
    BY DEF Sweep
  <2>3. table' # table  BY <1>1 DEF Known
  <2>4. ASSUME NEW t \in Threads, NEW q \in Peers, NEW ts \in Nat
        PROVE  ~ Accept(t, q, ts)
    <3>1. SUFFICES ASSUME table' = [table EXCEPT ![q].last = ts] PROVE FALSE
      BY <2>3 DEF Accept
    <3>2. p = q  BY <1>1, <3>1 DEF Known, Typed
    <3>3. table'[p] = [table[p] EXCEPT !.last = ts]  BY <3>1, <3>2 DEF Typed
    <3>4. table[p] \in Entries  BY <1>1, EntryTypes
    <3>5. table'[p].in = table[p].in  BY <3>3, <3>4 DEF Entries
    <3> QED  BY <1>1, <3>5 DEF Known
  <2>5. ASSUME NEW t \in Threads, Start(t) PROVE Sweeping(p)'
    <3>1. ASSUME NEW q \in Peers, RemovePeer(t, q) PROVE Sweeping(p)'
      BY <2>1, <2>2, <2>c, <3>1 DEF RemovePeer
    <3>3. ASSUME NEW q \in Peers, NEW ts \in Timestamps, AcceptUnknown(t, q, ts)
          PROVE  Sweeping(p)'
      <4>1. CASE table' = [table EXCEPT ![q] = Added(q, TRUE)]
        BY <1>1, <2>b, <4>1 DEF Known, Typed
      <4>2. ASSUME NEW victim \in Peers, NEW later,
                   Take(t, victim, Sweep({victim}, later),
                        [Without(victim) EXCEPT
                            ![q] = NewEntry(q, TRUE, Buried(victim))])
            PROVE  Sweeping(p)'
        <5> DEFINE entries == [Without(victim) EXCEPT
                                    ![q] = NewEntry(q, TRUE, Buried(victim))]
        <5>1. \A r \in Peers \ {victim} : Known(r) => entries[r].in
          <6>1. Without(victim) \in [Peers -> Entries \cup {Absent}]
            BY WithoutTyped
          <6> QED  BY <2>2, <2>b, <6>1
        <5> HIDE DEF entries
        <5>2. Take(t, victim, Sweep({victim}, later), entries)
          BY <4>2 DEF entries
        <5> QED  BY <2>1, <2>c, <5>1, <5>2
      <4> QED  BY <3>3, <4>1, <4>2 DEF AcceptUnknown
    <3>4. ASSUME NEW q \in Peers, NEW ts \in Timestamps, Initiation(t, q, ts)
          PROVE  FALSE
      <4>1. ts \in Nat  BY HandlerAssumption DEF Typed, Timestamps
      <4> QED  BY <2>4, <3>4, <4>1 DEF Initiation
    <3> QED
      BY <2>3, <2>5, <3>1, <3>3, <3>4
      DEF Start, Initiate, Response, Receive, CloseHandshakes
  <2>a. ASSUME NEW t \in Threads, PruneExpiredPeers(t) PROVE Sweeping(p)'
    <3>1. PICK v \in Peers : \E gone \in SUBSET Peers :
            /\ v \in gone
            /\ Take(t, v, [pc |-> "prune", gone |-> gone, later |-> Idle],
                    Without(v))
      BY <2>a, PruneTyped
    <3> QED  BY <2>1, <2>2, <3>1
  <2>6. ASSUME NEW t \in Threads, Step(t), ~ PruneExpiredPeers(t) PROVE FALSE
    <3>1. ASSUME Rerun(t) PROVE FALSE
      <4>1. th[t] \in Ops  BY DEF Typed
      <4> QED  BY <2>4, <3>1, <4>1, OpFields DEF Rerun
    <3> QED
      BY <2>3, <2>6, <3>1 DEF Step, Pruned, SweepHandshakes, SweepSessions,
         InsertHandshake, Complete, Install, Confirm, Unindex, CloseKeypairs,
         CloseSessions
  <2>7. ASSUME NEW q \in Peers, AddPeer(q) PROVE FALSE
    BY <1>1, <2>b, <2>7 DEF AddPeer, Known, Typed
  <2>8. ASSUME NEW q \in Peers, Expire(q) PROVE FALSE
    <3>1. p = q  BY <1>1, <2>8 DEF Expire, Known, Typed
    <3>2. table'[p] = [table[p] EXCEPT !.expired = TRUE]
      BY <2>8, <3>1 DEF Expire, Typed
    <3>3. table[p] \in Entries  BY <1>1, EntryTypes
    <3>4. table'[p].in = table[p].in  BY <3>2, <3>3 DEF Entries
    <3> QED  BY <1>1, <3>4 DEF Known
  <2> QED
    BY <2>3, <2>5, <2>6, <2>7, <2>8, <2>a
    DEF Next, CleanupHandshakes, CleanupSessions, vars
<1>2. ASSUME NEW t \in Threads, p \in th[t].gone,
             th[t].pc \in {"prune", "sweep_handshakes", "sweep_sessions"}
      PROVE  Sweeping(p)' \/ SweepSessions(t)
  <2>1. CASE th'[t] = th[t]  BY <1>2, <2>1 DEF Sweeping
  <2>2. CASE SweepHandshakes(t)
    <3>1. th[t] \in Ops  BY DEF Typed
    <3>2. th'[t] = [th[t] EXCEPT !.pc = "sweep_sessions"]
      BY <2>2 DEF SweepHandshakes, Typed
    <3>3. th[t].pc = "sweep_handshakes"  BY <2>2 DEF SweepHandshakes
    <3>4. th'[t].pc = "sweep_sessions" /\ th'[t].gone = th[t].gone
      BY <3>1, <3>2, <3>3 DEF Ops, Idle, Reruns
    <3> QED  BY <1>2, <3>4 DEF Sweeping
  <2>a. CASE Pruned(t)
    <3>1. th[t] \in Ops  BY DEF Typed
    <3>2. th'[t] = [th[t] EXCEPT !.pc = "sweep_handshakes"]
      BY <2>a DEF Pruned, Typed
    <3>3. th[t].pc = "prune"  BY <2>a DEF Pruned
    <3>4. th'[t].pc = "sweep_handshakes" /\ th'[t].gone = th[t].gone
      BY <3>1, <3>2, <3>3 DEF Ops, Idle, Reruns
    <3> QED  BY <1>2, <3>4 DEF Sweeping
  <2>b. CASE PruneExpiredPeers(t)
    <3>1. PICK v \in Peers : \E gone \in SUBSET Peers :
            /\ th[t].pc = "idle" \/ (th[t].pc = "prune" /\ th[t].gone \subseteq gone)
            /\ Take(t, v, [pc |-> "prune", gone |-> gone, later |-> Idle],
                    Without(v))
      BY <2>b, PruneTyped
    <3>2. PICK gone \in SUBSET Peers :
            /\ th[t].gone \subseteq gone
            /\ th'[t] = [pc |-> "prune", gone |-> gone, later |-> Idle]
      BY <1>2, <3>1 DEF Take, Typed
    <3> QED  BY <1>2, <3>2 DEF Sweeping
  <2>3. th'[t] # th[t] => Step(t)  BY <1>2, OwnThread DEF Idle
  <2> QED
    BY <1>2, <2>1, <2>2, <2>3, <2>a, <2>b DEF Step, InsertHandshake, Complete, Rerun,
       Install, Confirm, Unindex, CloseKeypairs, CloseSessions
<1> QED  BY <1>1, <1>2 DEF Sweeping

LEMMA RemovedNext ==
    ASSUME Typed, RemovedHasNoSession, [Next]_vars
    PROVE  RemovedHasNoSession'
<1> SUFFICES ASSUME NEW p \in Peers, ~ Known(p)', ~ Sweeping(p)'
             PROVE  /\ ~ sessions'[p].open
                    /\ \A k \in keypairs' : k.peer # p
  BY DEF RemovedHasNoSession
<1>1. ~ Known(p)  BY SweepSteps
<1>2. CASE \E t \in Threads : SweepSessions(t) /\ p \in th[t].gone
  BY <1>2 DEF SweepSessions, NoSession
<1>3. CASE ~ \E t \in Threads : SweepSessions(t) /\ p \in th[t].gone
  <2>1. ~ sessions[p].open /\ \A k \in keypairs : k.peer # p
    BY <1>1, <1>3, SweepSteps DEF RemovedHasNoSession
  <2>2. \A k \in keypairs' : k.peer # p
    BY <1>1, <2>1, KeypairSteps DEF Installable, Authorized
  <2>3. CASE Quiet  BY <2>1, <2>3 DEF Quiet
  <2>4. ASSUME NEW t \in Threads, Install(t) PROVE ~ sessions'[p].open
    <3>1. CASE sessions' = sessions  BY <2>1, <3>1
    <3>2. CASE /\ Installable(th[t].kp)
               /\ sessions' # sessions
      <4>1. p # th[t].kp.peer  BY <1>1, <3>2 DEF Installable, Authorized
      <4> QED  BY <2>1, <2>4, <3>2, <4>1 DEF Install, Typed
    <3> QED  BY <2>4, <3>1, <3>2 DEF Install
  <2>5. ASSUME NEW t \in Threads, Confirm(t) PROVE ~ sessions'[p].open
    <3>1. CASE sessions' = sessions  BY <2>1, <3>1
    <3>2. CASE sessions[th[t].kp.peer].open /\ sessions' # sessions
      <4>1. p # th[t].kp.peer  BY <2>1, <3>2
      <4> QED  BY <2>1, <2>5, <3>2, <4>1 DEF Confirm, Typed
    <3> QED  BY <2>5, <3>1, <3>2 DEF Confirm
  <2>6. ASSUME \/ CleanupSessions
               \/ \E t \in Threads : \/ SweepSessions(t) \/ Unindex(t)
                                     \/ CloseKeypairs(t) \/ CloseSessions(t)
        PROVE  ~ sessions'[p].open
    BY <2>1, <2>6 DEF SweepSessions, CleanupSessions, Unindex, CloseKeypairs,
                      CloseSessions, NoSession
  <2> QED  BY <2>2, <2>3, <2>4, <2>5, <2>6, QuietSteps DEF SlotStep
<1> QED  BY <1>2, <1>3

(* Whichever way a peer is removed (remove_peer, the pruning of expired    *)
(* peers, eviction for another), and whatever handshake of its is under    *)
(* way in another thread, no session and no keypair of it is left once     *)
(* forget_peers has swept it, for as long as it stays out of the table.    *)
THEOREM RemovalIsFinal == Spec => []RemovedHasNoSession
<1>1. Init => Typed /\ RemovedHasNoSession
  <2>1. Init => RemovedHasNoSession  BY DEF Init, RemovedHasNoSession, NoSession
  <2> QED  BY <2>1, TypedInit
<1>2. Typed /\ RemovedHasNoSession /\ [Next]_vars =>
        Typed' /\ RemovedHasNoSession'
  BY TypedNext, RemovedNext
<1> QED  BY <1>1, <1>2, PTL DEF Spec

-----------------------------------------------------------------------------
(* Confirmation.                                                           *)

LEMMA ConfirmedGrows ==
    ASSUME [Next]_vars
    PROVE  confirmed \subseteq confirmed'
<1>1. ASSUME NEW t \in Threads, NEW p, NEW op, NEW entries,
             Take(t, p, op, entries)
      PROVE  confirmed' = confirmed
  BY <1>1 DEF Take
<1>2. ASSUME NEW t \in Threads, Start(t) PROVE confirmed \subseteq confirmed'
  <2>1. ASSUME NEW p \in Peers, RemovePeer(t, p) PROVE confirmed' = confirmed
    BY <1>1, <2>1 DEF RemovePeer
  <2>3. ASSUME NEW p \in Peers, NEW ts \in Timestamps, AcceptUnknown(t, p, ts)
        PROVE  confirmed' = confirmed
    BY <1>1, <2>3 DEF AcceptUnknown, history
  <2>4. ASSUME NEW p \in Peers, NEW ts \in Timestamps, Initiation(t, p, ts)
        PROVE  confirmed' = confirmed
    BY <2>4 DEF Initiation, Accept, history
  <2> QED
    BY <1>2, <2>1, <2>3, <2>4
    DEF Start, Initiate, Response, Receive, CloseHandshakes, history
<1>3. ASSUME NEW t \in Threads, Step(t) PROVE confirmed' = confirmed
  BY <1>3 DEF Step, PruneExpiredPeers, Take, Pruned, SweepHandshakes,
              SweepSessions, InsertHandshake, Complete,
     Rerun, Accept, Install, Confirm, Unindex, CloseKeypairs, CloseSessions,
     history
<1>4. CASE \/ \E p \in Peers : AddPeer(p) \/ Expire(p)
           \/ CleanupHandshakes
           \/ CleanupSessions
           \/ UNCHANGED vars
  BY <1>4 DEF AddPeer, Expire, CleanupHandshakes, CleanupSessions, vars, history
<1> QED  BY <1>2, <1>3, <1>4 DEF Next

LEMMA HeardNext ==
    ASSUME Typed, HeardUnder, [Next]_vars
    PROVE  HeardUnder'
<1> SUFFICES ASSUME NEW u \in Threads, th'[u].pc = "received"
             PROVE  th'[u].kp.id \in confirmed'
  BY DEF HeardUnder
<1>1. CASE th'[u] = th[u]  BY <1>1, ConfirmedGrows DEF HeardUnder
<1>2. ASSUME th[u] = Idle, Start(u) PROVE th'[u].kp.id \in confirmed'
  <2>1. ASSUME NEW q, NEW op, NEW entries, Take(u, q, op, entries),
               op.pc # "received"
        PROVE  FALSE
    BY <2>1 DEF Take, Typed
  <2>a. \A gone, later : Sweep(gone, later).pc # "received"  BY DEF Sweep
  <2>2. ASSUME NEW p \in Peers, RemovePeer(u, p) PROVE FALSE
    BY <2>1, <2>2, <2>a DEF RemovePeer
  <2>3. ASSUME NEW p \in Peers, NEW ts \in Timestamps, AcceptUnknown(u, p, ts)
        PROVE  FALSE
    <3>1. CASE th' = [th EXCEPT ![u] = [pc |-> "accept", peer |-> p, ts |-> ts]]
      BY <3>1 DEF Typed
    <3>2. ASSUME NEW victim, NEW later, NEW entries,
                 Take(u, victim, Sweep({victim}, later), entries)
          PROVE  FALSE
      BY <2>1, <2>a, <3>2
    <3> QED  BY <2>3, <3>1, <3>2 DEF AcceptUnknown
  <2>5. ASSUME NEW p \in Peers, NEW ts \in Timestamps, Initiation(u, p, ts)
        PROVE  FALSE
    BY <2>5 DEF Initiation, Accept, Typed, Idle
  <2>6. ASSUME NEW p \in Peers, Initiate(u, p) PROVE FALSE
    BY <2>6 DEF Initiate, Typed
  <2>7. ASSUME NEW kp \in keypairs, Receive(u, kp)
        PROVE  th'[u].kp.id \in confirmed'
    BY <2>7 DEF Receive, Typed
  <2>8. ASSUME NEW hs \in handshakes, Response(u, hs) PROVE FALSE
    BY <2>8 DEF Response, Typed
  <2>9. ASSUME CloseHandshakes(u) PROVE FALSE
    BY <2>9 DEF CloseHandshakes, Typed
  <2> QED
    BY <1>2, <2>2, <2>3, <2>5, <2>6, <2>7, <2>8, <2>9 DEF Start
<1>3. ASSUME Step(u) PROVE FALSE
  <2>a. th[u] \in Ops  BY DEF Typed
  <2>1. ASSUME SweepHandshakes(u) PROVE FALSE
    BY <2>1, <2>a DEF SweepHandshakes, Typed, Ops, Idle, Reruns
  <2>b. ASSUME PruneExpiredPeers(u) PROVE FALSE
    BY <2>b DEF PruneExpiredPeers, Take, Typed
  <2>c. ASSUME Pruned(u) PROVE FALSE
    BY <2>c, <2>a DEF Pruned, Typed, Ops, Idle, Reruns
  <2>2. ASSUME SweepSessions(u) PROVE FALSE
    <3>1. th[u].later \in {Idle} \cup Reruns
      BY <2>2, <2>a, OpFields DEF SweepSessions
    <3> QED  BY <2>2, <3>1 DEF SweepSessions, Typed, Idle, Reruns
  <2>3. ASSUME CloseKeypairs(u) PROVE FALSE
    BY <2>3, <2>a DEF CloseKeypairs, Typed, Ops, Idle, Reruns
  <2>4. ASSUME Rerun(u) PROVE FALSE
    BY <2>4 DEF Rerun, Accept, Typed, Idle
  <2>5. ASSUME Complete(u) PROVE FALSE  BY <2>5 DEF Complete, Typed, Idle
  <2>6. ASSUME Confirm(u) PROVE FALSE  BY <2>6 DEF Confirm, Typed, Idle
  <2>7. ASSUME InsertHandshake(u) PROVE FALSE
    BY <2>7 DEF InsertHandshake, Typed, Idle
  <2>8. ASSUME Install(u) PROVE FALSE  BY <2>8 DEF Install, Typed, Idle
  <2>9. ASSUME Unindex(u) \/ CloseSessions(u) PROVE FALSE
    BY <2>9 DEF Unindex, CloseSessions, Typed, Idle
  <2> QED
    BY <1>3, <2>1, <2>2, <2>3, <2>4, <2>5, <2>6, <2>7, <2>8, <2>9, <2>b, <2>c
    DEF Step
<1> QED  BY <1>1, <1>2, <1>3, OwnThread

LEMMA SendsNext ==
    ASSUME Typed, HeardUnder, SendsConfirmed, [Next]_vars
    PROVE  SendsConfirmed'
<1> SUFFICES ASSUME NEW p \in Peers, sessions'[p].open,
                    sessions'[p].current # NoKeypair
             PROVE  \/ sessions'[p].current.initiator
                    \/ sessions'[p].current.id \in confirmed'
  BY DEF SendsConfirmed
<1>1. CASE sessions[p].open /\ sessions'[p].current = sessions[p].current
  BY <1>1, ConfirmedGrows DEF SendsConfirmed
<1>2. CASE Quiet  BY <1>1, <1>2 DEF Quiet
<1>3. ASSUME NEW t \in Threads, Install(t)
      PROVE  \/ sessions'[p].current.initiator
             \/ sessions'[p].current.id \in confirmed'
  <2> DEFINE kp  == th[t].kp
             old == IF sessions[kp.peer].open THEN sessions[kp.peer]
                    ELSE EmptySession
  <2>1. CASE sessions'[p] = sessions[p]  BY <1>1, <2>1
  <2>2. CASE p = kp.peer /\ sessions'[p] = Placed(old, kp)
    <3>1. old \in Opened  BY <2>2, SessionTypes DEF Typed
    <3>2. kp.initiator => sessions'[p].current = kp
      BY <2>2, <3>1 DEF Placed, Opened
    <3>3. ~ kp.initiator => sessions'[p].current = old.current
      BY <2>2, <3>1 DEF Placed, Opened
    <3>4. CASE kp.initiator  BY <3>2, <3>4
    <3>5. CASE ~ kp.initiator
      BY <1>1, <2>2, <3>3, <3>5 DEF EmptySession
    <3> QED  BY <3>4, <3>5
  <2> QED  BY <1>3, <2>1, <2>2 DEF Install, Typed
<1>4. ASSUME NEW t \in Threads, Confirm(t)
      PROVE  \/ sessions'[p].current.initiator
             \/ sessions'[p].current.id \in confirmed'
  <2> DEFINE kp == th[t].kp   s == sessions[kp.peer]
  <2>1. CASE sessions'[p] = sessions[p]  BY <1>1, <2>1
  <2>2. CASE /\ p = kp.peer /\ s.open
             /\ sessions'[p] = [s EXCEPT !.current = kp, !.prev = s.current,
                                         !.next = NoKeypair]
    <3>1. s \in Opened  BY <2>2, SessionTypes DEF Typed
    <3>2. sessions'[p].current = kp  BY <2>2, <3>1 DEF Opened
    <3>3. kp.id \in confirmed  BY <1>4 DEF Confirm, HeardUnder
    <3> QED  BY <3>2, <3>3, ConfirmedGrows
  <2> QED  BY <1>4, <2>1, <2>2 DEF Confirm, Typed
<1>5. ASSUME CleanupSessions
      PROVE  \/ sessions'[p].current.initiator
             \/ sessions'[p].current.id \in confirmed'
  <2>1. PICK dead : sessions[p].open /\ sessions'[p] = Reaped(sessions[p], dead)
    BY <1>5 DEF CleanupSessions, NoSession
  <2>2. sessions[p] \in Opened  BY <2>1, SessionTypes DEF Typed
  <2>3. sessions'[p].current \in {NoKeypair, sessions[p].current}
    BY <2>1, <2>2 DEF Reaped, Opened
  <2> QED  BY <1>1, <2>1, <2>3
<1>6. ASSUME NEW t \in Threads,
             \/ SweepSessions(t) \/ Unindex(t)
             \/ CloseKeypairs(t) \/ CloseSessions(t)
      PROVE  sessions'[p] = sessions[p]
  BY <1>6 DEF SweepSessions, Unindex, CloseKeypairs, CloseSessions, NoSession
<1> QED
  BY <1>1, <1>2, <1>3, <1>4, <1>5, <1>6, QuietSteps DEF SlotStep

(* The keypair a session sends with is one this side initiated, whose      *)
(* response has come, or one under which a packet of the initiator's has   *)
(* been authenticated: received_with_keypair is the only way from the next *)
(* slot to the current one.                                                *)
THEOREM SendsOnlyConfirmed == Spec => []SendsConfirmed
<1>1. Init => Typed /\ HeardUnder /\ SendsConfirmed
  <2>1. Init => HeardUnder /\ SendsConfirmed
    BY DEF Init, HeardUnder, SendsConfirmed, Idle, NoSession
  <2> QED  BY <2>1, TypedInit
<1>2. Typed /\ HeardUnder /\ SendsConfirmed /\ [Next]_vars =>
        Typed' /\ HeardUnder' /\ SendsConfirmed'
  BY TypedNext, HeardNext, SendsNext
<1> QED  BY <1>1, <1>2, PTL DEF Spec

-----------------------------------------------------------------------------
(* Replayed initiations.                                                   *)

Counts(q, ts) ==
    /\ ts > Remembered(q) /\ Remembered(q)' = ts
    /\ consumed' = [consumed EXCEPT ![q][ts] = @ + 1]

Kept(q) ==
    \/ Remembered(q)' >= Remembered(q) /\ forgotten'[q] = forgotten[q]
    \/ forgotten'[q] = forgotten[q] + 1

LEMMA RememberedTyped ==
    ASSUME Typed
    PROVE  \A p \in Peers : Remembered(p) \in Nat
  BY EntryTypes DEF Typed, Remembered, Entries

(* Removal and authorization set a peer's timestamp back only if its       *)
(* tombstone is evicted.                                                   *)
LEMMA TakeRemembers ==
    ASSUME Typed, NEW t \in Threads, NEW v \in Peers, NEW op, NEW entries,
           Take(t, v, op, entries),
           \A q \in Peers :
                \/ entries[q] = Without(v)[q]
                \/ entries[q] = NewEntry(q, TRUE, Buried(v)) /\ ~ Known(q)
    PROVE  consumed' = consumed /\ \A q \in Peers : Kept(q)
<1>1. /\ consumed' = consumed /\ table' = entries /\ tombstones' = Buried(v)
      /\ forgotten' = [q \in Peers |-> IF q \in Evicted(v) /\ ~ Known(q)
                                       THEN forgotten[q] + 1 ELSE forgotten[q]]
  BY DEF Take
<1> SUFFICES ASSUME NEW q \in Peers PROVE Kept(q)
  BY <1>1
<1>2. Remembered(q) \in Nat /\ tombstones[q] \in Nat /\ forgotten[q] \in Nat
  BY RememberedTyped DEF Typed
<1>3. Known(q) => table[q].last \in Nat  BY EntryTypes DEF Entries
<1>4. CASE q \in Evicted(v) /\ ~ Known(q)
  <2>1. forgotten'[q] = forgotten[q] + 1  BY <1>1, <1>4
  <2> QED  BY <2>1 DEF Kept
<1>5. CASE ~ (q \in Evicted(v) /\ ~ Known(q))
  <2>1. forgotten'[q] = forgotten[q]  BY <1>1, <1>5
  <2>2. ~ Known(q) => tombstones'[q] = tombstones[q]
    BY <1>1, <1>5 DEF Buried
  <2>3. Remembered(q)' >= Remembered(q)
    <3>1. CASE entries[q] = NewEntry(q, TRUE, Buried(v)) /\ ~ Known(q)
      BY <1>1, <1>2, <2>2, <3>1 DEF Remembered, NewEntry, Known
    <3>2. CASE entries[q] = Without(v)[q] /\ q # v
      <4>1. table'[q] = table[q]  BY <1>1, <3>2 DEF Without, Typed
      <4> QED  BY <1>2, <2>2, <4>1 DEF Remembered, Known
    <3>3. CASE entries[q] = Without(v)[q] /\ q = v
      <4>1. ~ Known(q)'  BY <1>1, <3>3 DEF Without, Known, Absent, Typed
      <4>2. CASE Known(q)
        <5>1. table[q].last > tombstones[q] => tombstones'[q] = table[q].last
          BY <1>1, <3>3, <4>2 DEF Buried
        <5>2. CASE table[q].last > tombstones[q]
          BY <1>3, <4>1, <4>2, <5>1, <5>2 DEF Remembered
        <5>3. CASE ~ (table[q].last > tombstones[q])
          <6>1. q \notin Evicted(v) \/ tombstones[q] = 0
            BY <3>3 DEF Evicted, Recorded
          <6>2. tombstones'[q] = tombstones[q]
            BY <1>1, <3>3, <5>3, <6>1 DEF Buried
          <6> QED  BY <1>2, <1>3, <4>1, <4>2, <5>3, <6>2 DEF Remembered
        <5> QED  BY <5>2, <5>3
      <4>3. CASE ~ Known(q)  BY <1>2, <2>2, <4>1, <4>3 DEF Remembered
      <4> QED  BY <4>2, <4>3
    <3> QED  BY <3>1, <3>2, <3>3
  <2> QED  BY <2>1, <2>3 DEF Kept
<1> QED  BY <1>4, <1>5

LEMMA AcceptCounts ==
    ASSUME Typed, NEW t \in Threads, NEW q \in Peers, NEW ts \in Nat,
           Accept(t, q, ts)
    PROVE  \/ UNCHANGED <<consumed, table, burials>>
           \/ /\ Counts(q, ts) /\ UNCHANGED forgotten
              /\ \A p \in Peers \ {q} : Remembered(p)' = Remembered(p)
<1>1. CASE UNCHANGED <<table, burials, history>>  BY <1>1 DEF history
<1>2. CASE /\ Authorized(q) /\ Fresh(q, ts)
           /\ table' = [table EXCEPT ![q].last = ts]
           /\ consumed' = [consumed EXCEPT ![q][ts] = @ + 1]
           /\ UNCHANGED burials
  <2>1. table[q] \in Entries  BY <1>2, EntryTypes DEF Authorized
  <2>2. table'[q] = [table[q] EXCEPT !.last = ts]  BY <1>2 DEF Typed
  <2>3. table'[q].in /\ table'[q].last = ts  BY <2>1, <2>2 DEF Entries
  <2>4. Counts(q, ts)
    BY <1>2, <2>3 DEF Counts, Remembered, Known, Authorized, Fresh
  <2>5. ASSUME NEW p \in Peers \ {q} PROVE Remembered(p)' = Remembered(p)
    BY <1>2 DEF Remembered, Known, Typed
  <2> QED  BY <1>2, <2>4, <2>5
<1> QED  BY <1>1, <1>2 DEF Accept

LEMMA AddedRemembers ==
    ASSUME Typed, NEW q \in Peers, NEW u \in BOOLEAN, UNCHANGED tombstones,
           table' = [table EXCEPT ![q] = Added(q, u)]
    PROVE  \A p \in Peers : Remembered(p)' = Remembered(p)
<1>1. ASSUME NEW p \in Peers, p # q PROVE Remembered(p)' = Remembered(p)
  BY <1>1 DEF Remembered, Known, Typed
<1>2. table'[q] = Added(q, u) /\ table'[q].in
  BY EntryTypes DEF Typed, Entries
<1>3. table'[q].last = Remembered(q)
  <2>1. CASE Known(q)
    <3>1. table[q] \in Entries  BY <2>1, EntryTypes
    <3> QED  BY <1>2, <2>1, <3>1 DEF Added, Entries, Remembered
  <2>2. CASE ~ Known(q)  BY <1>2, <2>2 DEF Added, NewEntry, Remembered
  <2> QED  BY <2>1, <2>2
<1> QED  BY <1>1, <1>2, <1>3 DEF Remembered, Known

MemoryStep ==
    \/ /\ consumed' = consumed
       /\ \A p \in Peers : Kept(p)
    \/ \E q \in Peers, ts \in Nat :
        /\ Counts(q, ts) /\ UNCHANGED forgotten
        /\ \A p \in Peers \ {q} : Remembered(p)' = Remembered(p)

LEMMA MemoryGrows ==
    ASSUME Typed, [Next]_vars
    PROVE  MemoryStep
<1>a. \A p \in Peers : Remembered(p) \in Nat  BY RememberedTyped
<1>d. ASSUME UNCHANGED <<consumed, forgotten>>,
             \A p \in Peers : Remembered(p)' = Remembered(p)
      PROVE  MemoryStep
  BY <1>a, <1>d DEF MemoryStep, Kept
<1>b. ASSUME UNCHANGED <<consumed, table, burials>> PROVE MemoryStep
  <2>1. \A p \in Peers : Remembered(p)' = Remembered(p)
    BY <1>b DEF Remembered, Known
  <2> QED  BY <1>b, <1>d, <2>1
<1>c. ASSUME NEW t \in Threads, NEW q \in Peers, NEW ts \in Nat, Accept(t, q, ts)
      PROVE  MemoryStep
  BY <1>b, <1>c, AcceptCounts DEF MemoryStep
<1>1. ASSUME NEW t \in Threads, Start(t) PROVE MemoryStep
  <2>1. ASSUME NEW p \in Peers, RemovePeer(t, p) PROVE MemoryStep
    BY <2>1, TakeRemembers DEF MemoryStep, RemovePeer
  <2>3. ASSUME NEW p \in Peers, NEW ts \in Timestamps, AcceptUnknown(t, p, ts)
        PROVE  MemoryStep
    <3>1. CASE /\ table' = [table EXCEPT ![p] = Added(p, TRUE)]
               /\ UNCHANGED <<burials, history>>
      <4>1. \A q \in Peers : Remembered(q)' = Remembered(q)
        BY <3>1, AddedRemembers
      <4> QED  BY <1>d, <3>1, <4>1 DEF history
    <3>2. ASSUME NEW victim \in Peers, NEW later, ~ Known(p),
                 Take(t, victim, later,
                      [Without(victim) EXCEPT
                            ![p] = NewEntry(p, TRUE, Buried(victim))])
          PROVE  MemoryStep
      <4> DEFINE entries == [Without(victim) EXCEPT
                                ![p] = NewEntry(p, TRUE, Buried(victim))]
      <4>0. Without(victim) \in [Peers -> Entries \cup {Absent}]
        BY WithoutTyped
      <4>1. \A q \in Peers :
                \/ entries[q] = Without(victim)[q]
                \/ entries[q] = NewEntry(q, TRUE, Buried(victim)) /\ ~ Known(q)
        BY <3>2, <4>0
      <4> HIDE DEF entries
      <4>2. Take(t, victim, later, entries)  BY <3>2 DEF entries
      <4> QED  BY <4>1, <4>2, TakeRemembers DEF MemoryStep
    <3> QED  BY <2>3, <3>1, <3>2 DEF AcceptUnknown
  <2>4. ASSUME NEW p \in Peers, NEW ts \in Timestamps, Initiation(t, p, ts)
        PROVE  MemoryStep
    <3>1. ts \in Nat  BY HandlerAssumption DEF Typed, Timestamps
    <3> QED  BY <1>c, <2>4, <3>1 DEF Initiation
  <2> QED
    BY <1>1, <1>b, <2>1, <2>3, <2>4
    DEF Start, Initiate, Response, Receive, CloseHandshakes, history
<1>2. ASSUME NEW t \in Threads, Step(t) PROVE MemoryStep
  <2>1. ASSUME Rerun(t) PROVE MemoryStep
    <3>1. th[t] \in Ops  BY DEF Typed
    <3> QED  BY <1>c, <2>1, <3>1, OpFields DEF Rerun
  <2>2. ASSUME PruneExpiredPeers(t) PROVE MemoryStep
    <3>1. PICK p \in Peers : \E op : Take(t, p, op, Without(p))
      BY <2>2 DEF PruneExpiredPeers
    <3> QED  BY <3>1, TakeRemembers DEF MemoryStep
  <2> QED
    BY <1>2, <1>b, <2>1, <2>2 DEF Step, Pruned, SweepHandshakes, SweepSessions,
       InsertHandshake, Complete, Install, Confirm, Unindex, CloseKeypairs,
       CloseSessions, history
<1>3. ASSUME NEW p \in Peers, AddPeer(p) PROVE MemoryStep
  <2>1. \A q \in Peers : Remembered(q)' = Remembered(q)
    BY <1>3, AddedRemembers DEF AddPeer
  <2> QED  BY <1>d, <1>3, <2>1 DEF AddPeer, history
<1>4. ASSUME NEW p \in Peers, Expire(p) PROVE MemoryStep
  <2>1. table[p] \in Entries  BY <1>4, EntryTypes DEF Expire, Authorized
  <2>2. table'[p] = [table[p] EXCEPT !.expired = TRUE]
    BY <1>4 DEF Expire, Typed
  <2>3. table'[p].in /\ table'[p].last = table[p].last /\ table[p].in
    BY <2>1, <2>2 DEF Entries
  <2>4. \A q \in Peers : Remembered(q)' = Remembered(q)
    BY <1>4, <2>3 DEF Expire, Remembered, Known, Typed
  <2> QED  BY <1>d, <1>4, <2>4 DEF Expire, history
<1>5. CASE CleanupHandshakes \/ CleanupSessions \/ UNCHANGED vars
  BY <1>b, <1>5 DEF CleanupHandshakes, CleanupSessions, vars, history
<1> QED  BY <1>1, <1>2, <1>3, <1>4, <1>5 DEF Next

LEMMA OnceNext ==
    ASSUME Typed, AcceptedBehind, [Next]_vars, scope' = scope
    PROVE  AcceptedBehind'
<1> SUFFICES ASSUME NEW p \in Peers, NEW ts \in Timestamps
             PROVE  consumed'[p][ts] <= forgotten'[p] +
                        (IF ts <= Remembered(p)' THEN 1 ELSE 0)
  BY DEF AcceptedBehind, Timestamps
<1>0. consumed[p][ts] <= forgotten[p] + (IF ts <= Remembered(p) THEN 1 ELSE 0)
  BY DEF AcceptedBehind
<1>1. /\ consumed[p] \in [Timestamps -> Nat] /\ consumed[p][ts] \in Nat
      /\ Remembered(p) \in Nat /\ ts \in Nat /\ forgotten[p] \in Nat
  <2>1. consumed[p] \in [Timestamps -> Nat] /\ forgotten[p] \in Nat  BY DEF Typed
  <2>2. consumed[p][ts] \in Nat  BY <2>1
  <2>3. ts \in Nat  BY HandlerAssumption DEF Typed, Timestamps
  <2> QED  BY <2>1, <2>2, <2>3, RememberedTyped
<1>2. Remembered(p)' \in Nat
  <2>1. Typed'  BY TypedNext
  <2>2. table'[p] \in Entries \cup {Absent} /\ tombstones'[p] \in Nat
    BY <2>1 DEF Typed
  <2>3. table'[p].in => table'[p].last \in Nat
    <3>1. Absent.in = FALSE  BY DEF Absent
    <3>2. \A e \in Entries : e.last \in Nat  BY DEF Entries
    <3> QED  BY <2>2, <3>1, <3>2
  <2> QED  BY <2>2, <2>3 DEF Remembered, Known
<1>3. CASE consumed' = consumed /\ Kept(p)
  BY <1>0, <1>1, <1>2, <1>3 DEF Kept
<1>4. ASSUME NEW q \in Peers, NEW n \in Nat, Counts(q, n), UNCHANGED forgotten,
             p # q => Remembered(p)' = Remembered(p)
      PROVE  consumed'[p][ts] <= forgotten'[p] +
                        (IF ts <= Remembered(p)' THEN 1 ELSE 0)
  <2>1. CASE p # q \/ n # ts
    <3>1. consumed'[p][ts] = consumed[p][ts]
      BY <1>1, <1>4, <2>1 DEF Counts, Typed
    <3>2. Remembered(p)' >= Remembered(p)
      BY <1>1, <1>4 DEF Counts
    <3> QED  BY <1>0, <1>1, <1>2, <1>4, <3>1, <3>2
  <2>2. CASE p = q /\ n = ts
    <3>1. consumed'[p][ts] = consumed[p][ts] + 1
      BY <1>1, <1>4, <2>2 DEF Counts, Typed
    <3>2. ~ (ts <= Remembered(p)) /\ ts <= Remembered(p)'
      BY <1>1, <1>4, <2>2 DEF Counts
    <3> QED  BY <1>0, <1>1, <1>4, <3>1, <3>2
  <2> QED  BY <2>1, <2>2
<1> QED  BY <1>3, <1>4, MemoryGrows DEF MemoryStep

LEMMA ScopeKept ==
    ASSUME [Next]_vars
    PROVE  scope' = scope
<1>1. ASSUME NEW t \in Threads, NEW p, NEW op, NEW entries,
             Take(t, p, op, entries)
      PROVE  scope' = scope
  BY <1>1 DEF Take
<1>2. ASSUME NEW t \in Threads, Start(t) PROVE scope' = scope
  <2>1. ASSUME NEW p \in Peers, RemovePeer(t, p) PROVE scope' = scope
    BY <1>1, <2>1 DEF RemovePeer
  <2>3. ASSUME NEW p \in Peers, NEW ts \in Timestamps, AcceptUnknown(t, p, ts)
        PROVE  scope' = scope
    BY <1>1, <2>3 DEF AcceptUnknown, history
  <2> QED
    BY <1>2, <2>1, <2>3
    DEF Start, Initiation, Accept, Initiate, Response, Receive,
        CloseHandshakes, history
<1>3. ASSUME NEW t \in Threads, Step(t) PROVE scope' = scope
  BY <1>3 DEF Step, PruneExpiredPeers, Take, Pruned, SweepHandshakes,
              SweepSessions, InsertHandshake, Complete,
     Rerun, Accept, Install, Confirm, Unindex, CloseKeypairs, CloseSessions,
     history
<1> QED
  BY <1>2, <1>3 DEF Next, AddPeer, Expire, CleanupHandshakes, CleanupSessions,
     vars, history

(* Removing, evicting, pruning and authorizing a peer again, at any        *)
(* moment, never let an initiation of its be accepted once more: the       *)
(* timestamp take_peer_locked buries comes back with the entry             *)
(* add_peer_locked makes.  Only the limit of the tombstones does, and only *)
(* once for each time the peer's own was evicted while it was out of the   *)
(* table; for every limit.                                                 *)
THEOREM InitiationAcceptedOnce == Spec => []InitiationOnce
<1>1. Init => Typed /\ AcceptedBehind
  <2>1. SUFFICES ASSUME Init PROVE AcceptedBehind  BY TypedInit
  <2>2. ASSUME NEW p \in Peers, NEW ts \in Timestamps
        PROVE  consumed[p][ts] = 0 /\ forgotten[p] = 0
    BY <2>1 DEF Init
  <2> QED  BY <2>2 DEF AcceptedBehind
<1>2. Typed /\ AcceptedBehind /\ [Next]_vars => Typed' /\ AcceptedBehind'
  BY TypedNext, OnceNext, ScopeKept
<1>3. Typed /\ AcceptedBehind => InitiationOnce
  <2> SUFFICES ASSUME Typed, AcceptedBehind, NEW p \in Peers, NEW ts \in Timestamps
               PROVE  consumed[p][ts] <= 1 + forgotten[p]
    BY DEF InitiationOnce
  <2>1. consumed[p] \in [Timestamps -> Nat] /\ forgotten[p] \in Nat  BY DEF Typed
  <2>2. consumed[p][ts] \in Nat  BY <2>1
  <2>3. consumed[p][ts] <= forgotten[p] + (IF ts <= Remembered(p) THEN 1 ELSE 0)
    BY DEF AcceptedBehind
  <2> QED  BY <2>1, <2>2, <2>3
<1> QED  BY <1>1, <1>2, <1>3, PTL DEF Spec

-----------------------------------------------------------------------------
(* The places of unknown peers.                                            *)

KnownPeers   == {p \in Peers : Known(p)}
UnknownPeers == {p \in Peers : Known(p) /\ table[p].unknown}

(* The table is finite and its unknown peers within the limit.             *)
PlacesInv == IsFiniteSet(KnownPeers) /\ UnknownBounded

(* How a step may change who is known, and who is unknown.                 *)
PlacesStep ==
    \/ KnownPeers' \subseteq KnownPeers /\ UnknownPeers' \subseteq UnknownPeers
    \/ \E p \in Peers :
        /\ KnownPeers' \subseteq KnownPeers \cup {p}
        /\ UnknownPeers' \subseteq UnknownPeers
    \/ \E p \in Peers :
        /\ ~ Full /\ KnownPeers' \subseteq KnownPeers \cup {p}
        /\ UnknownPeers' \subseteq UnknownPeers \cup {p}
    \/ \E p \in Peers, victim \in UnknownPeers :
        /\ KnownPeers' \subseteq KnownPeers \cup {p}
        /\ UnknownPeers' \subseteq (UnknownPeers \ {victim}) \cup {p}

LEMMA AtMostOneMore ==
    ASSUME NEW S, IsFiniteSet(S), NEW x
    PROVE  /\ IsFiniteSet(S \cup {x}) /\ Cardinality(S \cup {x}) \in Nat
           /\ Cardinality(S \cup {x}) <= Cardinality(S) + 1
<1>1. IsFiniteSet(S \cup {x})  BY FS_AddElement
<1>2. Cardinality(S \cup {x}) \in Nat /\ Cardinality(S) \in Nat
  BY <1>1, FS_CardinalityType
<1>3. \/ Cardinality(S \cup {x}) = Cardinality(S)
      \/ Cardinality(S \cup {x}) = Cardinality(S) + 1
  BY FS_AddElement
<1> QED  BY <1>1, <1>2, <1>3

LEMMA PlacesKept ==
    ASSUME PlacesInv, PlacesStep
    PROVE  PlacesInv'
<1> USE HandlerAssumption
<1> DEFINE K == KnownPeers   U == UnknownPeers   n == UNKNOWN_PEER_LIMIT
<1>1. IsFiniteSet(K) /\ Cardinality(U) <= n
  BY DEF PlacesInv, UnknownBounded, UnknownPeers
<1>2. U \subseteq K /\ U' \subseteq K'
  BY DEF KnownPeers, UnknownPeers
<1>3. IsFiniteSet(U) /\ Cardinality(U) \in Nat /\ Cardinality(K) \in Nat
      /\ Cardinality(U) <= Cardinality(K)
  BY <1>1, <1>2, FS_Subset, FS_CardinalityType
<1>4. \A p : IsFiniteSet(K \cup {p})
  BY <1>1, FS_AddElement
<1>5. IsFiniteSet(K')
  BY <1>1, <1>4, FS_Subset DEF PlacesStep
<1>6. Cardinality(U') <= n
  <2>1. CASE U' \subseteq U
    <3>1. Cardinality(U') <= Cardinality(U) /\ Cardinality(U') \in Nat
      BY <1>3, <2>1, FS_Subset, FS_CardinalityType
    <3> QED  BY <1>1, <1>3, <3>1
  <2>2. ASSUME NEW p \in Peers, ~ Full, U' \subseteq U \cup {p}
        PROVE  Cardinality(U') <= n
    <3>1. Cardinality(K) < n  BY <1>3, <2>2 DEF Full, KnownPeers
    <3>2. IsFiniteSet(U \cup {p}) /\ Cardinality(U \cup {p}) <= Cardinality(U) + 1
          /\ Cardinality(U \cup {p}) \in Nat
      BY <1>3, AtMostOneMore
    <3>3. Cardinality(U') <= Cardinality(U \cup {p}) /\ Cardinality(U') \in Nat
      BY <2>2, <3>2, FS_Subset, FS_CardinalityType
    <3> QED  BY <1>3, <3>1, <3>2, <3>3
  <2>3. ASSUME NEW p \in Peers, NEW victim \in U, U' \subseteq (U \ {victim}) \cup {p}
        PROVE  Cardinality(U') <= n
    <3> DEFINE V == U \ {victim}
    <3>1. IsFiniteSet(V) /\ Cardinality(V) = Cardinality(U) - 1
          /\ Cardinality(V) \in Nat
      BY <1>3, <2>3, FS_RemoveElement, FS_CardinalityType
    <3> HIDE DEF V
    <3>2. IsFiniteSet(V \cup {p}) /\ Cardinality(V \cup {p}) <= Cardinality(V) + 1
          /\ Cardinality(V \cup {p}) \in Nat
      BY <3>1, AtMostOneMore
    <3>3. Cardinality(U') <= Cardinality(V \cup {p}) /\ Cardinality(U') \in Nat
      BY <2>3, <3>2, FS_Subset, FS_CardinalityType DEF V
    <3> QED  BY <1>1, <1>3, <3>1, <3>2, <3>3
  <2> QED  BY <2>1, <2>2, <2>3 DEF PlacesStep
<1> QED  BY <1>5, <1>6 DEF PlacesInv, UnknownBounded, UnknownPeers

LEMMA EntriesStep ==
    ASSUME Typed, NEW p \in Peers,
           \A q \in Peers \ {p} : table'[q] = table[q] \/ ~ Known(q)'
    PROVE  /\ KnownPeers' \subseteq KnownPeers \cup {p}
           /\ UnknownPeers' \subseteq UnknownPeers \cup {p}
           /\ (Known(p)' => Known(p)) => KnownPeers' \subseteq KnownPeers
           /\ (Known(p)' /\ table'[p].unknown => Known(p) /\ table[p].unknown) =>
                    UnknownPeers' \subseteq UnknownPeers
  BY DEF KnownPeers, UnknownPeers, Known

LEMMA PlacesNext ==
    ASSUME Typed, [Next]_vars
    PROVE  PlacesStep
<1>a. ASSUME table' = table PROVE PlacesStep
  BY <1>a DEF PlacesStep, KnownPeers, UnknownPeers, Known
<1>b. ASSUME NEW t \in Threads, NEW v \in Peers, NEW op,
             Take(t, v, op, Without(v))
      PROVE  PlacesStep
  <2>1. \A q \in Peers : table'[q] = table[q] \/ ~ Known(q)'
    BY <1>b DEF Take, Without, Known, Absent, Typed
  <2> QED  BY <2>1 DEF PlacesStep, KnownPeers, UnknownPeers, Known
<1>c. ASSUME NEW p \in Peers, NEW u \in BOOLEAN,
             table' = [table EXCEPT ![p] = Added(p, u)],
             u => Known(p) \/ ~ Full
      PROVE  PlacesStep
  <2>1. \A q \in Peers \ {p} : table'[q] = table[q]  BY <1>c DEF Typed
  <2>2. table'[p] = Added(p, u)  BY <1>c DEF Typed
  <2>3. CASE Known(p)
    <3>1. table[p] \in Entries  BY <2>3, EntryTypes
    <3>2. table'[p].unknown => table[p].unknown
      BY <2>2, <2>3, <3>1 DEF Added, Entries
    <3> QED  BY <2>1, <2>3, <3>2, EntriesStep DEF PlacesStep
  <2>4. CASE ~ Known(p) /\ ~ u
    <3>1. ~ table'[p].unknown  BY <2>2, <2>4 DEF Added, NewEntry
    <3> QED  BY <2>1, <3>1, EntriesStep DEF PlacesStep
  <2>5. CASE ~ Full  BY <2>1, <2>5, EntriesStep DEF PlacesStep
  <2> QED  BY <1>c, <2>3, <2>4, <2>5
<1>d. ASSUME NEW t \in Threads, NEW p \in Peers, NEW ts \in Nat, Accept(t, p, ts)
      PROVE  PlacesStep
  <2>1. CASE Authorized(p) /\ table' = [table EXCEPT ![p].last = ts]
    <3>1. table[p] \in Entries  BY <2>1, EntryTypes DEF Authorized
    <3>2. table'[p] = [table[p] EXCEPT !.last = ts]  BY <2>1 DEF Typed
    <3>3. table'[p].unknown = table[p].unknown  BY <3>1, <3>2 DEF Entries
    <3>4. \A q \in Peers \ {p} : table'[q] = table[q]  BY <2>1 DEF Typed
    <3>5. Known(p)  BY <2>1 DEF Authorized
    <3> QED  BY <3>3, <3>4, <3>5, EntriesStep DEF PlacesStep
  <2> QED  BY <1>a, <1>d, <2>1 DEF Accept
<1>1. ASSUME NEW t \in Threads, Start(t) PROVE PlacesStep
  <2>1. ASSUME NEW p \in Peers, RemovePeer(t, p) PROVE PlacesStep
    BY <1>b, <2>1 DEF RemovePeer
  <2>3. ASSUME NEW p \in Peers, NEW ts \in Timestamps, AcceptUnknown(t, p, ts)
        PROVE  PlacesStep
    <3>1. CASE /\ table' = [table EXCEPT ![p] = Added(p, TRUE)]
               /\ Known(p) \/ ~ Full
      BY <1>c, <3>1
    <3>2. ASSUME NEW victim \in Peers, NEW later, ~ Known(p), Known(victim),
                 table[victim].unknown,
                 Take(t, victim, later,
                      [Without(victim) EXCEPT
                            ![p] = NewEntry(p, TRUE, Buried(victim))])
          PROVE  PlacesStep
      <4>1. \A q \in Peers \ {p, victim} : table'[q] = table[q]
        BY <3>2 DEF Take, Without, Typed
      <4>2. victim # p /\ ~ Known(victim)'
        BY <3>2 DEF Take, Without, Known, Absent, Typed
      <4>3. victim \in UnknownPeers  BY <3>2 DEF UnknownPeers
      <4>4. /\ KnownPeers' \subseteq KnownPeers \cup {p}
            /\ UnknownPeers' \subseteq (UnknownPeers \ {victim}) \cup {p}
        BY <4>1, <4>2 DEF KnownPeers, UnknownPeers, Known
      <4> QED  BY <4>3, <4>4 DEF PlacesStep
    <3> QED  BY <2>3, <3>1, <3>2 DEF AcceptUnknown
  <2>4. ASSUME NEW p \in Peers, NEW ts \in Timestamps, Initiation(t, p, ts)
        PROVE  PlacesStep
    <3>1. ts \in Nat  BY HandlerAssumption DEF Typed, Timestamps
    <3> QED  BY <1>d, <2>4, <3>1 DEF Initiation
  <2> QED
    BY <1>1, <1>a, <2>1, <2>3, <2>4
    DEF Start, Initiate, Response, Receive, CloseHandshakes
<1>2. ASSUME NEW t \in Threads, Step(t) PROVE PlacesStep
  <2>1. ASSUME Rerun(t) PROVE PlacesStep
    <3>1. th[t] \in Ops  BY DEF Typed
    <3> QED  BY <1>d, <2>1, <3>1, OpFields DEF Rerun
  <2>2. ASSUME PruneExpiredPeers(t) PROVE PlacesStep
    BY <1>b, <2>2 DEF PruneExpiredPeers
  <2> QED
    BY <1>2, <1>a, <2>1, <2>2 DEF Step, Pruned, SweepHandshakes, SweepSessions,
       InsertHandshake, Complete, Install, Confirm, Unindex, CloseKeypairs,
       CloseSessions
<1>3. ASSUME NEW p \in Peers, AddPeer(p) PROVE PlacesStep
  BY <1>c, <1>3 DEF AddPeer
<1>4. ASSUME NEW p \in Peers, Expire(p) PROVE PlacesStep
  <2>1. table[p] \in Entries  BY <1>4, EntryTypes DEF Expire, Authorized
  <2>2. table'[p] = [table[p] EXCEPT !.expired = TRUE]  BY <1>4 DEF Expire, Typed
  <2>3. table'[p].unknown = table[p].unknown  BY <2>1, <2>2 DEF Entries
  <2>4. \A q \in Peers \ {p} : table'[q] = table[q]  BY <1>4 DEF Expire, Typed
  <2>5. Known(p)  BY <1>4 DEF Expire, Authorized
  <2> QED  BY <2>3, <2>4, <2>5, EntriesStep DEF PlacesStep
<1>5. CASE CleanupHandshakes \/ CleanupSessions \/ UNCHANGED vars
  BY <1>a, <1>5 DEF CleanupHandshakes, CleanupSessions, vars
<1> QED  BY <1>1, <1>2, <1>3, <1>4, <1>5 DEF Next

(* Peers taken on by the unknown-peer callback never hold more than        *)
(* UNKNOWN_PEER_LIMIT places, however accept_unknown_peer's eviction of an *)
(* expired one interleaves with removals and renewals.                     *)
THEOREM UnknownPeersBounded == Spec => []UnknownBounded
<1>1. Init => Typed /\ PlacesInv
  <2>1. SUFFICES ASSUME Init PROVE PlacesInv  BY TypedInit
  <2>2. KnownPeers = {} /\ {p \in Peers : Known(p) /\ table[p].unknown} = {}
    BY <2>1 DEF Init, KnownPeers, Known, Absent
  <2>3. IsFiniteSet({}) /\ Cardinality({}) = 0  BY FS_EmptySet
  <2>4. UNKNOWN_PEER_LIMIT \in Nat  BY HandlerAssumption
  <2>5. UnknownBounded  BY <2>2, <2>3, <2>4 DEF UnknownBounded
  <2> QED  BY <2>2, <2>3, <2>5 DEF PlacesInv
<1>2. Typed /\ PlacesInv /\ [Next]_vars => Typed' /\ PlacesInv'
  BY TypedNext, PlacesNext, PlacesKept
<1>3. PlacesInv => UnknownBounded  BY DEF PlacesInv
<1> QED  BY <1>1, <1>2, <1>3, PTL DEF Spec

-----------------------------------------------------------------------------
(* The slots and the index.                                                *)

LEMMA NoKeypairIsNone == NoKeypair \notin Keypairs
  BY HandlerAssumption DEF NoKeypair, Keypairs

LEMMA OpenedSlots ==
    ASSUME NEW s \in Opened
    PROVE  /\ Slots(s) = {s.current, s.prev, s.next} \ {NoKeypair}
           /\ s.open /\ s.current \in Slot /\ s.prev \in Slot /\ s.next \in Slot
  BY DEF Opened, Slots

PlacedWell(s, kp, n, out, p, more) ==
    /\ Sound(n, p, more) /\ kp \in Slots(n)
    /\ Slots(n) \subseteq Slots(s) \cup {kp}
    /\ Slots(s) \subseteq Slots(n) \cup out /\ out \subseteq Slots(s)
    /\ \A k \in Slots(n) : k \in out => k.idx \in more

(* The install functions: kp gets a slot, nothing else does, and what      *)
(* leaves its slot is what Displaced says.  The slots stay sound but for   *)
(* the indexes in more, if kp is in none of them or its index is.          *)
LEMMA PlacedSlots ==
    ASSUME NEW p \in Peers, NEW s \in Opened, NEW bad, NEW more,
           Sound(s, p, bad), bad \subseteq more,
           NEW kp \in Keypairs, kp.peer = p,
           kp \in Slots(s) => kp.idx \in more
    PROVE  PlacedWell(s, kp, Placed(s, kp), Displaced(s, kp), p, more)
<1> DEFINE n == Placed(s, kp)
           d == Displaced(s, kp)
<1>1. n \in Opened  BY SessionTypes
<1>2. kp # NoKeypair  BY NoKeypairIsNone
<1>3. Slots(s) = {s.current, s.prev, s.next} \ {NoKeypair}  BY OpenedSlots
<1>4. Slots(n) = {n.current, n.prev, n.next} \ {NoKeypair}  BY <1>1, OpenedSlots
<1>5. CASE kp.initiator
  <2>1. /\ n.current = kp /\ n.next = NoKeypair
        /\ n.prev = IF s.next # NoKeypair THEN s.next ELSE s.current
    BY <1>5 DEF Placed, Opened
  <2>2. d = (IF s.next # NoKeypair THEN {s.prev, s.current} ELSE {s.prev})
            \ {NoKeypair}
    BY <1>5 DEF Displaced
  <2> HIDE DEF n, d
  <2>3. /\ Slots(n) \subseteq Slots(s) \cup {kp} /\ kp \in Slots(n)
        /\ Slots(s) \subseteq Slots(n) \cup d /\ d \subseteq Slots(s)
    BY <1>2, <1>3, <1>4, <2>1, <2>2
  <2>4. \A k \in Slots(n) : k.peer = p  BY <2>3 DEF Sound
  <2>5. Whole(kp, more) => n.prev # kp
    BY <1>2, <1>3, <2>1 DEF Whole
  <2>6. Sound(n, p, more)  BY <1>2, <2>1, <2>4, <2>5 DEF Sound, Whole
  <2>7. ASSUME NEW k \in Slots(n), k \in d, k.idx \notin more PROVE FALSE
    <3>1. k # kp  BY <2>3, <2>7
    <3>2. k = n.prev /\ k # NoKeypair  BY <1>4, <2>1, <2>7, <3>1
    <3>3. Whole(k, bad)  BY <2>7, <3>2 DEF Whole
    <3> QED  BY <2>1, <2>2, <2>7, <3>2, <3>3 DEF Sound
  <2> QED  BY <2>3, <2>6, <2>7 DEF n, d, PlacedWell
<1>6. CASE ~ kp.initiator
  <2>1. n.current = s.current /\ n.prev = s.prev /\ n.next = kp
    BY <1>6 DEF Placed, Opened
  <2>2. d = {s.next} \ {NoKeypair}  BY <1>6 DEF Displaced
  <2> HIDE DEF n, d
  <2>3. /\ Slots(n) \subseteq Slots(s) \cup {kp} /\ kp \in Slots(n)
        /\ Slots(s) \subseteq Slots(n) \cup d /\ d \subseteq Slots(s)
    BY <1>2, <1>3, <1>4, <2>1, <2>2
  <2>4. \A k \in Slots(n) : k.peer = p  BY <2>3 DEF Sound
  <2>5. Whole(kp, more) => s.current # kp /\ s.prev # kp
    BY <1>2, <1>3 DEF Whole
  <2>6. Sound(n, p, more)  BY <1>2, <2>1, <2>4, <2>5 DEF Sound, Whole
  <2>7. ASSUME NEW k \in Slots(n), k \in d, k.idx \notin more PROVE FALSE
    <3>1. k # kp  BY <2>3, <2>7
    <3>2. k \in {s.current, s.prev} /\ k = s.next /\ k # NoKeypair
      BY <1>4, <2>1, <2>2, <2>7, <3>1
    <3>3. Whole(k, bad)  BY <2>7, <3>2 DEF Whole
    <3> QED  BY <3>2, <3>3 DEF Sound
  <2> QED  BY <2>3, <2>6, <2>7 DEF n, d, PlacedWell
<1> QED  BY <1>5, <1>6

ConfirmedWell(s, n, p, bad) ==
    /\ Sound(n, p, bad)
    /\ Slots(s) \ {s.prev} \subseteq Slots(n) /\ Slots(n) \subseteq Slots(s)
    /\ Whole(s.prev, bad) => s.prev \notin Slots(n)

(* received_with_keypair: of the slots only the previous keypair leaves.   *)
LEMMA ConfirmedSlots ==
    ASSUME NEW p \in Peers, NEW s \in Opened, NEW bad, Sound(s, p, bad),
           s.next # NoKeypair,
           NEW n, n = [s EXCEPT !.current = s.next, !.prev = s.current,
                                !.next = NoKeypair]
    PROVE  ConfirmedWell(s, n, p, bad)
<1>1. n \in Opened /\ n.current = s.next /\ n.prev = s.current
      /\ n.next = NoKeypair
  BY DEF Opened, Slot
<1>2. Slots(s) = {s.current, s.prev, s.next} \ {NoKeypair}  BY OpenedSlots
<1>3. Slots(n) = {n.current, n.prev, n.next} \ {NoKeypair}  BY <1>1, OpenedSlots
<1>4. Whole(s.prev, bad) => s.prev # s.next /\ s.prev # s.current
  BY DEF Sound
<1>5. Slots(s) \ {s.prev} \subseteq Slots(n) /\ Slots(n) \subseteq Slots(s)
  BY <1>1, <1>2, <1>3
<1>6. Whole(s.prev, bad) => s.prev \notin Slots(n)
  BY <1>1, <1>3, <1>4 DEF Whole
<1>7. Sound(n, p, bad)
  <2>1. Whole(s.next, bad) => s.next # s.current  BY DEF Sound
  <2>2. Whole(s.next, bad) => s.next # NoKeypair  BY DEF Whole
  <2>3. Whole(s.current, bad) => s.current # NoKeypair  BY DEF Whole
  <2> QED  BY <1>1, <1>5, <2>1, <2>2, <2>3 DEF Sound
<1> QED  BY <1>5, <1>6, <1>7 DEF ConfirmedWell

(* cleanup_sessions: exactly the dead leave.                               *)
LEMMA ReapedSlots ==
    ASSUME NEW p \in Peers, NEW s \in Opened, NEW bad, Sound(s, p, bad),
           NEW dead, NoKeypair \notin dead,
           s.current \in dead => s.prev \in dead \cup {NoKeypair}
    PROVE  /\ Sound(Reaped(s, dead), p, bad)
           /\ Slots(Reaped(s, dead)) = Slots(s) \ dead
<1> DEFINE n == Reaped(s, dead)
<1>1. n \in Opened  BY SessionTypes
<1>2. Slots(s) = {s.current, s.prev, s.next} \ {NoKeypair}  BY OpenedSlots
<1>3. Slots(n) = {n.current, n.prev, n.next} \ {NoKeypair}  BY <1>1, OpenedSlots
<1>4. /\ n.current = IF s.current \in dead THEN NoKeypair ELSE s.current
      /\ n.prev = IF s.prev \in dead THEN NoKeypair ELSE s.prev
      /\ n.next = IF s.next \in dead THEN NoKeypair ELSE s.next
  BY DEF Reaped, Opened
<1> HIDE DEF n
<1>5. Slots(n) = Slots(s) \ dead  BY <1>2, <1>3, <1>4
<1>6. Sound(n, p, bad)  BY <1>4, <1>5 DEF Sound, Whole
<1> QED  BY <1>5, <1>6 DEF n

(* SlotsIndexed, SlotsSound and UnindexedLeft without their premise that   *)
(* close was never called.                                                 *)
Agree ==
    /\ \A p \in Peers : sessions[p].open => Sound(sessions[p], p, collided)
    /\ \A p \in Peers : \A k \in Slots(sessions[p]) :
        k \in keypairs \/ k.idx \in collided
    /\ \A k \in keypairs :
        k \in Slots(sessions[k.peer]) \/ Unindexing(k.idx)
    /\ \A p \in Peers : \A k \in Slots(sessions[p]) :
        ~ Unindexing(k.idx) \/ k.idx \in collided

LEMMA UnindexingSame ==
    ASSUME Typed, NEW t \in Threads, NEW op, th' = [th EXCEPT ![t] = op],
           th[t].pc # "unindex", op.pc # "unindex"
    PROVE  \A idx : Unindexing(idx)' <=> Unindexing(idx)
<1> SUFFICES ASSUME NEW idx PROVE Unindexing(idx)' <=> Unindexing(idx)
  OBVIOUS
<1>1. \A u \in Threads : th'[u] = IF u = t THEN op ELSE th[u]  BY DEF Typed
<1>2. ASSUME NEW u \in Threads, th[u].pc = "unindex", th[u].idx = idx
      PROVE  Unindexing(idx)'
  BY <1>1, <1>2 DEF Unindexing
<1>3. ASSUME NEW u \in Threads, th'[u].pc = "unindex", th'[u].idx = idx
      PROVE  Unindexing(idx)
  BY <1>1, <1>3 DEF Unindexing
<1> QED  BY <1>2, <1>3 DEF Unindexing

LEMMA SlotsOf ==
    ASSUME Typed, Agree
    PROVE  \A p \in Peers :
            /\ sessions[p].open => sessions[p] \in Opened
            /\ ~ sessions[p].open => Slots(sessions[p]) = {}
            /\ \A k \in Slots(sessions[p]) : k.peer = p /\ k \in Keypairs
<1> SUFFICES ASSUME NEW p \in Peers
             PROVE  /\ sessions[p].open => sessions[p] \in Opened
                    /\ ~ sessions[p].open => Slots(sessions[p]) = {}
                    /\ \A k \in Slots(sessions[p]) : k.peer = p /\ k \in Keypairs
  OBVIOUS
<1>1. sessions[p] \in Opened \cup {NoSession}  BY DEF Typed
<1>2. ~ sessions[p].open => Slots(sessions[p]) = {}  BY DEF Slots
<1>3. \A k \in Slots(sessions[p]) : k \in Keypairs  BY <1>1, SessionTypes
<1>4. \A k \in Slots(sessions[p]) : k.peer = p  BY <1>2 DEF Agree, Sound
<1> QED  BY <1>1, <1>2, <1>3, <1>4, SessionTypes

(* Two keypairs in slots at one index that never collided are one.         *)
LEMMA OneAtIndex ==
    ASSUME Typed, NoTakeover, Agree, NEW p \in Peers, NEW q \in Peers,
           NEW k \in Slots(sessions[p]), NEW o \in Slots(sessions[q]),
           k.idx = o.idx, k.idx \notin collided
    PROVE  k = o /\ p = q
<1>1. k \in keypairs /\ o \in keypairs  BY DEF Agree
<1>2. k = o  BY <1>1 DEF NoTakeover
<1> QED  BY <1>2, SlotsOf

LEMMA InstallAgrees ==
    ASSUME Typed, NoTakeover, Agree, NEW t \in Threads, Install(t)
    PROVE  Agree'
<1> DEFINE kp  == th[t].kp
           q   == kp.peer
           old == IF sessions[q].open THEN sessions[q] ELSE EmptySession
           new == Placed(old, kp)
           out == Displaced(old, kp)
<1>1. kp \in Keypairs /\ q \in Peers
  <2>1. th[t] \in Ops  BY DEF Typed
  <2> QED  BY <2>1, OpFields DEF Install, Keypairs
<1>2. \A idx : Unindexing(idx)' <=> Unindexing(idx)
  <2>1. th[t].pc = "install" /\ th' = [th EXCEPT ![t] = Idle]  BY DEF Install
  <2>2. Idle.pc = "idle"  BY DEF Idle
  <2> QED  BY <2>1, <2>2, UnindexingSame
<1>3. CASE UNCHANGED <<sessions, keypairs, collided>>
  BY <1>2, <1>3 DEF Agree
<1>4. CASE /\ Installable(kp)
           /\ sessions' = [sessions EXCEPT ![q] = new]
           /\ keypairs' = {k \in keypairs \cup {kp} : \A o \in out : k.idx # o.idx}
           /\ collided' = IF Unindexing(kp.idx) THEN collided \cup {kp.idx}
                          ELSE collided
  <2>1. /\ old \in Opened /\ Slots(old) = Slots(sessions[q])
        /\ Sound(old, q, collided)
    <3>1. CASE sessions[q].open  BY <1>1, <3>1, SlotsOf DEF Agree
    <3>2. CASE ~ sessions[q].open
      <4>1. old = EmptySession  BY <3>2
      <4>2. EmptySession \in Opened /\ Slots(EmptySession) = {}
            /\ Sound(EmptySession, q, collided)
        BY SessionTypes DEF EmptySession, Slots, Sound, Whole
      <4> QED  BY <1>1, <3>2, <4>1, <4>2, SlotsOf
    <3> QED  BY <3>1, <3>2
  <2>2. collided \subseteq collided'  BY <1>4
  <2>3. \A k \in Slots(old) : k.idx = kp.idx => k.idx \in collided
    BY <1>1, <1>4, <2>1 DEF Installable, Agree
  <2>4. kp \in Slots(old) => kp.idx \in collided'  BY <2>2, <2>3
  <2>5. /\ Sound(new, q, collided') /\ kp \in Slots(new)
        /\ Slots(new) \subseteq Slots(old) \cup {kp}
        /\ Slots(old) \subseteq Slots(new) \cup out /\ out \subseteq Slots(old)
        /\ \A k \in Slots(new) : k \in out => k.idx \in collided'
    <3> HIDE DEF old, q, kp
    <3>1. kp.peer = q  BY DEF q
    <3>2. PlacedWell(old, kp, Placed(old, kp), Displaced(old, kp), q, collided')
      BY <1>1, <2>1, <2>2, <2>4, <3>1, PlacedSlots
    <3> QED  BY <3>2 DEF PlacedWell
  <2>6. \A p \in Peers : sessions'[p] = IF p = q THEN new ELSE sessions[p]
    BY <1>1, <1>4 DEF Typed
  <2>7. \A p \in Peers : \A k \in Slots(sessions[p]) :
            k \in keypairs \/ k.idx \in collided'
    BY <2>2 DEF Agree
  <2>8. ~ Unindexing(kp.idx) \/ kp.idx \in collided'  BY <1>4
  <2>9. keypairs' = {k \in keypairs \cup {kp} : \A o \in out : k.idx # o.idx}
    BY <1>4
  <2> HIDE DEF kp, q, old, new, out
  <2>10. \A p \in Peers : sessions'[p].open => Sound(sessions'[p], p, collided')
    <3>1. ASSUME NEW p \in Peers, Sound(sessions[p], p, collided)
          PROVE  Sound(sessions[p], p, collided')
      BY <2>2, <3>1 DEF Sound, Whole
    <3> QED  BY <2>5, <2>6, <3>1 DEF Agree
  <2>11. ASSUME NEW p \in Peers, NEW k \in Slots(sessions'[p]),
                k.idx \notin collided'
         PROVE  k \in keypairs'
    <3>1. k \in keypairs \cup {kp}
      BY <1>1, <2>1, <2>5, <2>6, <2>7, <2>11
    <3>2. ASSUME NEW o \in out, k.idx = o.idx PROVE FALSE
      <4>1. o \in Slots(sessions[q]) /\ o.idx \notin collided
        BY <2>1, <2>2, <2>5, <2>11, <3>2
      <4>2. k # kp  BY <2>1, <2>3, <3>2, <4>1
      <4>3. k \in Slots(sessions[p])  BY <1>1, <2>1, <2>5, <2>6, <4>2
      <4>4. k = o /\ p = q  BY <1>1, <3>2, <4>1, <4>3, OneAtIndex
      <4> QED  BY <2>5, <2>6, <2>11, <3>2, <4>4
    <3> QED  BY <2>9, <3>1, <3>2
  <2>12. \A k \in keypairs' :
            k \in Slots(sessions'[k.peer]) \/ Unindexing(k.idx)'
    <3>1. \A k \in keypairs : k.peer \in Peers  BY DEF Typed, Keypairs
    <3>2. kp \in Slots(sessions'[kp.peer])  BY <1>1, <2>5, <2>6 DEF q
    <3>3. ASSUME NEW k \in keypairs, k \in keypairs', k \in Slots(sessions[k.peer])
          PROVE  k \in Slots(sessions'[k.peer])
      <4>1. k \notin out  BY <2>9, <3>3
      <4>2. CASE k.peer = q  BY <2>1, <2>5, <2>6, <3>1, <3>3, <4>1, <4>2
      <4>3. CASE k.peer # q  BY <2>6, <3>1, <3>3, <4>3
      <4> QED  BY <4>2, <4>3
    <3>4. keypairs' \subseteq keypairs \cup {kp}  BY <2>9
    <3> QED  BY <1>2, <3>2, <3>3, <3>4 DEF Agree
  <2>13. \A p \in Peers : \A k \in Slots(sessions'[p]) :
            ~ Unindexing(k.idx)' \/ k.idx \in collided'
    <3>1. \A p \in Peers : \A k \in Slots(sessions[p]) :
            ~ Unindexing(k.idx) \/ k.idx \in collided'
      BY <2>2 DEF Agree
    <3> QED  BY <1>1, <1>2, <2>1, <2>5, <2>6, <2>8, <3>1
  <2> QED  BY <2>10, <2>11, <2>12, <2>13 DEF Agree
<1> QED  BY <1>3, <1>4 DEF Install

LEMMA ConfirmAgrees ==
    ASSUME Typed, NoTakeover, Agree, NEW t \in Threads, Confirm(t)
    PROVE  Agree'
<1> DEFINE kp == th[t].kp
           q  == kp.peer
           s  == sessions[q]
           n  == [s EXCEPT !.current = kp, !.prev = s.current, !.next = NoKeypair]
<1>1. kp \in Keypairs /\ q \in Peers /\ kp # NoKeypair
  <2>1. th[t] \in Ops  BY DEF Typed
  <2> QED  BY <2>1, OpFields, NoKeypairIsNone DEF Confirm, Keypairs
<1>0. collided' = collided  BY DEF Confirm, history
<1>2. CASE UNCHANGED sessions /\ th' = [th EXCEPT ![t] = Idle]
  <2>1. \A idx : Unindexing(idx)' <=> Unindexing(idx)
    <3>1. th[t].pc = "received" /\ Idle.pc = "idle"  BY DEF Confirm, Idle
    <3> QED  BY <1>2, <3>1, UnindexingSame
  <2> QED  BY <1>0, <1>2, <2>1 DEF Agree, Confirm
<1>3. CASE /\ s.open /\ s.next = kp
           /\ sessions' = [sessions EXCEPT ![q] = n]
           /\ th' = [th EXCEPT ![t] = IF s.prev = NoKeypair THEN Idle
                                      ELSE [pc |-> "unindex", idx |-> s.prev.idx]]
  <2>1. s \in Opened /\ Sound(s, q, collided)  BY <1>1, <1>3, SlotsOf DEF Agree
  <2>2. /\ Sound(n, q, collided)
        /\ Slots(s) \ {s.prev} \subseteq Slots(n) /\ Slots(n) \subseteq Slots(s)
        /\ Whole(s.prev, collided) => s.prev \notin Slots(n)
    <3> HIDE DEF s, q
    <3>1. ConfirmedWell(s, n, q, collided)
      BY <1>1, <1>3, <2>1, ConfirmedSlots
    <3> QED  BY <3>1 DEF ConfirmedWell
  <2>3. \A p \in Peers : sessions'[p] = IF p = q THEN n ELSE sessions[p]
    BY <1>1, <1>3 DEF Typed
  <2>4. keypairs' = keypairs  BY DEF Confirm
  <2>5. \A idx : Unindexing(idx)' <=>
            Unindexing(idx) \/ (s.prev # NoKeypair /\ idx = s.prev.idx)
    <3>1. \A u \in Threads : th'[u] =
            IF u = t THEN (IF s.prev = NoKeypair THEN Idle
                           ELSE [pc |-> "unindex", idx |-> s.prev.idx])
            ELSE th[u]
      BY <1>3 DEF Typed
    <3>2. th[t].pc = "received"  BY DEF Confirm
    <3> HIDE DEF s
    <3>3. CASE s.prev = NoKeypair
      <4>1. \A u \in Threads : th'[u] = IF u = t THEN Idle ELSE th[u]
        BY <3>1, <3>3
      <4> QED  BY <3>2, <3>3, <4>1 DEF Unindexing, Idle
    <3>4. CASE s.prev # NoKeypair
      <4>1. \A u \in Threads : th'[u] = IF u = t
                        THEN [pc |-> "unindex", idx |-> s.prev.idx] ELSE th[u]
        BY <3>1, <3>4
      <4> QED  BY <3>2, <3>4, <4>1 DEF Unindexing
    <3> QED  BY <3>3, <3>4
  <2>6. s.prev # NoKeypair => s.prev \in Slots(s)  BY <2>1, OpenedSlots
  <2> HIDE DEF kp, q, s, n
  <2>7. \A p \in Peers : sessions'[p].open => Sound(sessions'[p], p, collided')
    BY <1>0, <2>2, <2>3 DEF Agree
  <2>8. \A p \in Peers : Slots(sessions'[p]) \subseteq Slots(sessions[p])
    BY <2>2, <2>3 DEF s
  <2>9. \A p \in Peers : \A k \in Slots(sessions'[p]) :
            k \in keypairs' \/ k.idx \in collided'
    BY <1>0, <2>4, <2>8 DEF Agree
  <2>10. \A k \in keypairs' :
            k \in Slots(sessions'[k.peer]) \/ Unindexing(k.idx)'
    <3> SUFFICES ASSUME NEW k \in keypairs
                 PROVE  k \in Slots(sessions'[k.peer]) \/ Unindexing(k.idx)'
      BY <2>4
    <3>1. k.peer \in Peers /\ k # NoKeypair
      BY NoKeypairIsNone DEF Typed, Keypairs
    <3>2. CASE Unindexing(k.idx)  BY <2>5, <3>2
    <3>3. CASE k \in Slots(sessions[k.peer])
      <4>1. CASE k.peer = q /\ k = s.prev  BY <2>5, <3>1, <4>1
      <4>2. CASE k.peer = q /\ k # s.prev  BY <2>2, <2>3, <3>1, <3>3, <4>2 DEF s
      <4>3. CASE k.peer # q  BY <2>3, <3>1, <3>3, <4>3
      <4> QED  BY <4>1, <4>2, <4>3
    <3> QED  BY <3>2, <3>3 DEF Agree
  <2>11. \A p \in Peers : \A k \in Slots(sessions'[p]) :
            ~ Unindexing(k.idx)' \/ k.idx \in collided'
    <3> SUFFICES ASSUME NEW p \in Peers, NEW k \in Slots(sessions'[p]),
                        s.prev # NoKeypair, k.idx = s.prev.idx,
                        k.idx \notin collided
                 PROVE  FALSE
      BY <1>0, <2>5, <2>8 DEF Agree
    <3>1. k \in Slots(sessions[p]) /\ s.prev \in Slots(sessions[q])
      BY <1>1, <2>6, <2>8 DEF s
    <3>2. k = s.prev /\ p = q  BY <1>1, <3>1, OneAtIndex
    <3>3. Whole(s.prev, collided)  BY <3>2 DEF Whole
    <3> QED  BY <2>2, <2>3, <3>2, <3>3
  <2> QED  BY <2>7, <2>9, <2>10, <2>11 DEF Agree
<1> QED  BY <1>2, <1>3 DEF Confirm

LEMMA CleanupAgrees ==
    ASSUME Typed, NoTakeover, Agree, CleanupSessions
    PROVE  Agree'
<1>1. PICK dead \in SUBSET UNION {Slots(sessions[p]) : p \in Peers} :
        /\ \A p \in Peers : sessions[p].open /\ sessions[p].current \in dead
                => Slots([sessions[p] EXCEPT !.next = NoKeypair]) \subseteq dead
        /\ keypairs' = {k \in keypairs : \A d \in dead : k.idx # d.idx}
        /\ \A p \in Peers :
            \/ ~ sessions[p].open /\ sessions'[p] = NoSession
            \/ /\ sessions[p].open /\ sessions'[p] = Reaped(sessions[p], dead)
            \/ /\ sessions[p].open /\ sessions'[p] = NoSession
               /\ Reaped(sessions[p], dead).current = NoKeypair
               /\ Reaped(sessions[p], dead).next = NoKeypair
  <2> DEFINE Body(d, inactive) ==
        LET After(p) == Reaped(sessions[p], d)
            Goes(p)  == /\ p \in inactive
                        /\ After(p).current = NoKeypair
                        /\ After(p).next = NoKeypair
        IN  sessions' = [p \in Peers |->
                            IF ~ sessions[p].open THEN NoSession
                            ELSE IF Goes(p) THEN NoSession ELSE After(p)]
  <2>1. PICK dead \in SUBSET UNION {Slots(sessions[p]) : p \in Peers},
             inactive \in SUBSET Peers :
        /\ \A p \in Peers : sessions[p].open /\ sessions[p].current \in dead
                => Slots([sessions[p] EXCEPT !.next = NoKeypair]) \subseteq dead
        /\ keypairs' = {k \in keypairs : \A d \in dead : k.idx # d.idx}
        /\ Body(dead, inactive)
    BY DEF CleanupSessions
  <2>2. \A p \in Peers :
            \/ ~ sessions[p].open /\ sessions'[p] = NoSession
            \/ /\ sessions[p].open /\ sessions'[p] = Reaped(sessions[p], dead)
            \/ /\ sessions[p].open /\ sessions'[p] = NoSession
               /\ Reaped(sessions[p], dead).current = NoKeypair
               /\ Reaped(sessions[p], dead).next = NoKeypair
    BY <2>1
  <2> QED  BY <2>1, <2>2
<1>2. NoKeypair \notin dead  BY SlotsOf, NoKeypairIsNone
<1>3. th' = th /\ collided' = collided  BY DEF CleanupSessions, history
<1>4. \A idx : Unindexing(idx)' <=> Unindexing(idx)
  BY <1>3 DEF Unindexing
<1>6. ASSUME NEW p \in Peers
      PROVE  /\ Slots(sessions'[p]) = Slots(sessions[p]) \ dead
             /\ sessions'[p].open => Sound(sessions'[p], p, collided)
  <2> DEFINE s == sessions[p]   n == Reaped(s, dead)
  <2>1. CASE ~ s.open
    BY <1>1, <2>1, SlotsOf DEF NoSession, Slots
  <2>2. CASE s.open
    <3>1. s \in Opened /\ Sound(s, p, collided)  BY <2>2, SlotsOf DEF Agree
    <3>2. s.current \in dead => s.prev \in dead \cup {NoKeypair}
      <4> DEFINE r == [s EXCEPT !.next = NoKeypair]
      <4>1. r.open /\ r.prev = s.prev  BY <3>1 DEF Opened
      <4>2. r.prev # NoKeypair => r.prev \in Slots(r)  BY <4>1 DEF Slots
      <4> QED  BY <1>1, <2>2, <4>1, <4>2
    <3>3. Sound(n, p, collided) /\ Slots(n) = Slots(s) \ dead
      <4> HIDE DEF s
      <4> QED  BY <1>2, <3>1, <3>2, ReapedSlots
    <3>4. CASE sessions'[p] = n  BY <3>3, <3>4
    <3>5. CASE sessions'[p] = NoSession /\ n.current = NoKeypair
               /\ n.next = NoKeypair
      <4>1. n \in Opened  BY <3>1, SessionTypes
      <4>2. n.prev = NoKeypair  BY <3>3, <3>5 DEF Sound
      <4> HIDE DEF n
      <4>3. Slots(n) = {}  BY <3>5, <4>1, <4>2, OpenedSlots
      <4>4. Slots(NoSession) = {} /\ ~ NoSession.open  BY DEF Slots, NoSession
      <4> QED  BY <3>3, <3>5, <4>3, <4>4
    <3> QED  BY <1>1, <2>2, <3>4, <3>5
  <2> QED  BY <2>1, <2>2
<1>7. ASSUME NEW p \in Peers, NEW k \in Slots(sessions'[p]),
             k.idx \notin collided
      PROVE  k \in keypairs'
  <2>1. k \in Slots(sessions[p]) /\ k \notin dead  BY <1>6, <1>7
  <2>2. k \in keypairs  BY <1>7, <2>1 DEF Agree
  <2>3. ASSUME NEW d \in dead, k.idx = d.idx PROVE FALSE
    <3>1. PICK q \in Peers : d \in Slots(sessions[q])  OBVIOUS
    <3>2. k = d  BY <1>7, <2>1, <2>3, <3>1, OneAtIndex
    <3> QED  BY <2>1, <3>2
  <2> QED  BY <1>1, <2>2, <2>3
<1>8. \A k \in keypairs' : k \in keypairs /\ k \notin dead /\ k.peer \in Peers
  BY <1>1 DEF Typed, Keypairs
<1>9. \A k \in keypairs' : k \in Slots(sessions'[k.peer]) \/ Unindexing(k.idx)'
  BY <1>4, <1>6, <1>8 DEF Agree
<1>10. \A p \in Peers : \A k \in Slots(sessions'[p]) :
            ~ Unindexing(k.idx)' \/ k.idx \in collided'
  BY <1>3, <1>4, <1>6 DEF Agree
<1> QED  BY <1>3, <1>6, <1>7, <1>9, <1>10 DEF Agree

LEMMA SweepAgrees ==
    ASSUME Typed, Agree, NEW t \in Threads, SweepSessions(t)
    PROVE  Agree'
<1> DEFINE gone == th[t].gone
<1>1. th[t].later.pc # "unindex"
  <2>1. th[t] \in Ops  BY DEF Typed
  <2>2. th[t].later \in {Idle} \cup Reruns
    BY <2>1, OpFields DEF SweepSessions
  <2> QED  BY <2>2 DEF Idle, Reruns
<1>2. \A idx : Unindexing(idx)' <=> Unindexing(idx)
  <2>1. th[t].pc = "sweep_sessions" /\ th' = [th EXCEPT ![t] = th[t].later]
    BY DEF SweepSessions
  <2> QED  BY <1>1, <2>1, UnindexingSame
<1>3. \A p \in Peers : sessions'[p] = IF p \in gone THEN NoSession ELSE sessions[p]
  BY DEF SweepSessions
<1>4. keypairs' = {k \in keypairs : k.peer \notin gone}  BY DEF SweepSessions
<1>0. collided' = collided  BY DEF SweepSessions, history
<1>5. Slots(NoSession) = {} /\ ~ NoSession.open  BY DEF Slots, NoSession
<1>6. \A k \in keypairs : k.peer \in Peers  BY DEF Typed, Keypairs
<1> HIDE DEF gone
<1>7. \A p \in Peers : sessions'[p].open => Sound(sessions'[p], p, collided')
  BY <1>0, <1>3, <1>5 DEF Agree
<1>8. \A p \in Peers : \A k \in Slots(sessions'[p]) :
            k \in keypairs' \/ k.idx \in collided'
  BY <1>0, <1>3, <1>4, <1>5, SlotsOf DEF Agree
<1>9. \A k \in keypairs' : k \in Slots(sessions'[k.peer]) \/ Unindexing(k.idx)'
  BY <1>2, <1>3, <1>4, <1>6 DEF Agree
<1>10. \A p \in Peers : \A k \in Slots(sessions'[p]) :
            ~ Unindexing(k.idx)' \/ k.idx \in collided'
  BY <1>0, <1>2, <1>3, <1>5 DEF Agree
<1> QED  BY <1>7, <1>8, <1>9, <1>10 DEF Agree

LEMMA UnindexAgrees ==
    ASSUME Typed, Agree, NEW t \in Threads, Unindex(t)
    PROVE  Agree'
<1> DEFINE x == th[t].idx
<1>1. /\ keypairs' = {k \in keypairs : k.idx # x} /\ sessions' = sessions
      /\ th[t].pc = "unindex" /\ collided' = collided
  BY DEF Unindex, history
<1>2. \A u \in Threads : th'[u] = IF u = t THEN Idle ELSE th[u]
  BY DEF Unindex, Typed
<1>3. \A idx : Unindexing(idx)' => Unindexing(idx)
  BY <1>2 DEF Unindexing, Idle
<1>4. \A idx : Unindexing(idx) /\ idx # x => Unindexing(idx)'
  BY <1>2 DEF Unindexing
<1>5. Unindexing(x)  BY <1>1 DEF Unindexing
<1> HIDE DEF x
<1>6. \A p \in Peers : \A k \in Slots(sessions'[p]) :
            k \in keypairs' \/ k.idx \in collided'
  BY <1>1, <1>5 DEF Agree
<1>7. \A k \in keypairs' : k \in Slots(sessions'[k.peer]) \/ Unindexing(k.idx)'
  BY <1>1, <1>4 DEF Agree
<1>8. \A p \in Peers : \A k \in Slots(sessions'[p]) :
            ~ Unindexing(k.idx)' \/ k.idx \in collided'
  BY <1>1, <1>3 DEF Agree
<1> QED  BY <1>1, <1>6, <1>7, <1>8 DEF Agree

LEMMA QuietAgrees ==
    ASSUME Typed, Agree, Quiet
    PROVE  Agree'
<1>1. \A idx : Unindexing(idx)' <=> Unindexing(idx)
  BY DEF Quiet, Unindexing
<1> QED  BY <1>1 DEF Quiet, Agree

LEMMA IndexInvNext ==
    ASSUME Typed, IndexInv, [Next]_vars
    PROVE  IndexInv'
<1>1. NoTakeover'  BY TakeoverNext DEF IndexInv
<1>2. closes \in Nat /\ closes' \in Nat  BY TypedNext DEF Typed
<1>3. closes' = closes \/ closes' > 0
  BY QuietSteps DEF Quiet, SlotStep, SweepSessions, Install, Confirm, Unindex,
     CloseKeypairs, CloseSessions, CleanupSessions, history
<1>4. ClosingCounted'
  <2> SUFFICES ASSUME NEW u \in Threads,
                      th'[u].pc \in {"close_keypairs", "close_sessions"}
               PROVE  closes' > 0
    BY DEF ClosingCounted
  <2>1. CASE th'[u] = th[u]
    BY <1>2, <1>3, <2>1 DEF IndexInv, ClosingCounted
  <2>2. CASE Quiet  BY <2>1, <2>2 DEF Quiet
  <2>3. CASE th'[u] # th[u] /\ SlotStep
    <3>1. th[u] # Idle
      <4>1. ASSUME th[u] = Idle, NEW t \in Threads,
                   \/ SweepSessions(t) \/ Install(t) \/ Confirm(t)
                   \/ Unindex(t) \/ CloseKeypairs(t) \/ CloseSessions(t)
            PROVE  t # u
        <5>1. th[t].pc # "idle"
          <6>1. CASE SweepSessions(t)  BY <6>1 DEF SweepSessions
          <6>2. CASE Install(t)  BY <6>2 DEF Install
          <6>3. CASE Confirm(t)  BY <6>3 DEF Confirm
          <6>4. CASE Unindex(t)  BY <6>4 DEF Unindex
          <6>5. CASE CloseKeypairs(t)  BY <6>5 DEF CloseKeypairs
          <6>6. CASE CloseSessions(t)  BY <6>6 DEF CloseSessions
          <6> QED  BY <4>1, <6>1, <6>2, <6>3, <6>4, <6>5, <6>6
        <5> QED  BY <4>1, <5>1 DEF Idle
      <4>2. ASSUME NEW t \in Threads,
                   \/ SweepSessions(t) \/ Install(t) \/ Confirm(t)
                   \/ Unindex(t) \/ CloseKeypairs(t) \/ CloseSessions(t)
            PROVE  \E op : th' = [th EXCEPT ![t] = op]
        <5>1. CASE SweepSessions(t)  BY <5>1 DEF SweepSessions
        <5>2. CASE Install(t)  BY <5>2 DEF Install
        <5>3. CASE Confirm(t)  BY <5>3 DEF Confirm
        <5>4. CASE Unindex(t)  BY <5>4 DEF Unindex
        <5>5. CASE CloseKeypairs(t)  BY <5>5 DEF CloseKeypairs
        <5>6. CASE CloseSessions(t)  BY <5>6 DEF CloseSessions
        <5> QED  BY <4>2, <5>1, <5>2, <5>3, <5>4, <5>5, <5>6
      <4>3. CleanupSessions => UNCHANGED th  BY DEF CleanupSessions
      <4>4. th = [v \in Threads |-> th[v]]  BY DEF Typed
      <4>5. ASSUME NEW t \in Threads, NEW op, th' = [th EXCEPT ![t] = op], t # u
            PROVE  th'[u] = th[u]
        BY <4>4, <4>5
      <4> QED  BY <2>3, <4>1, <4>2, <4>3, <4>5 DEF SlotStep
    <3>2. Step(u)  BY <2>3, <3>1, OwnThread
    <3>3. ASSUME CloseKeypairs(u) PROVE closes' > 0
      BY <1>2, <1>3, <3>3 DEF CloseKeypairs, IndexInv, ClosingCounted
    <3>4. ASSUME Step(u), ~ CloseKeypairs(u) PROVE FALSE
      <4>1. th[u] \in Ops  BY DEF Typed
      <4>1a. ASSUME PruneExpiredPeers(u) PROVE FALSE
        BY <4>1a DEF PruneExpiredPeers, Take, Typed
      <4>1b. ASSUME Pruned(u) PROVE FALSE
        BY <4>1, <4>1b DEF Pruned, Typed, Ops, Idle, Reruns
      <4>2. ASSUME SweepHandshakes(u) PROVE FALSE
        BY <4>1, <4>2 DEF SweepHandshakes, Typed, Ops, Idle, Reruns
      <4>3. ASSUME SweepSessions(u) PROVE FALSE
        <5>1. th[u].later \in {Idle} \cup Reruns
          BY <4>1, <4>3, OpFields DEF SweepSessions
        <5> QED  BY <4>3, <5>1 DEF SweepSessions, Typed, Idle, Reruns
      <4>4. ASSUME Rerun(u) PROVE FALSE
        BY <4>4 DEF Rerun, Accept, Typed, Idle
      <4>5. ASSUME Complete(u) PROVE FALSE  BY <4>5 DEF Complete, Typed, Idle
      <4>6. ASSUME Confirm(u) PROVE FALSE  BY <4>6 DEF Confirm, Typed, Idle
      <4>7. ASSUME InsertHandshake(u) PROVE FALSE
        BY <4>7 DEF InsertHandshake, Typed, Idle
      <4>8. ASSUME Install(u) PROVE FALSE  BY <4>8 DEF Install, Typed, Idle
      <4>9. ASSUME Unindex(u) \/ CloseSessions(u) PROVE FALSE
        BY <4>9 DEF Unindex, CloseSessions, Typed, Idle
      <4> QED
        BY <3>4, <4>1a, <4>1b, <4>2, <4>3, <4>4, <4>5, <4>6, <4>7, <4>8, <4>9 DEF Step
    <3> QED  BY <3>2, <3>3, <3>4
  <2> QED  BY <2>1, <2>2, <2>3, QuietSteps
<1>5. ASSUME closes' = 0 PROVE Agree'
  <2>1. closes = 0  BY <1>2, <1>3, <1>5
  <2>2. Agree
    BY <2>1 DEF IndexInv, SlotsSound, SlotsIndexed, UnindexedLeft, Agree
  <2>3. ASSUME NEW t \in Threads, CloseKeypairs(t) \/ CloseSessions(t)
        PROVE  FALSE
    BY <2>1, <2>3 DEF CloseKeypairs, CloseSessions, IndexInv, ClosingCounted
  <2>4. NoTakeover  BY DEF IndexInv
  <2> QED
    BY <2>2, <2>3, <2>4, QuietSteps, InstallAgrees, ConfirmAgrees, SweepAgrees,
       UnindexAgrees, CleanupAgrees, QuietAgrees DEF SlotStep
<1> QED
  BY <1>1, <1>4, <1>5
  DEF IndexInv, SlotsSound, SlotsIndexed, UnindexedLeft, Agree

(* Until close is called, a keypair in a session's slot is found by its    *)
(* index, unless some keypair was installed at that index between the two  *)
(* lockings of a received_with_keypair that then unindexed it; and a       *)
(* keypair found by its index is in a slot of its peer or about to be      *)
(* unindexed by such a thread, whatever install, confirmation, sweep and   *)
(* maintenance do in between.                                              *)
THEOREM SlotsAndIndexAgree == Spec => []SlotsIndexed
<1>1. Init => Typed /\ IndexInv
  <2> SUFFICES ASSUME Init PROVE IndexInv  BY TypedInit
  <2>1. NoTakeover /\ ClosingCounted
    BY DEF Init, NoTakeover, ClosingCounted, Idle
  <2>2. \A p \in Peers : ~ sessions[p].open /\ Slots(sessions[p]) = {}
    BY DEF Init, Slots, NoSession
  <2>3. keypairs = {}  BY DEF Init
  <2> QED
    BY <2>1, <2>2, <2>3 DEF IndexInv, SlotsSound, SlotsIndexed, UnindexedLeft
<1>2. Typed /\ IndexInv /\ [Next]_vars => Typed' /\ IndexInv'
  BY TypedNext, IndexInvNext
<1>3. IndexInv => SlotsIndexed  BY DEF IndexInv
<1> QED  BY <1>1, <1>2, <1>3, PTL DEF Spec
=============================================================================
