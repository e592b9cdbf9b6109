----------------------------- MODULE DhcpClient -----------------------------
(***************************************************************************)
(* The DHCP client (src/src/dhcp/client.rs) and the adapter that is its    *)
(* transport (src/src/l2adapter.rs).                                       *)
(*                                                                         *)
(* Replies, timers and the owner's calls change the state under one lock,  *)
(* and queue there the transport calls that follow; whichever thread finds *)
(* the queue untended makes the calls, one at a time, with no lock held.   *)
(* A tick asks the transport about an address conflict between two takings *)
(* of the lock.  One step here is one critical section or one call.        *)
(*                                                                         *)
(* The servers are other programs.  One handles a message when it is sent, *)
(* or never; its replies arrive late, repeatedly or not at all.  The clock *)
(* counts what leases are measured in.  Retransmission intervals, which    *)
(* are random, are left out: whether next_tx has come is a choice.         *)
(***************************************************************************)
EXTENDS Integers, Sequences, FiniteSets, FiniteSetsExt

CONSTANTS
    Addrs,          \* addresses
    Servers,        \* servers
    NoServer,       \* no server identifier
    Anonymous,      \* the servers whose replies carry none
    Tickers,        \* threads that call tick
    LEASE, T1, T2,  \* of a lease, from when it was asked for
    MAX_REQUESTS, PROBE_NUM, ANNOUNCE_NUM,
    MAX_TIME,       \* bound: the clock
    Scopes          \* bounds: who is there, and how often what happens

None == -1

ASSUME ClientAssumption ==
    /\ {LEASE, T1, T2, MAX_REQUESTS, PROBE_NUM, ANNOUNCE_NUM, MAX_TIME} \subseteq Nat
    /\ T1 <= T2 /\ T2 <= LEASE /\ 0 < LEASE /\ 0 < PROBE_NUM /\ 0 < ANNOUNCE_NUM
    /\ Anonymous \subseteq Servers /\ NoServer \notin Servers /\ None \notin Addrs
    /\ Scopes \subseteq [tickers : SUBSET Tickers, servers : SUBSET Servers,
                         runs : Nat,        \* calls of start, stop and release
                         xids : Nat,        \* transactions
                         checks : Nat]      \* address checks

VARIABLES
    clock,
    inner,      \* Inner, under its lock
    queue,      \* Queue: the transport calls to make
    making,     \* the call being made, and how far it is
    ticks,      \* per ticker, the tick it is in the middle of
    adapter,    \* the transport: its address, and the probe it watches
    servers,    \* what each server has leased to this client, and until when
    replies,    \* replies sent by the servers
    shown,      \* history: the checks during which the address was seen in use
    scope

vars == <<clock, inner, queue, making, ticks, adapter, servers, replies, shown, scope>>

NoCall  == [stage |-> "idle"]
Idle    == [pc |-> "idle"]
NoLease == [t1 |-> None, t2 |-> None, expiry |-> None]
NoGrant == [ip |-> None, until |-> 0]
NoProbe == [ip |-> None, conflict |-> FALSE]

IdOf(s) == IF s \in Anonymous THEN NoServer ELSE s

Leased(st) == st \in {"Bound", "Renewing", "Rebinding"}

Init ==
    /\ clock = 0
    /\ inner = [state |-> "Init", xid |-> 0, ip |-> None, server |-> NoServer,
                lease |-> NoLease, tries |-> 0, pending |-> NoLease, check |-> 0,
                live |-> FALSE, requested |-> None, announce |-> 0, run |-> 0]
    /\ queue = <<>>
    /\ making = NoCall
    /\ ticks = [t \in Tickers |-> Idle]
    /\ adapter = [ip |-> None, probe |-> NoProbe]
    /\ servers = [s \in Servers |-> NoGrant]
    /\ replies = {}
    /\ shown = {}
    /\ scope \in Scopes

-----------------------------------------------------------------------------
(* Calls to the transport.  One with a run is made only while it lasts.    *)

Always == 0

Call(run, kind, i) ==
    [run |-> run, kind |-> kind, ip |-> i.ip, xid |-> i.xid, server |-> i.server,
     check |-> i.check]

(* Mutant of OfRun: the loss of a lease goes with the run that lost it.    *)
OfRunAll(i, kind) == i.run

(* queue_step: what winds up a run is told even once it is over.           *)
OfRun(i, kind) == IF kind \in {"lost", "decline"} THEN Always ELSE i.run

Calls(i, kinds) == [n \in DOMAIN kinds |-> Call(OfRun(i, kinds[n]), kinds[n], i)]

(* queue_left: what leaving state st gives up.                             *)
LeftBy(i) ==
    CASE i.state = "Probing" -> <<Call(Always, "end_probe", i)>>
      [] Leased(i.state)     -> <<Call(Always, "lost", i)>>
      [] OTHER               -> <<>>

(* The state becomes i, and calls follow.                                  *)
Becomes(i, calls) ==
    /\ inner' = i
    /\ queue' = queue \o calls

(* Inner::restart; the DISCOVER is a call of its own.                      *)
Restarted(i) ==
    [i EXCEPT !.state = "Selecting", !.xid = @ + 1, !.ip = None, !.server = NoServer,
              !.lease = NoLease, !.pending = NoLease, !.announce = 0, !.tries = 0]

Bound(i, lease) ==
    [i EXCEPT !.state = "Bound", !.pending = NoLease, !.announce = 0, !.lease = lease]

CanRestart == inner.xid < scope.xids

-----------------------------------------------------------------------------
(* The owner.                                                              *)

Start ==
    LET i == Restarted([inner EXCEPT !.run = @ + 1])
    IN  /\ inner.run < scope.runs /\ CanRestart
        /\ Becomes(i, LeftBy(inner) \o <<Call(i.run, "discover", i)>>)
        /\ UNCHANGED <<clock, making, ticks, adapter, servers, replies, shown, scope>>

Halted(i) ==
    [i EXCEPT !.run = @ + 1, !.state = "Init", !.lease = NoLease, !.pending = NoLease,
              !.announce = 0]

Stop ==
    /\ inner.run < scope.runs /\ inner.state # "Init"
    /\ Becomes(Halted(inner), LeftBy(inner))
    /\ UNCHANGED <<clock, making, ticks, adapter, servers, replies, shown, scope>>

(* release: the RELEASE goes out first, from the address it gives up.      *)
Release ==
    /\ inner.run < scope.runs /\ Leased(inner.state)
    /\ Becomes(Halted(inner),
               (IF inner.server = NoServer THEN <<>>
                ELSE <<Call(Always, "release", inner)>>) \o LeftBy(inner))
    /\ UNCHANGED <<clock, making, ticks, adapter, servers, replies, shown, scope>>

-----------------------------------------------------------------------------
(* handle_reply.                                                           *)

(* Mutant of LeaseFrom: the lease runs from the answer.                    *)
LeaseFromNow(i, length) ==
    [t1 |-> clock + T1, t2 |-> clock + T2, expiry |-> clock + length]

(* lease_timers, from the first request of the transaction.                *)
LeaseFrom(i, length) ==
    [t1 |-> i.requested + T1, t2 |-> i.requested + T2, expiry |-> i.requested + length]

(* RENEWING asks the server that granted the lease, and only it.           *)
FromAnother(r) ==
    /\ inner.state = "Renewing" /\ r.kind \in {"ack", "nak"}
    /\ inner.server # NoServer /\ r.server # inner.server

TakeOffer(r) ==
    LET i == [inner EXCEPT !.requested = clock, !.ip = r.ip, !.server = r.server,
                           !.state = "Requesting", !.tries = 0]
    IN  /\ inner.state = "Selecting" /\ r.kind = "offer"
        /\ Becomes(i, Calls(i, <<"select">>))

(* A newly granted address is checked before use; one renewed is ours.     *)
TakeAck(r) ==
    LET i == [inner EXCEPT !.ip = r.ip,
                           !.server = IF r.server = NoServer THEN @ ELSE r.server]
        lease == LeaseFrom(inner, LEASE)
        probing == [i EXCEPT !.state = "Probing", !.pending = lease, !.tries = 1,
                             !.check = @ + 1, !.live = FALSE]
    IN  /\ inner.state \in {"Requesting", "Renewing", "Rebinding"} /\ r.kind = "ack"
        /\ IF inner.state = "Requesting"
           THEN /\ inner.check < scope.checks
                /\ Becomes(probing, Calls(probing, <<"first_probe">>))
           ELSE Becomes(Bound(i, lease), Calls(i, <<"bound">>))

TakeNak(r) ==
    LET i == Restarted(inner)
    IN  /\ inner.state \in {"Requesting", "Renewing", "Rebinding"} /\ r.kind = "nak"
        /\ CanRestart
        /\ Becomes(i, (IF inner.state = "Requesting" THEN <<>>
                       ELSE Calls(inner, <<"lost">>)) \o Calls(i, <<"discover">>))

HandleReply(r) ==
    /\ r \in replies /\ r.xid = inner.xid /\ ~FromAnother(r)
    /\ TakeOffer(r) \/ TakeAck(r) \/ TakeNak(r)
    /\ UNCHANGED <<clock, making, ticks, adapter, servers, replies, shown, scope>>

-----------------------------------------------------------------------------
(* tick and step.                                                          *)

(* Mutant of Watching: a check counts before the transport has begun it.   *)
WatchingAtOnce(i) == i.state = "Probing"

Watching(i) == i.state = "Probing" /\ i.live

TickStart(t) ==
    /\ t \in scope.tickers /\ ticks[t] = Idle
    /\ ticks' = [ticks EXCEPT ![t] =
            IF Watching(inner)
            THEN [pc |-> "ask", now |-> clock, ip |-> inner.ip, check |-> inner.check]
            ELSE [pc |-> "step", now |-> clock, check |-> None]]
    /\ UNCHANGED <<clock, inner, queue, making, adapter, servers, replies, shown, scope>>

(* probe_conflict, with no lock held.                                      *)
TickAsk(t) ==
    /\ ticks[t].pc = "ask"
    /\ ticks' = [ticks EXCEPT ![t] =
            [pc |-> "step", now |-> ticks[t].now,
             check |-> IF adapter.probe = [ip |-> ticks[t].ip, conflict |-> TRUE]
                       THEN ticks[t].check ELSE None]]
    /\ UNCHANGED <<clock, inner, queue, making, adapter, servers, replies, shown, scope>>

(* Believed only if it is still the same check.                            *)
Conflicted(check) == inner.state = "Probing" /\ check = inner.check

(* Every call has been made.  The code does not look: this is an           *)
(* assumption on the threads, that what one has queued is made within the  *)
(* interval since the last message, a second at least.                     *)
Drained == queue = <<>> /\ making = NoCall

(* DECLINE, and nothing more until a wait is over.                         *)
StepConflict ==
    /\ CanRestart
    /\ Becomes(Restarted(inner), Calls(inner, <<"decline">>))

(* One more probe, or the address is bound and announced.                  *)
StepProbing ==
    LET more  == [inner EXCEPT !.tries = @ + 1]
        bound == [Bound(inner, inner.pending) EXCEPT !.announce = ANNOUNCE_NUM - 1]
    IN  /\ Drained /\ inner.state = "Probing"
        /\ IF inner.tries < PROBE_NUM THEN Becomes(more, Calls(more, <<"probe">>))
           ELSE Becomes(bound, Calls(bound, <<"bound", "announce">>))

StepSelecting ==
    /\ Drained /\ inner.state = "Selecting"
    /\ Becomes(inner, Calls(inner, <<"discover">>))

StepRequesting ==
    LET again == [inner EXCEPT !.tries = @ + 1]
        over  == Restarted(inner)
    IN  /\ Drained /\ inner.state = "Requesting"
        /\ IF inner.tries + 1 >= MAX_REQUESTS
           THEN CanRestart /\ Becomes(over, Calls(over, <<"discover">>))
           ELSE Becomes(again, Calls(again, <<"select">>))

StepAnnounce ==
    LET i == [inner EXCEPT !.announce = @ - 1]
    IN  /\ Drained /\ Leased(inner.state) /\ inner.announce > 0
        /\ Becomes(i, Calls(i, <<"announce">>))

(* A new transaction, straight from BOUND.                                 *)
Anew(i, now) == IF i.state = "Bound" THEN [i EXCEPT !.xid = @ + 1, !.requested = now] ELSE i

StepExpired(now) ==
    LET i == Restarted(inner)
    IN  /\ Leased(inner.state) /\ inner.lease.expiry <= now
        /\ CanRestart
        /\ Becomes(i, Calls(inner, <<"lost">>) \o Calls(i, <<"discover">>))

Rebinds(now) ==
    \/ inner.lease.t2 <= now
    \/ inner.lease.t1 <= now /\ inner.server = NoServer

StepRebind(now) ==
    LET i == [Anew(inner, now) EXCEPT !.state = "Rebinding"]
    IN  /\ Leased(inner.state) /\ now < inner.lease.expiry /\ Rebinds(now)
        /\ IF inner.state = "Bound" THEN CanRestart ELSE Drained \/ inner.state = "Renewing"
        /\ Becomes(i, Calls(i, <<"rebind">>))

StepRenew(now) ==
    LET i == [Anew(inner, now) EXCEPT !.state = "Renewing"]
    IN  /\ inner.state \in {"Bound", "Renewing"}
        /\ inner.lease.t1 <= now /\ now < inner.lease.expiry /\ ~Rebinds(now)
        /\ IF inner.state = "Bound" THEN CanRestart ELSE Drained
        /\ Becomes(i, Calls(i, <<"renew">>))

(* Whether anything is due is a choice, except that a conflict is acted on *)
(* at once.                                                                *)
TickStep(t) ==
    /\ ticks[t].pc = "step"
    /\ IF Conflicted(ticks[t].check) THEN StepConflict
       ELSE \/ StepProbing \/ StepSelecting \/ StepRequesting \/ StepAnnounce
            \/ StepExpired(ticks[t].now) \/ StepRebind(ticks[t].now)
            \/ StepRenew(ticks[t].now)
            \/ UNCHANGED <<inner, queue>>
    /\ ticks' = [ticks EXCEPT ![t] = Idle]
    /\ UNCHANGED <<clock, making, adapter, servers, replies, shown, scope>>

-----------------------------------------------------------------------------
(* deliver.                                                                *)

(* The next call, unless it is of a run that is over.                      *)
DeliverNext ==
    /\ making = NoCall /\ queue # <<>>
    /\ making' = IF Head(queue).run \in {Always, inner.run}
                 THEN [stage |-> "make", call |-> Head(queue)] ELSE NoCall
    /\ queue' = Tail(queue)
    /\ UNCHANGED <<clock, inner, ticks, adapter, servers, replies, shown, scope>>

Calling(kinds) == making.stage = "make" /\ making.call.kind \in kinds

(* on_bound: the check is over, and the address configured.                *)
CallBound ==
    /\ Calling({"bound"})
    /\ adapter' = [ip |-> making.call.ip, probe |-> NoProbe]
    /\ making' = NoCall
    /\ UNCHANGED <<clock, inner, queue, ticks, servers, replies, shown, scope>>

CallLost ==
    /\ Calling({"lost"})
    /\ adapter' = [adapter EXCEPT !.ip = None]
    /\ making' = NoCall
    /\ UNCHANGED <<clock, inner, queue, ticks, servers, replies, shown, scope>>

CallEndProbe ==
    /\ Calling({"end_probe"})
    /\ adapter' = [adapter EXCEPT !.probe = NoProbe]
    /\ making' = NoCall
    /\ UNCHANGED <<clock, inner, queue, ticks, servers, replies, shown, scope>>

(* The first probe of a check has the transport begin it, and the client   *)
(* then learns that it has.                                                *)
CallBeginProbe ==
    /\ Calling({"first_probe"})
    /\ adapter' = [adapter EXCEPT !.probe = [ip |-> making.call.ip, conflict |-> FALSE]]
    /\ making' = [making EXCEPT !.stage = "begun"]
    /\ UNCHANGED <<clock, inner, queue, ticks, servers, replies, shown, scope>>

CallProbeLive ==
    /\ making.stage = "begun"
    /\ inner' = [inner EXCEPT !.live =
                    @ \/ (inner.state = "Probing" /\ inner.check = making.call.check)]
    /\ making' = NoCall
    /\ UNCHANGED <<clock, queue, ticks, adapter, servers, replies, shown, scope>>

(* Probes and announcements only go out.                                   *)
CallArp ==
    /\ Calling({"probe", "announce"})
    /\ making' = NoCall
    /\ UNCHANGED <<clock, inner, queue, ticks, adapter, servers, replies, shown, scope>>

(* What a server does with a message, if it gets there.                    *)
Reply(s, kind, ip) ==
    [kind |-> kind, xid |-> making.call.xid, ip |-> ip, server |-> IdOf(s)]

Addressed(s) == IdOf(s) = making.call.server

Grant(s) ==
    /\ servers' = [servers EXCEPT ![s] = [ip |-> making.call.ip, until |-> clock + LEASE]]
    /\ replies' = replies \cup {Reply(s, "ack", making.call.ip)}

Refuse(s) ==
    /\ servers' = [servers EXCEPT ![s] = NoGrant]
    /\ replies' = replies \cup {Reply(s, "nak", None)}

Holds(s) == servers[s].ip = making.call.ip /\ clock < servers[s].until

ServerHandles(s, kind) ==
    CASE kind = "discover" -> /\ \E ip \in Addrs : replies' = replies \cup {Reply(s, "offer", ip)}
                              /\ UNCHANGED servers
      [] kind = "select" -> Addressed(s) /\ (Grant(s) \/ (~Holds(s) /\ Refuse(s)))
      [] kind = "renew" -> /\ Addressed(s)
                           /\ IF Holds(s) THEN Grant(s) ELSE Refuse(s)
      [] kind = "rebind" -> Grant(s) \/ (~Holds(s) /\ Refuse(s))
      [] kind \in {"release", "decline"} ->
            /\ Addressed(s) /\ Holds(s)
            /\ servers' = [servers EXCEPT ![s] = NoGrant]
            /\ UNCHANGED replies

CallSend ==
    /\ Calling({"discover", "select", "renew", "rebind", "release", "decline"})
    /\ \/ \E s \in scope.servers : ServerHandles(s, making.call.kind)
       \/ UNCHANGED <<servers, replies>>
    /\ adapter' = IF making.call.kind = "decline"
                  THEN [adapter EXCEPT !.probe = NoProbe] ELSE adapter
    /\ making' = NoCall
    /\ UNCHANGED <<clock, inner, queue, ticks, shown, scope>>

-----------------------------------------------------------------------------
(* handle_arp, while an address is watched: another station uses it.       *)
Conflict ==
    /\ adapter.probe.ip # None
    /\ adapter' = [adapter EXCEPT !.probe.conflict = TRUE]
    /\ shown' = IF inner.state = "Probing" /\ inner.ip = adapter.probe.ip
                THEN shown \cup {inner.check} ELSE shown
    /\ UNCHANGED <<clock, inner, queue, making, ticks, servers, replies, scope>>

(* Time passes.  An assumption on the threads too: the timer thread looks  *)
(* twice a second, and what it decides and queues is done well before the  *)
(* next second.                                                            *)
Prompt == Drained /\ (Leased(inner.state) => clock < inner.lease.expiry)

Pass ==
    /\ clock < MAX_TIME /\ Prompt
    /\ clock' = clock + 1
    /\ UNCHANGED <<inner, queue, making, ticks, adapter, servers, replies, shown, scope>>

Xids == 1 .. Max({s.xids : s \in Scopes})

Replies ==
    [kind : {"offer", "ack"}, xid : Xids, ip : Addrs, server : {IdOf(s) : s \in Servers}]
    \cup [kind : {"nak"}, xid : Xids, ip : {None}, server : {IdOf(s) : s \in Servers}]

Next ==
    \/ Start \/ Stop \/ Release
    \/ \E r \in Replies : HandleReply(r)
    \/ \E t \in Tickers : TickStart(t) \/ TickAsk(t) \/ TickStep(t)
    \/ DeliverNext
    \/ CallBound \/ CallLost \/ CallEndProbe \/ CallBeginProbe \/ CallProbeLive
    \/ CallArp \/ CallSend
    \/ Conflict
    \/ Pass

Spec == Init /\ [][Next]_vars

-----------------------------------------------------------------------------
States == {"Init", "Selecting", "Requesting", "Probing", "Bound", "Renewing", "Rebinding"}

TypeOK ==
    /\ inner.state \in States /\ inner.xid \in {0} \cup Xids
    /\ inner.ip \in Addrs \cup {None} /\ inner.server \in Servers \cup {NoServer}
    /\ Leased(inner.state) => inner.lease.expiry \in Nat /\ inner.ip \in Addrs
    /\ adapter.ip \in Addrs \cup {None}
    /\ replies \subseteq Replies

(* Once the calls are made, the adapter uses the address of the lease the  *)
(* client holds, and none when it holds none: a binding made late, of a    *)
(* run that has been stopped or started over meanwhile, never outlives the *)
(* loss that follows it (client.rs, deliver).                              *)
AdapterFollows ==
    Drained =>
        adapter.ip = IF Leased(inner.state) THEN inner.ip ELSE None

(* The client never believes its lease to last longer than a server does   *)
(* that granted it, however late the answer it took was, and whatever it   *)
(* left unfinished before (client.rs, requested_at).                       *)
LeaseCovered ==
    Leased(inner.state) /\ clock < inner.lease.expiry =>
        \E s \in Servers : /\ servers[s].ip = inner.ip
                           /\ inner.lease.expiry <= servers[s].until

(* A declined address was seen in use during the check that declines it,   *)
(* not during an earlier one of the same address (client.rs, probe_live).  *)
DeclinesJustified ==
    \A n \in DOMAIN queue : queue[n].kind = "decline" => queue[n].check \in shown
=============================================================================
