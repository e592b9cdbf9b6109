-------------------------- MODULE DhcpClientProofs --------------------------
(***************************************************************************)
(* Proofs about DhcpClient, for any number of servers, timer threads,      *)
(* transactions, checks and runs.                                          *)
(*                                                                         *)
(* What the client believes and what the transport and the servers have    *)
(* been told differ by the calls still to be made: the one in making and,  *)
(* behind it, those of the queue.  Each theorem rests on an invariant that *)
(* says what the calls outstanding will bring about:                       *)
(*                                                                         *)
(*   FollowInv  once they are made, the adapter has the lease's address;   *)
(*   WatchInv   the transport watches for the check the client is in, or   *)
(*              will as soon as it is told to, and nothing ends it before; *)
(*   CoverInv   none of them makes a server forget a lease that the client *)
(*              holds, is checking, or is about to be told of.             *)
(***************************************************************************)
EXTENDS DhcpClient, SequenceTheorems, TLAPS

Kinds ==
    {"lost", "end_probe", "discover", "select", "renew", "rebind", "release",
     "decline", "first_probe", "probe", "bound", "announce"}

CallSet ==
    [run : Nat, kind : Kinds, ip : Addrs \cup {None}, xid : Nat,
     server : Servers \cup {NoServer}, check : Nat]

InnerOK(i) ==
    /\ i = [state |-> i.state, xid |-> i.xid, ip |-> i.ip, server |-> i.server,
            lease |-> i.lease, tries |-> i.tries, pending |-> i.pending,
            check |-> i.check, live |-> i.live, requested |-> i.requested,
            announce |-> i.announce, run |-> i.run]
    /\ i.state \in States
    /\ i.xid \in Nat /\ i.check \in Nat /\ i.run \in Nat
    /\ i.ip \in Addrs \cup {None} /\ i.server \in Servers \cup {NoServer}
    /\ i.live \in BOOLEAN /\ i.requested \in Int
    /\ i.lease.expiry \in Int /\ i.pending.expiry \in Int

(* A call outstanding while the client's state is i.                       *)
CallOK(i, c) ==
    /\ c \in CallSet
    /\ c.run <= i.run /\ c.xid <= i.xid /\ c.check <= i.check
    /\ c.kind = "lost" => c.run = Always

(* The calls outstanding: the one in making, and the queue.                *)
InHand == making.stage # "idle"

Typed ==
    /\ clock \in Nat
    /\ InnerOK(inner)
    /\ queue \in Seq(CallSet)
    /\ \A n \in DOMAIN queue : CallOK(inner, queue[n])
    /\ \/ making = NoCall
       \/ /\ making = [stage |-> making.stage, call |-> making.call]
          /\ making.stage \in {"make", "begun"}
          /\ making.stage = "begun" => making.call.kind = "first_probe"
          /\ CallOK(inner, making.call)
    /\ ticks = [t \in Tickers |-> ticks[t]]
    /\ \A t \in Tickers : ticks[t] # Idle => ticks[t].now \in Nat
    /\ adapter = [ip |-> adapter.ip, probe |-> adapter.probe]
    /\ adapter.probe = [ip |-> adapter.probe.ip, conflict |-> adapter.probe.conflict]
    /\ servers = [s \in Servers |-> servers[s]]
    /\ scope \in Scopes

-----------------------------------------------------------------------------
(* The adapter's address.                                                  *)

Target(i) == IF Leased(i.state) THEN i.ip ELSE None

Sets(c) == c.kind \in {"bound", "lost"}

Due(i, c) == c.run \in {Always, i.run}

(* The call that leaves the adapter as the client's state i wants it.      *)
Final(i, c) ==
    IF Leased(i.state) THEN c.kind = "bound" /\ c.run = i.run /\ c.ip = i.ip
    ELSE c.kind = "lost"

FinalQueued(i, q) == \E n \in DOMAIN q : Final(i, q[n])

FinalLast(i, q) ==
    \A n \in DOMAIN q :
        Sets(q[n]) /\ Due(i, q[n]) /\ ~ Final(i, q[n]) =>
            \E m \in DOMAIN q : n < m /\ Final(i, q[m])

FollowInv ==
    /\ \/ adapter.ip = Target(inner)
       \/ InHand /\ Final(inner, making.call)
       \/ FinalQueued(inner, queue)
    /\ InHand /\ Sets(making.call) /\ ~ Final(inner, making.call) =>
           FinalQueued(inner, queue)
    /\ FinalLast(inner, queue)

-----------------------------------------------------------------------------
(* The check of a new address.                                             *)

(* The calls that change what the transport watches.                       *)
Touches(c) == c.kind \in {"bound", "end_probe", "decline", "first_probe"}

Begins(i, c) ==
    c.kind = "first_probe" /\ c.check = i.check /\ c.ip = i.ip /\ c.run = i.run

Untouched(q) == \A n \in DOMAIN q : ~ Touches(q[n])

(* The transport watches for the check, and what it has seen is recorded.  *)
Watched ==
    /\ adapter.probe.ip = inner.ip
    /\ adapter.probe.conflict => inner.check \in shown

(* The check has begun; is beginning; or will, with nothing after it that  *)
(* ends it and no earlier one taken for it.                                *)
CheckLive     == inner.live /\ Watched /\ Untouched(queue)
                     /\ (InHand => ~ Touches(making.call))
CheckBegun    == ~ inner.live /\ making.stage = "begun"
                     /\ Begins(inner, making.call) /\ Watched /\ Untouched(queue)
CheckBegins   == ~ inner.live /\ making.stage = "make"
                     /\ Begins(inner, making.call) /\ Untouched(queue)
CheckQueued   ==
    /\ ~ inner.live
    /\ making.stage = "begun" => making.call.check # inner.check
    /\ \E n \in DOMAIN queue :
        /\ Begins(inner, queue[n])
        /\ \A m \in DOMAIN queue : n < m => ~ Touches(queue[m])
        /\ \A m \in DOMAIN queue : m < n /\ queue[m].kind = "first_probe" =>
                queue[m].check # inner.check
    /\ making.stage = "make" /\ making.call.kind = "first_probe" =>
            making.call.check # inner.check

TickOK(k) ==
    \/ k = Idle
    \/ /\ k.pc = "ask"
       /\ k.check \in Nat /\ k.check <= inner.check
       /\ inner.state = "Probing" /\ k.check = inner.check => inner.live
    \/ /\ k.pc = "step"
       /\ k.check \in Nat \cup {None} /\ k.check <= inner.check
       /\ Conflicted(k.check) => k.check \in shown

WatchInv ==
    /\ inner.state = "Probing" =>
           CheckLive \/ CheckBegun \/ CheckBegins \/ CheckQueued
    /\ \A t \in Tickers : TickOK(ticks[t])
    /\ DeclinesJustified

-----------------------------------------------------------------------------
(* The lease.                                                              *)

Asking   == {"select", "renew", "rebind"}
GivingUp == {"release", "decline"}

(* A call of the transaction the client is in.                             *)
OfTransaction(i, c) ==
    i.state # "Init" /\ c.xid = i.xid =>
        /\ c.kind \notin GivingUp
        /\ c.kind \in Asking => c.ip = i.ip /\ i.state # "Selecting"

(* A call that keeps what a server has granted of the client's address.    *)
Harmless(i, c) ==
    /\ c.kind \notin GivingUp
    /\ c.kind \in Asking => c.ip = i.ip

AckOf(i, r) == r.kind = "ack" /\ r.xid = i.xid

Answered == \E r \in replies : AckOf(inner, r)

Asked(i)  == i.state \notin {"Init", "Selecting"}
Having(i) == Leased(i.state) \/ i.state = "Probing"
Asks(i)   == i.state \in {"Requesting", "Renewing", "Rebinding"}

(* A server has the address leased to the client up to the time e at least.*)
Covered(ip, e) ==
    clock < e => \E s \in Servers : servers[s].ip = ip /\ e <= servers[s].until

CallsInOrder ==
    /\ \A n \in DOMAIN queue : InHand => making.call.xid <= queue[n].xid
    /\ \A n, m \in DOMAIN queue : n < m => queue[n].xid <= queue[m].xid

CallsAreOurs ==
    /\ \A n \in DOMAIN queue : OfTransaction(inner, queue[n])
    /\ InHand => OfTransaction(inner, making.call)

CallsAreHarmless ==
    Having(inner) \/ (Asked(inner) /\ Answered) =>
        /\ \A n \in DOMAIN queue : Harmless(inner, queue[n])
        /\ InHand => Harmless(inner, making.call)

RepliesFit ==
    \A r \in replies :
        /\ r.xid \in Nat /\ r.xid <= inner.xid
        /\ AckOf(inner, r) /\ Asked(inner) => r.ip = inner.ip
        /\ AckOf(inner, r) => inner.state # "Selecting"

TimesFit ==
    /\ inner.requested <= clock
    /\ \A t \in Tickers : ticks[t] # Idle => ticks[t].now <= clock

LeaseFits ==
    /\ Leased(inner.state) => /\ inner.lease.expiry <= clock + LEASE
                              /\ Covered(inner.ip, inner.lease.expiry)
    /\ inner.state = "Probing" => /\ inner.pending.expiry <= clock + LEASE
                                  /\ Covered(inner.ip, inner.pending.expiry)
    /\ Asks(inner) /\ Answered => Covered(inner.ip, inner.requested + LEASE)

CoverInv ==
    /\ CallsInOrder /\ CallsAreOurs /\ CallsAreHarmless
    /\ RepliesFit /\ TimesFit /\ LeaseFits

-----------------------------------------------------------------------------
(* What a step of the client's own does: its state goes from i to j, and   *)
(* the calls c follow.                                                     *)

(* Back to the start, with what was held given up.                         *)
Quits(i, j, c) ==
    /\ j.state \in {"Init", "Selecting"}
    /\ j.xid = IF j.state = "Init" THEN i.xid ELSE i.xid + 1
    /\ j.run \in {i.run, i.run + 1} /\ j.check = i.check /\ j.requested = i.requested
    /\ \A n \in DOMAIN c :
        /\ c[n].kind \in {"lost", "end_probe", "release", "decline", "discover"}
        /\ c[n].xid = IF c[n].kind = "discover" THEN j.xid ELSE i.xid
        /\ c[n].kind = "discover" => \A m \in DOMAIN c : m <= n
        /\ c[n].kind = "decline" =>
            /\ c[n].check = i.check
            /\ \E t \in Tickers : ticks[t].pc = "step" /\ Conflicted(ticks[t].check)
    /\ Leased(i.state) => \E n \in DOMAIN c : c[n].kind = "lost"

(* The transaction goes on as it was.                                      *)
GoesOn(i, j, c) ==
    /\ j.state = i.state \/ (i.state = "Renewing" /\ j.state = "Rebinding")
    /\ j.xid = i.xid /\ j.run = i.run /\ j.check = i.check /\ j.live = i.live
    /\ j.requested = i.requested /\ j.ip = i.ip /\ j.lease = i.lease
    /\ j.pending = i.pending
    /\ \A n \in DOMAIN c :
        /\ c[n].kind \in {"probe", "announce", "discover"} \cup Asking
        /\ c[n].xid = j.xid /\ c[n].ip = j.ip
        /\ c[n].kind \in Asking => Asked(j)

TakesOffer(i, j, c) ==
    /\ i.state = "Selecting" /\ j.state = "Requesting"
    /\ j.xid = i.xid /\ j.run = i.run /\ j.check = i.check /\ j.requested = clock
    /\ \A n \in DOMAIN c : c[n].kind = "select" /\ c[n].xid = j.xid /\ c[n].ip = j.ip

(* A new transaction, for the lease that is held.                          *)
Renews(i, j, c) ==
    /\ i.state = "Bound" /\ j.state \in {"Renewing", "Rebinding"}
    /\ j.xid = i.xid + 1 /\ j.run = i.run /\ j.check = i.check
    /\ j.ip = i.ip /\ j.lease = i.lease
    /\ \E t \in Tickers : ticks[t] # Idle /\ j.requested = ticks[t].now
    /\ \A n \in DOMAIN c :
        c[n].kind \in {"renew", "rebind"} /\ c[n].xid = j.xid /\ c[n].ip = j.ip

Checks(i, j, c) ==
    /\ i.state = "Requesting" /\ j.state = "Probing"
    /\ j.xid = i.xid /\ j.run = i.run /\ j.check = i.check + 1 /\ j.live = FALSE
    /\ j.requested = i.requested
    /\ \E r \in replies : AckOf(i, r) /\ j.ip = r.ip
    /\ j.pending.expiry = i.requested + LEASE
    /\ DOMAIN c = {1} /\ Begins(j, c[1]) /\ c[1].xid = j.xid

TakesAck(i, j, c) ==
    /\ i.state \in {"Renewing", "Rebinding"} /\ j.state = "Bound"
    /\ j.xid = i.xid /\ j.run = i.run /\ j.check = i.check
    /\ j.requested = i.requested
    /\ \E r \in replies : AckOf(i, r) /\ j.ip = r.ip
    /\ j.lease.expiry = i.requested + LEASE
    /\ DOMAIN c = {1} /\ c[1].kind = "bound" /\ c[1].xid = j.xid
    /\ c[1].run = j.run /\ c[1].ip = j.ip

Binds(i, j, c) ==
    /\ i.state = "Probing" /\ j.state = "Bound"
    /\ j.xid = i.xid /\ j.run = i.run /\ j.check = i.check
    /\ j.requested = i.requested /\ j.ip = i.ip /\ j.lease = i.pending
    /\ DOMAIN c = {1, 2} /\ c[1].xid = j.xid /\ c[2].xid = j.xid
    /\ c[1].kind = "bound" /\ c[1].run = j.run /\ c[1].ip = j.ip
    /\ c[2].kind = "announce"

Goes(i, j, c) ==
    \/ Quits(i, j, c) \/ GoesOn(i, j, c) \/ TakesOffer(i, j, c) \/ Renews(i, j, c)
    \/ Checks(i, j, c) \/ TakesAck(i, j, c) \/ Binds(i, j, c)

Follow(i, j, c) ==
    /\ c \in Seq(CallSet) /\ InnerOK(j)
    /\ \A n \in DOMAIN c : CallOK(j, c[n])
    /\ i.run <= j.run /\ i.xid <= j.xid /\ i.check <= j.check
    /\ Goes(i, j, c)

Moved(c) ==
    /\ Follow(inner, inner', c)
    /\ queue' = queue \o c
    /\ UNCHANGED <<clock, making, adapter, servers, replies, shown, scope>>
    /\ ticks' = ticks \/ \E t \in Tickers : ticks' = [ticks EXCEPT ![t] = Idle]

-----------------------------------------------------------------------------
LEMMA ConstantsAre ==
    /\ LEASE \in Nat /\ T1 \in Nat /\ T2 \in Nat
    /\ \A s \in Scopes : s.servers \subseteq Servers
    /\ None = -1 /\ None \notin Addrs
BY ClientAssumption DEF None

LEMMA CallIs ==
    ASSUME NEW i, InnerOK(i), NEW run \in Nat, NEW kind \in Kinds, NEW c,
           c = Call(run, kind, i)
    PROVE  /\ c \in CallSet /\ c.run = run /\ c.kind = kind /\ c.ip = i.ip
           /\ c.xid = i.xid /\ c.check = i.check
BY DEF Call, CallSet, InnerOK

LEMMA CallsOne ==
    ASSUME NEW i, NEW k
    PROVE  Calls(i, <<k>>) = <<Call(OfRun(i, k), k, i)>>
BY DEF Calls

LEMMA CallsTwo ==
    ASSUME NEW i, NEW k, NEW l
    PROVE  Calls(i, <<k, l>>) = <<Call(OfRun(i, k), k, i), Call(OfRun(i, l), l, i)>>
BY DEF Calls

LEMMA OneAndOne == ASSUME NEW a, NEW b PROVE <<a>> \o <<b>> = <<a, b>>
<1>1. <<a>> \in Seq({a, b}) /\ <<b>> \in Seq({a, b}) /\ <<a, b>> \in Seq({a, b})
  OBVIOUS
<1>2. PICK s : s = <<a>> \o <<b>>  OBVIOUS
<1>3. s \in Seq({a, b}) /\ Len(s) = 2 /\ s[1] = a /\ s[2] = b  BY <1>1, <1>2
<1>4. Len(<<a, b>>) = 2 /\ <<a, b>>[1] = a /\ <<a, b>>[2] = b  OBVIOUS
<1>5. \A n \in 1 .. 2 : s[n] = <<a, b>>[n]  BY <1>3, <1>4
<1>6. s = <<a, b>>  BY <1>1, <1>3, <1>4, <1>5, SeqEqual
<1> QED  BY <1>2, <1>6

(* The elements of two sequences put together, and where they are.         *)
Joined(q, c, r) ==
    /\ \A n \in DOMAIN r :
        \/ n \in DOMAIN q /\ r[n] = q[n] /\ n <= Len(q)
        \/ \E m \in DOMAIN c : n = Len(q) + m /\ r[n] = c[m]
    /\ \A n \in DOMAIN q : n \in DOMAIN r /\ r[n] = q[n] /\ n <= Len(q)
    /\ \A m \in DOMAIN c : /\ Len(q) + m \in DOMAIN r /\ r[Len(q) + m] = c[m]
                           /\ m \in Nat \ {0}
    /\ Len(q) \in Nat /\ DOMAIN q \subseteq Nat

LEMMA Together ==
    ASSUME NEW S, NEW q \in Seq(S), NEW c \in Seq(S)
    PROVE  q \o c \in Seq(S) /\ Joined(q, c, q \o c)
<1>1. /\ q \o c \in Seq(S) /\ Len(q \o c) = Len(q) + Len(c)
      /\ Len(q) \in Nat /\ Len(c) \in Nat
      /\ DOMAIN q = 1 .. Len(q) /\ DOMAIN c = 1 .. Len(c)
      /\ DOMAIN (q \o c) = 1 .. Len(q) + Len(c)
  OBVIOUS
<1>2. \A n \in 1 .. Len(q) + Len(c) :
          (q \o c)[n] = IF n <= Len(q) THEN q[n] ELSE c[n - Len(q)]
  OBVIOUS
<1>3. ASSUME NEW n \in DOMAIN (q \o c)
      PROVE  \/ n \in DOMAIN q /\ (q \o c)[n] = q[n] /\ n <= Len(q)
             \/ \E m \in DOMAIN c : n = Len(q) + m /\ (q \o c)[n] = c[m]
  <2>1. CASE n <= Len(q)  BY <1>1, <1>2, <2>1
  <2>2. CASE Len(q) < n
    <3>1. n - Len(q) \in DOMAIN c /\ n = Len(q) + (n - Len(q))  BY <1>1, <2>2
    <3>2. (q \o c)[n] = c[n - Len(q)]  BY <1>1, <1>2, <2>2
    <3> QED  BY <3>1, <3>2
  <2> QED  BY <1>1, <2>1, <2>2
<1>4. ASSUME NEW m \in DOMAIN c
      PROVE  /\ Len(q) + m \in DOMAIN (q \o c)
             /\ (q \o c)[Len(q) + m] = c[m]
             /\ m \in Nat \ {0}
  <2>1. /\ m \in Nat \ {0} /\ Len(q) + m \in 1 .. Len(q) + Len(c)
        /\ ~ (Len(q) + m <= Len(q)) /\ (Len(q) + m) - Len(q) = m
    BY <1>1
  <2> QED  BY <1>1, <1>2, <2>1
<1>5. \A n \in DOMAIN q : n \in DOMAIN (q \o c) /\ (q \o c)[n] = q[n] /\ n <= Len(q)
  BY <1>1, <1>2
<1> QED  BY <1>1, <1>3, <1>4, <1>5 DEF Joined

-----------------------------------------------------------------------------
(* The steps of the client are such moves.                                 *)

LEMMA RestartedIs ==
    ASSUME NEW i, InnerOK(i), NEW j, j = Restarted(i)
    PROVE  /\ InnerOK(j) /\ j.state = "Selecting" /\ j.xid = i.xid + 1
           /\ j.run = i.run /\ j.check = i.check /\ j.requested = i.requested
<1>1. PICK none : none = NoLease  OBVIOUS
<1>2. none.expiry \in Int  BY <1>1, ConstantsAre DEF NoLease
<1>3. j = [state |-> "Selecting", xid |-> i.xid + 1, ip |-> None, server |-> NoServer,
           lease |-> none, tries |-> 0, pending |-> none, check |-> i.check,
           live |-> i.live, requested |-> i.requested, announce |-> 0, run |-> i.run]
  BY <1>1 DEF Restarted, InnerOK
<1> QED  BY <1>2, <1>3 DEF InnerOK, States

LEMMA HaltedIs ==
    ASSUME NEW i, InnerOK(i), NEW j, j = Halted(i)
    PROVE  /\ InnerOK(j) /\ j.state = "Init" /\ j.xid = i.xid
           /\ j.run = i.run + 1 /\ j.check = i.check /\ j.requested = i.requested
<1>1. PICK none : none = NoLease  OBVIOUS
<1>2. none.expiry \in Int  BY <1>1, ConstantsAre DEF NoLease
<1>3. j = [state |-> "Init", xid |-> i.xid, ip |-> i.ip, server |-> i.server,
           lease |-> none, tries |-> i.tries, pending |-> none, check |-> i.check,
           live |-> i.live, requested |-> i.requested, announce |-> 0,
           run |-> i.run + 1]
  BY <1>1 DEF Halted, InnerOK
<1> QED  BY <1>2, <1>3 DEF InnerOK, States

LEMMA LeftByIs ==
    ASSUME NEW i, InnerOK(i)
    PROVE  \/ ~ Leased(i.state) /\ LeftBy(i) = <<>>
           \/ ~ Leased(i.state) /\ LeftBy(i) = <<Call(Always, "end_probe", i)>>
           \/ LeftBy(i) = <<Call(Always, "lost", i)>>
<1>1. i.state = "Probing" => ~ Leased(i.state)  BY DEF Leased
<1> QED  BY <1>1 DEF LeftBy

LEMMA StartMoves == ASSUME Typed, Start PROVE \E c : Moved(c)
<1>1. PICK i : i = [inner EXCEPT !.run = @ + 1]  OBVIOUS
<1>2. /\ InnerOK(i) /\ i.run = inner.run + 1 /\ i.xid = inner.xid
      /\ i.check = inner.check /\ i.requested = inner.requested
  BY <1>1 DEF Typed, InnerOK
<1>3. PICK j : j = Restarted(i)  OBVIOUS
<1>4. /\ InnerOK(j) /\ j.state = "Selecting" /\ j.xid = inner.xid + 1
      /\ j.run = inner.run + 1 /\ j.check = inner.check
      /\ j.requested = inner.requested
  BY <1>2, <1>3, RestartedIs
<1>5. PICK d : d = Call(j.run, "discover", j)  OBVIOUS
<1>6. /\ d \in CallSet /\ d.run = j.run /\ d.kind = "discover" /\ d.xid = j.xid
      /\ d.check = j.check
  BY <1>4, <1>5, CallIs DEF InnerOK, Kinds
<1>7. PICK c : c = LeftBy(inner) \o <<d>>  OBVIOUS
<1>8. /\ inner' = j /\ queue' = queue \o c
      /\ UNCHANGED <<clock, making, ticks, adapter, servers, replies, shown, scope>>
  BY <1>1, <1>3, <1>5, <1>7 DEF Start, Becomes
<1>9. inner.run \in Nat /\ inner.xid \in Nat /\ inner.check \in Nat /\ InnerOK(inner)
  BY DEF Typed, InnerOK
<1>10. CASE ~ Leased(inner.state) /\ LeftBy(inner) = <<>>
  <2>1. c = <<d>>  BY <1>7, <1>10
  <2>2. Follow(inner, j, c)
    BY <1>4, <1>6, <1>9, <1>10, <2>1 DEF Follow, Goes, Quits, CallOK
  <2> QED  BY <1>8, <2>2 DEF Moved
<1>11. ASSUME NEW kind \in {"end_probe", "lost"}, kind = "lost" \/ ~ Leased(inner.state),
              LeftBy(inner) = <<Call(Always, kind, inner)>>
       PROVE  \E e : Moved(e)
  <2>1. PICK l : l = Call(Always, kind, inner)  OBVIOUS
  <2>2. /\ l \in CallSet /\ l.run = 0 /\ l.kind = kind /\ l.xid = inner.xid
        /\ l.check = inner.check
    BY <1>9, <1>11, <2>1, CallIs DEF Kinds, Always
  <2>3. c = <<l, d>>  BY <1>7, <1>11, <2>1, OneAndOne
  <2>4. c \in Seq(CallSet) /\ DOMAIN c = {1, 2} /\ c[1] = l /\ c[2] = d
    BY <1>6, <2>2, <2>3
  <2>5. Quits(inner, j, c)  BY <1>4, <1>6, <1>9, <1>11, <2>2, <2>4 DEF Quits
  <2>6. Follow(inner, j, c)
    BY <1>4, <1>6, <1>9, <2>2, <2>4, <2>5 DEF Follow, Goes, CallOK, Always
  <2> QED  BY <1>8, <2>6 DEF Moved
<1> QED  BY <1>9, <1>10, <1>11, LeftByIs

LEMMA StopMoves == ASSUME Typed, Stop \/ Release PROVE \E c : Moved(c)
<1>1. PICK j : j = Halted(inner)  OBVIOUS
<1>2. inner.run \in Nat /\ inner.xid \in Nat /\ inner.check \in Nat /\ InnerOK(inner)
  BY DEF Typed, InnerOK
<1>3. /\ InnerOK(j) /\ j.state = "Init" /\ j.xid = inner.xid
      /\ j.run = inner.run + 1 /\ j.check = inner.check
      /\ j.requested = inner.requested
  BY <1>1, <1>2, HaltedIs
<1>4. PICK first : first \in {<<>>, <<Call(Always, "release", inner)>>} /\
                   queue' = queue \o (first \o LeftBy(inner)) /\ inner' = j /\
                   UNCHANGED <<clock, making, ticks, adapter, servers, replies, shown, scope>>
  <2>1. CASE Stop
    <3>1. LeftBy(inner) = <<>> \o LeftBy(inner)  BY <1>2, LeftByIs
    <3> QED  BY <1>1, <2>1, <3>1 DEF Stop, Becomes
  <2>2. CASE Release  BY <1>1, <2>2 DEF Release, Becomes
  <2> QED  BY <2>1, <2>2
<1>5. PICK c : c = first \o LeftBy(inner)  OBVIOUS
<1>6. ASSUME NEW l, NEW kind \in {"end_probe", "lost", "release"}, l = Call(Always, kind, inner)
      PROVE  /\ l \in CallSet /\ l.run = 0 /\ l.kind = kind /\ l.xid = inner.xid
             /\ l.check = inner.check
  BY <1>2, <1>6, CallIs DEF Kinds, Always
<1>7. \/ ~ Leased(inner.state) /\ c = <<>>
      \/ ~ Leased(inner.state) /\ c = <<Call(Always, "end_probe", inner)>>
      \/ c = <<Call(Always, "lost", inner)>>
      \/ ~ Leased(inner.state) /\ c = <<Call(Always, "release", inner)>>
      \/ ~ Leased(inner.state) /\ c = <<Call(Always, "release", inner), Call(Always, "end_probe", inner)>>
      \/ c = <<Call(Always, "release", inner), Call(Always, "lost", inner)>>
  <2>1. CASE first = <<>>  BY <1>2, <1>5, <2>1, LeftByIs
  <2>2. CASE first = <<Call(Always, "release", inner)>>
    <3>1. first \o <<>> = first  BY <2>2
    <3> QED  BY <1>2, <1>5, <2>2, <3>1, LeftByIs, OneAndOne
  <2> QED  BY <1>4, <2>1, <2>2
<1>8. CASE c = <<>> /\ ~ Leased(inner.state)
  <2>1. Follow(inner, j, c)  BY <1>2, <1>3, <1>8 DEF Follow, Goes, Quits
  <2> QED  BY <1>4, <1>5, <2>1 DEF Moved
<1>9. ASSUME NEW l, NEW kind \in {"end_probe", "lost", "release"},
             kind = "lost" \/ ~ Leased(inner.state),
             l = Call(Always, kind, inner), c = <<l>>
      PROVE  \E e : Moved(e)
  <2>1. c \in Seq(CallSet) /\ DOMAIN c = {1} /\ c[1] = l  BY <1>6, <1>9
  <2>2. Quits(inner, j, c)  BY <1>2, <1>3, <1>6, <1>9, <2>1 DEF Quits
  <2>3. Follow(inner, j, c)
    BY <1>2, <1>3, <1>6, <1>9, <2>1, <2>2 DEF Follow, Goes, CallOK, Always
  <2> QED  BY <1>4, <1>5, <2>3 DEF Moved
<1>10. ASSUME NEW r, NEW l, NEW kind \in {"end_probe", "lost"},
              kind = "lost" \/ ~ Leased(inner.state), r = Call(Always, "release", inner),
              l = Call(Always, kind, inner), c = <<r, l>>
      PROVE  \E e : Moved(e)
  <2>1. c \in Seq(CallSet) /\ DOMAIN c = {1, 2} /\ c[1] = r /\ c[2] = l  BY <1>6, <1>10
  <2>2. Quits(inner, j, c)  BY <1>2, <1>3, <1>6, <1>10, <2>1 DEF Quits
  <2>3. Follow(inner, j, c)
    BY <1>2, <1>3, <1>6, <1>10, <2>1, <2>2 DEF Follow, Goes, CallOK, Always
  <2> QED  BY <1>4, <1>5, <2>3 DEF Moved
<1> QED  BY <1>7, <1>8, <1>9, <1>10

(* One call, made of the state j.                                          *)
LEMMA OneCall ==
    ASSUME NEW j, InnerOK(j), NEW kind \in Kinds, NEW c, c = Calls(j, <<kind>>)
    PROVE  /\ c \in Seq(CallSet) /\ DOMAIN c = {1} /\ c = <<c[1]>>
           /\ c[1].kind = kind /\ c[1].ip = j.ip /\ c[1].xid = j.xid
           /\ c[1].check = j.check
           /\ c[1].run = IF kind \in {"lost", "decline"} THEN Always ELSE j.run
           /\ CallOK(j, c[1])
<1>1. PICK a : a = Call(OfRun(j, kind), kind, j)  OBVIOUS
<1>2. c = <<a>>  BY <1>1, CallsOne
<1>3. c[1] = a /\ DOMAIN c = {1}  BY <1>2
<1>4. PICK run : run = OfRun(j, kind)  OBVIOUS
<1>5. run \in Nat /\ run = IF kind \in {"lost", "decline"} THEN Always ELSE j.run
  BY <1>4 DEF OfRun, Always, InnerOK
<1>6. /\ a \in CallSet /\ a.run = run /\ a.kind = kind /\ a.ip = j.ip
      /\ a.xid = j.xid /\ a.check = j.check
  BY <1>1, <1>4, <1>5, CallIs
<1>7. CallOK(j, a)  BY <1>5, <1>6 DEF CallOK, InnerOK, Always
<1>8. c \in Seq(CallSet)
  <2>1. a \in CallSet  BY <1>6
  <2>2. <<a>> \in Seq(CallSet)  BY <2>1
  <2> QED  BY <1>2, <2>2
<1> QED  BY <1>2, <1>3, <1>5, <1>6, <1>7, <1>8

(* A call made of the state i before it became j.                          *)
LEMMA CallLater ==
    ASSUME NEW i, InnerOK(i), NEW j, InnerOK(j), NEW c, CallOK(i, c),
           i.run <= j.run, i.xid <= j.xid, i.check <= j.check
    PROVE  CallOK(j, c)
BY DEF CallOK, CallSet, InnerOK

LEMMA OfferMoves ==
    ASSUME Typed, NEW r \in Replies, r \in replies, r.xid = inner.xid, TakeOffer(r),
           UNCHANGED <<clock, making, ticks, adapter, servers, replies, shown, scope>>
    PROVE  \E c : Moved(c)
<1>1. PICK j : j = [inner EXCEPT !.requested = clock, !.ip = r.ip, !.server = r.server,
                                 !.state = "Requesting", !.tries = 0]
  OBVIOUS
<1>2. r.ip \in Addrs \cup {None} /\ r.server \in Servers \cup {NoServer}
  BY DEF Replies, IdOf
<1>3. InnerOK(inner) /\ clock \in Nat  BY DEF Typed
<1>4. j = [state |-> "Requesting", xid |-> inner.xid, ip |-> r.ip, server |-> r.server,
           lease |-> inner.lease, tries |-> 0, pending |-> inner.pending,
           check |-> inner.check, live |-> inner.live, requested |-> clock,
           announce |-> inner.announce, run |-> inner.run]
  BY <1>1, <1>3 DEF InnerOK
<1>5. InnerOK(j)  BY <1>2, <1>3, <1>4 DEF InnerOK, States
<1>6. PICK c : c = Calls(j, <<"select">>)  OBVIOUS
<1>7. inner' = j /\ queue' = queue \o c /\ inner.state = "Selecting"
  BY <1>1, <1>6 DEF TakeOffer, Becomes
<1>8. /\ c \in Seq(CallSet) /\ DOMAIN c = {1} /\ c[1].kind = "select"
      /\ c[1].ip = j.ip /\ c[1].xid = j.xid /\ CallOK(j, c[1])
  BY <1>5, <1>6, OneCall DEF Kinds
<1>9. TakesOffer(inner, j, c)  BY <1>4, <1>7, <1>8 DEF TakesOffer
<1>10. Follow(inner, j, c)
  BY <1>3, <1>4, <1>5, <1>8, <1>9 DEF Follow, Goes, InnerOK
<1> QED  BY <1>7, <1>10 DEF Moved

LEMMA AckMoves ==
    ASSUME Typed, NEW r \in Replies, r \in replies, r.xid = inner.xid, TakeAck(r),
           UNCHANGED <<clock, making, ticks, adapter, servers, replies, shown, scope>>
    PROVE  \E c : Moved(c)
<1>1. PICK i : i = [inner EXCEPT !.ip = r.ip,
                        !.server = IF r.server = NoServer THEN @ ELSE r.server]
  OBVIOUS
<1>2. r.ip \in Addrs \cup {None} /\ r.server \in Servers \cup {NoServer}
  BY DEF Replies, IdOf
<1>3. InnerOK(inner) /\ clock \in Nat /\ LEASE \in Nat  BY ConstantsAre DEF Typed
<1>4. PICK server : server = IF r.server = NoServer THEN inner.server ELSE r.server
  OBVIOUS
<1>5. i = [state |-> inner.state, xid |-> inner.xid, ip |-> r.ip, server |-> server,
           lease |-> inner.lease, tries |-> inner.tries, pending |-> inner.pending,
           check |-> inner.check, live |-> inner.live, requested |-> inner.requested,
           announce |-> inner.announce, run |-> inner.run]
  BY <1>1, <1>3, <1>4 DEF InnerOK
<1>6. server \in Servers \cup {NoServer}  BY <1>2, <1>3, <1>4 DEF InnerOK
<1>7. InnerOK(i)  BY <1>2, <1>3, <1>5, <1>6 DEF InnerOK
<1>8. PICK lease : lease = LeaseFrom(inner, LEASE)  OBVIOUS
<1>9. lease.expiry = inner.requested + LEASE /\ lease.expiry \in Int
  BY <1>3, <1>8 DEF LeaseFrom, InnerOK
<1>10. AckOf(inner, r)  BY DEF TakeAck, AckOf
<1>11. PICK none : none = NoLease  OBVIOUS
<1>12. none.expiry \in Int  BY <1>11, ConstantsAre DEF NoLease
<1>13. CASE inner.state = "Requesting"
  <2>1. PICK j : j = [i EXCEPT !.state = "Probing", !.pending = lease, !.tries = 1,
                               !.check = @ + 1, !.live = FALSE]
    OBVIOUS
  <2>2. j = [state |-> "Probing", xid |-> inner.xid, ip |-> r.ip, server |-> server,
             lease |-> inner.lease, tries |-> 1, pending |-> lease,
             check |-> inner.check + 1, live |-> FALSE, requested |-> inner.requested,
             announce |-> inner.announce, run |-> inner.run]
    BY <1>5, <2>1
  <2>3. InnerOK(j)  BY <1>2, <1>3, <1>6, <1>9, <2>2 DEF InnerOK, States
  <2>4. PICK c : c = Calls(j, <<"first_probe">>)  OBVIOUS
  <2>5. inner' = j /\ queue' = queue \o c
    BY <1>1, <1>8, <1>13, <2>1, <2>4 DEF TakeAck, Becomes
  <2>6. /\ c \in Seq(CallSet) /\ DOMAIN c = {1} /\ c[1].kind = "first_probe"
        /\ c[1].ip = j.ip /\ c[1].xid = j.xid /\ c[1].check = j.check
        /\ c[1].run = j.run /\ CallOK(j, c[1])
    BY <2>3, <2>4, OneCall DEF Kinds
  <2>7. Checks(inner, j, c)
    BY <1>9, <1>10, <1>13, <2>2, <2>6 DEF Checks, Begins
  <2>8. Follow(inner, j, c)
    BY <1>3, <2>2, <2>3, <2>6, <2>7 DEF Follow, Goes, InnerOK
  <2> QED  BY <2>5, <2>8 DEF Moved
<1>14. CASE inner.state # "Requesting"
  <2>1. PICK j : j = Bound(i, lease)  OBVIOUS
  <2>2. j = [state |-> "Bound", xid |-> inner.xid, ip |-> r.ip, server |-> server,
             lease |-> lease, tries |-> inner.tries, pending |-> none,
             check |-> inner.check, live |-> inner.live, requested |-> inner.requested,
             announce |-> 0, run |-> inner.run]
    BY <1>5, <1>11, <2>1 DEF Bound
  <2>3. InnerOK(j)  BY <1>2, <1>3, <1>6, <1>9, <1>12, <2>2 DEF InnerOK, States
  <2>4. PICK c : c = Calls(i, <<"bound">>)  OBVIOUS
  <2>5. /\ inner' = j /\ queue' = queue \o c
        /\ inner.state \in {"Requesting", "Renewing", "Rebinding"}
    BY <1>1, <1>8, <1>14, <2>1, <2>4 DEF TakeAck, Becomes
  <2>6. /\ c \in Seq(CallSet) /\ DOMAIN c = {1} /\ c[1].kind = "bound"
        /\ c[1].ip = i.ip /\ c[1].xid = i.xid
        /\ c[1].run = i.run /\ CallOK(i, c[1])
    BY <1>7, <2>4, OneCall DEF Kinds
  <2>7. TakesAck(inner, j, c)
    BY <1>5, <1>9, <1>10, <1>14, <2>2, <2>5, <2>6 DEF TakesAck
  <2>8. CallOK(j, c[1])
    <3>1. i.run <= j.run /\ i.xid <= j.xid /\ i.check <= j.check
      BY <1>3, <1>5, <2>2 DEF InnerOK
    <3> QED  BY <1>7, <2>3, <2>6, <3>1, CallLater
  <2>9. Follow(inner, j, c)
    <3>1. inner.run <= j.run /\ inner.xid <= j.xid /\ inner.check <= j.check
      BY <1>3, <2>2 DEF InnerOK
    <3>2. Goes(inner, j, c)  BY <2>7 DEF Goes
    <3>3. \A n \in DOMAIN c : CallOK(j, c[n])  BY <2>6, <2>8
    <3> QED  BY <2>3, <2>6, <3>1, <3>2, <3>3 DEF Follow
  <2> QED  BY <2>5, <2>9 DEF Moved
<1> QED  BY <1>13, <1>14

(* Starting over, with the loss of a lease told or not, and a DISCOVER.    *)
LEMMA RestartMoves ==
    ASSUME Typed, NEW first, NEW last,
           \/ first = <<>> /\ ~ Leased(inner.state)
           \/ first = Calls(inner, <<"lost">>),
           last = Calls(Restarted(inner), <<"discover">>),
           inner' = Restarted(inner), queue' = queue \o (first \o last),
           UNCHANGED <<clock, making, adapter, servers, replies, shown, scope>>,
           ticks' = ticks \/ \E t \in Tickers : ticks' = [ticks EXCEPT ![t] = Idle]
    PROVE  \E c : Moved(c)
<1>1. InnerOK(inner)  BY DEF Typed
<1>2. PICK j : j = Restarted(inner)  OBVIOUS
<1>3. /\ InnerOK(j) /\ j.state = "Selecting" /\ j.xid = inner.xid + 1
      /\ j.run = inner.run /\ j.check = inner.check /\ j.requested = inner.requested
  BY <1>1, <1>2, RestartedIs
<1>4. /\ last \in Seq(CallSet) /\ DOMAIN last = {1} /\ last = <<last[1]>>
      /\ last[1].kind = "discover" /\ last[1].xid = j.xid /\ CallOK(j, last[1])
  BY <1>2, <1>3, OneCall DEF Kinds
<1>5. PICK c : c = first \o last  OBVIOUS
<1>6. CASE first = <<>> /\ ~ Leased(inner.state)
  <2>1. c = last  BY <1>4, <1>5, <1>6
  <2>2. Quits(inner, j, c)  BY <1>1, <1>3, <1>4, <1>6, <2>1 DEF Quits, InnerOK
  <2>3. Follow(inner, j, c)  BY <1>1, <1>3, <1>4, <2>1, <2>2 DEF Follow, Goes, InnerOK
  <2> QED  BY <1>2, <1>5, <2>3 DEF Moved
<1>7. CASE first = Calls(inner, <<"lost">>)
  <2>1. /\ first \in Seq(CallSet) /\ DOMAIN first = {1} /\ first = <<first[1]>>
        /\ first[1].kind = "lost" /\ first[1].xid = inner.xid /\ CallOK(inner, first[1])
    BY <1>1, <1>7, OneCall DEF Kinds
  <2>2. PICK a : a = first[1]  OBVIOUS
  <2>3. PICK b : b = last[1]  OBVIOUS
  <2>4. c = <<a, b>>
    <3>1. first = <<a>> /\ last = <<b>>  BY <1>4, <2>1, <2>2, <2>3
    <3> QED  BY <1>5, <3>1, OneAndOne
  <2>5. /\ a \in CallSet /\ a.kind = "lost" /\ a.xid = inner.xid /\ CallOK(j, a)
        /\ b \in CallSet /\ b.kind = "discover" /\ b.xid = j.xid /\ CallOK(j, b)
    <3>1. inner.run <= j.run /\ inner.xid <= j.xid /\ inner.check <= j.check
      BY <1>1, <1>3 DEF InnerOK
    <3>2. CallOK(j, a)  BY <1>1, <1>3, <2>1, <2>2, <3>1, CallLater
    <3> QED  BY <1>4, <2>1, <2>2, <2>3, <3>2 DEF CallOK
  <2>6. c \in Seq(CallSet) /\ DOMAIN c = {1, 2} /\ c[1] = a /\ c[2] = b
    BY <2>4, <2>5
  <2>7. Quits(inner, j, c)  BY <1>1, <1>3, <2>5, <2>6 DEF Quits, InnerOK
  <2>8. Follow(inner, j, c)  BY <1>1, <1>3, <2>5, <2>6, <2>7 DEF Follow, Goes, InnerOK
  <2> QED  BY <1>2, <1>5, <2>8 DEF Moved
<1> QED  BY <1>6, <1>7

LEMMA NakMoves ==
    ASSUME Typed, NEW r \in Replies, TakeNak(r),
           UNCHANGED <<clock, making, ticks, adapter, servers, replies, shown, scope>>
    PROVE  \E c : Moved(c)
<1>1. PICK first : first = IF inner.state = "Requesting" THEN <<>>
                           ELSE Calls(inner, <<"lost">>)
  OBVIOUS
<1>2. PICK last : last = Calls(Restarted(inner), <<"discover">>)  OBVIOUS
<1>3. inner' = Restarted(inner) /\ queue' = queue \o (first \o last)
  BY <1>1, <1>2 DEF TakeNak, Becomes
<1>4. \/ first = <<>> /\ ~ Leased(inner.state)
      \/ first = Calls(inner, <<"lost">>)
  BY <1>1 DEF Leased
<1> QED  BY <1>2, <1>3, <1>4, RestartMoves

(* The rest are steps of a tick, with the lock held.                       *)
TickEnds(t) ==
    /\ t \in Tickers /\ ticks[t].pc = "step"
    /\ ticks' = [ticks EXCEPT ![t] = Idle]
    /\ UNCHANGED <<clock, making, adapter, servers, replies, shown, scope>>

LEMMA ConflictMoves ==
    ASSUME Typed, NEW t, TickEnds(t), Conflicted(ticks[t].check), StepConflict
    PROVE  \E c : Moved(c)
<1>1. InnerOK(inner)  BY DEF Typed
<1>2. PICK j : j = Restarted(inner)  OBVIOUS
<1>3. /\ InnerOK(j) /\ j.state = "Selecting" /\ j.xid = inner.xid + 1
      /\ j.run = inner.run /\ j.check = inner.check /\ j.requested = inner.requested
  BY <1>1, <1>2, RestartedIs
<1>4. PICK c : c = Calls(inner, <<"decline">>)  OBVIOUS
<1>5. /\ c \in Seq(CallSet) /\ DOMAIN c = {1} /\ c[1].kind = "decline"
      /\ c[1].xid = inner.xid /\ c[1].check = inner.check /\ CallOK(inner, c[1])
  BY <1>1, <1>4, OneCall DEF Kinds
<1>6. inner.run <= j.run /\ inner.xid <= j.xid /\ inner.check <= j.check
  BY <1>1, <1>3 DEF InnerOK
<1>7. CallOK(j, c[1])  BY <1>1, <1>3, <1>5, <1>6, CallLater
<1>8. ~ Leased(inner.state)  BY DEF Conflicted, Leased
<1>9. Quits(inner, j, c)
  <2>1. \E u \in Tickers : ticks[u].pc = "step" /\ Conflicted(ticks[u].check)
    BY DEF TickEnds
  <2>2. inner.run \in Nat /\ inner.xid \in Nat  BY <1>1 DEF InnerOK
  <2> QED  BY <1>3, <1>5, <1>8, <2>1, <2>2 DEF Quits
<1>10. Follow(inner, j, c)  BY <1>3, <1>5, <1>6, <1>7, <1>9 DEF Follow, Goes
<1>11. inner' = j /\ queue' = queue \o c  BY <1>2, <1>4 DEF StepConflict, Becomes
<1> QED  BY <1>10, <1>11 DEF Moved, TickEnds

Retried(i, state, tries, announce) ==
    [i EXCEPT !.state = state, !.tries = tries, !.announce = announce]

(* A step that changes nothing but the counts of tries and announcements.  *)
LEMMA SameMoves ==
    ASSUME Typed, NEW t, TickEnds(t), NEW j, NEW tries, NEW announce,
           NEW state \in States,
           state = inner.state \/ (inner.state = "Renewing" /\ state = "Rebinding"),
           j = Retried(inner, state, tries, announce),
           NEW kind \in {"probe", "announce", "discover"} \cup Asking,
           kind \in Asking => state \notin {"Init", "Selecting"},
           inner' = j, queue' = queue \o Calls(j, <<kind>>)
    PROVE  \E c : Moved(c)
<1>1. InnerOK(inner)  BY DEF Typed
<1>2. j = [state |-> state, xid |-> inner.xid, ip |-> inner.ip,
           server |-> inner.server, lease |-> inner.lease, tries |-> tries,
           pending |-> inner.pending, check |-> inner.check, live |-> inner.live,
           requested |-> inner.requested, announce |-> announce, run |-> inner.run]
  BY <1>1 DEF InnerOK, Retried
<1>3. InnerOK(j)  BY <1>1, <1>2 DEF InnerOK
<1>4. PICK c : c = Calls(j, <<kind>>)  OBVIOUS
<1>5. kind \in Kinds  BY DEF Kinds, Asking
<1>6. /\ c \in Seq(CallSet) /\ DOMAIN c = {1} /\ c[1].kind = kind
      /\ c[1].xid = j.xid /\ c[1].ip = j.ip /\ CallOK(j, c[1])
  BY <1>3, <1>4, <1>5, OneCall
<1>7. GoesOn(inner, j, c)  BY <1>2, <1>6 DEF GoesOn, Asked
<1>8. Follow(inner, j, c)  BY <1>1, <1>2, <1>3, <1>6, <1>7 DEF Follow, Goes, InnerOK
<1> QED  BY <1>4, <1>8 DEF Moved, TickEnds

LEMMA ProbingMoves == ASSUME Typed, NEW t, TickEnds(t), StepProbing PROVE \E c : Moved(c)
<1>1. InnerOK(inner) /\ inner.state = "Probing"  BY DEF Typed, StepProbing
<1>2. PICK more : more = [inner EXCEPT !.tries = @ + 1]  OBVIOUS
<1>3. more = [inner EXCEPT !.state = "Probing", !.tries = inner.tries + 1,
                           !.announce = inner.announce]
  BY <1>1, <1>2 DEF InnerOK
<1>4. PICK j : j = [Bound(inner, inner.pending) EXCEPT !.announce = ANNOUNCE_NUM - 1]
  OBVIOUS
<1>5. CASE inner' = more /\ queue' = queue \o Calls(more, <<"probe">>)
  BY <1>1, <1>3, <1>5, SameMoves DEF States, Asking, Retried
<1>6. CASE inner' = j /\ queue' = queue \o Calls(j, <<"bound", "announce">>)
  <2>1. PICK none : none = NoLease  OBVIOUS
  <2>2. none.expiry \in Int  BY <2>1, ConstantsAre DEF NoLease
  <2>3. j = [state |-> "Bound", xid |-> inner.xid, ip |-> inner.ip,
             server |-> inner.server, lease |-> inner.pending, tries |-> inner.tries,
             pending |-> none, check |-> inner.check, live |-> inner.live,
             requested |-> inner.requested, announce |-> ANNOUNCE_NUM - 1,
             run |-> inner.run]
    BY <1>1, <1>4, <2>1 DEF InnerOK, Bound
  <2>4. InnerOK(j)  BY <1>1, <2>2, <2>3 DEF InnerOK, States
  <2>5. PICK a : a = Call(OfRun(j, "bound"), "bound", j)  OBVIOUS
  <2>6. PICK b : b = Call(OfRun(j, "announce"), "announce", j)  OBVIOUS
  <2>7. OfRun(j, "bound") = j.run /\ OfRun(j, "announce") = j.run /\ j.run \in Nat
    BY <2>4 DEF OfRun, InnerOK
  <2>8. /\ a \in CallSet /\ a.run = j.run /\ a.kind = "bound" /\ a.ip = j.ip
        /\ a.xid = j.xid /\ a.check = j.check
    BY <2>4, <2>5, <2>7, CallIs DEF Kinds
  <2>9. /\ b \in CallSet /\ b.run = j.run /\ b.kind = "announce" /\ b.ip = j.ip
        /\ b.xid = j.xid /\ b.check = j.check
    BY <2>4, <2>6, <2>7, CallIs DEF Kinds
  <2>10. PICK c : c = <<a, b>>  OBVIOUS
  <2>11. Calls(j, <<"bound", "announce">>) = c  BY <2>5, <2>6, <2>10, CallsTwo
  <2>12. c \in Seq(CallSet) /\ DOMAIN c = {1, 2} /\ c[1] = a /\ c[2] = b
    BY <2>8, <2>9, <2>10
  <2>13. CallOK(j, a) /\ CallOK(j, b)  BY <2>4, <2>8, <2>9 DEF CallOK, InnerOK
  <2>14. Binds(inner, j, c)  BY <1>1, <2>3, <2>8, <2>9, <2>12 DEF Binds
  <2>15. Follow(inner, j, c)
    BY <1>1, <2>3, <2>4, <2>12, <2>13, <2>14 DEF Follow, Goes, InnerOK
  <2> QED  BY <1>6, <2>11, <2>15 DEF Moved, TickEnds
<1> QED  BY <1>2, <1>4, <1>5, <1>6 DEF StepProbing, Becomes

LEMMA SelectingMoves ==
    ASSUME Typed, NEW t, TickEnds(t), StepSelecting PROVE \E c : Moved(c)
<1>1. InnerOK(inner) /\ inner.state = "Selecting"  BY DEF Typed, StepSelecting
<1>2. inner = [inner EXCEPT !.state = "Selecting", !.tries = inner.tries,
                            !.announce = inner.announce]
  BY <1>1 DEF InnerOK
<1>3. inner' = inner /\ queue' = queue \o Calls(inner, <<"discover">>)
  BY DEF StepSelecting, Becomes
<1> QED  BY <1>1, <1>2, <1>3, SameMoves DEF States, Asking, Retried

LEMMA RequestingMoves ==
    ASSUME Typed, NEW t, TickEnds(t), StepRequesting PROVE \E c : Moved(c)
<1>1. InnerOK(inner) /\ inner.state = "Requesting"  BY DEF Typed, StepRequesting
<1>2. PICK again : again = [inner EXCEPT !.tries = @ + 1]  OBVIOUS
<1>3. again = [inner EXCEPT !.state = "Requesting", !.tries = inner.tries + 1,
                            !.announce = inner.announce]
  BY <1>1, <1>2 DEF InnerOK
<1>4. PICK last : last = Calls(Restarted(inner), <<"discover">>)  OBVIOUS
<1>5. CASE inner' = again /\ queue' = queue \o Calls(again, <<"select">>)
  BY <1>1, <1>3, <1>5, SameMoves DEF States, Asking, Retried
<1>6. CASE inner' = Restarted(inner) /\ queue' = queue \o last
  <2>1. InnerOK(Restarted(inner))  BY <1>1, RestartedIs
  <2>2. last \in Seq(CallSet)  BY <1>4, <2>1, OneCall DEF Kinds
  <2>3. <<>> \o last = last  BY <2>2
  <2>4. ~ Leased(inner.state)  BY <1>1 DEF Leased
  <2> QED  BY <1>4, <1>6, <2>3, <2>4, RestartMoves DEF TickEnds
<1> QED  BY <1>2, <1>4, <1>5, <1>6 DEF StepRequesting, Becomes

LEMMA AnnounceMoves ==
    ASSUME Typed, NEW t, TickEnds(t), StepAnnounce PROVE \E c : Moved(c)
<1>1. InnerOK(inner)  BY DEF Typed
<1>2. PICK i : i = [inner EXCEPT !.announce = @ - 1]  OBVIOUS
<1>3. i = [inner EXCEPT !.state = inner.state, !.tries = inner.tries,
                        !.announce = inner.announce - 1]
  BY <1>1, <1>2 DEF InnerOK
<1>4. inner' = i /\ queue' = queue \o Calls(i, <<"announce">>)
  BY <1>2 DEF StepAnnounce, Becomes
<1> QED  BY <1>1, <1>3, <1>4, SameMoves DEF InnerOK, Asking, Retried

LEMMA ExpiredMoves ==
    ASSUME Typed, NEW t, TickEnds(t), NEW now, StepExpired(now) PROVE \E c : Moved(c)
<1>1. PICK first : first = Calls(inner, <<"lost">>)  OBVIOUS
<1>2. PICK last : last = Calls(Restarted(inner), <<"discover">>)  OBVIOUS
<1>3. inner' = Restarted(inner) /\ queue' = queue \o (first \o last)
  BY <1>1, <1>2 DEF StepExpired, Becomes
<1> QED  BY <1>1, <1>2, <1>3, RestartMoves DEF TickEnds

LEMMA RenewMoves ==
    ASSUME Typed, NEW t, TickEnds(t), ticks[t].now \in Nat,
           StepRebind(ticks[t].now) \/ StepRenew(ticks[t].now)
    PROVE  \E c : Moved(c)
<1>1. InnerOK(inner)  BY DEF Typed
<1>2. PICK now : now = ticks[t].now  OBVIOUS
<1>3. PICK state, kind :
          /\ \/ state = "Rebinding" /\ kind = "rebind" /\ Leased(inner.state)
             \/ state = "Renewing" /\ kind = "renew" /\ inner.state \in {"Bound", "Renewing"}
          /\ inner' = [Anew(inner, now) EXCEPT !.state = state]
          /\ queue' = queue \o Calls(inner', <<kind>>)
  BY <1>2 DEF StepRebind, StepRenew, Becomes
<1>4. PICK j : j = [Anew(inner, now) EXCEPT !.state = state]  OBVIOUS
<1>5. CASE inner.state = "Bound"
  <2>1. j = [state |-> state, xid |-> inner.xid + 1, ip |-> inner.ip,
             server |-> inner.server, lease |-> inner.lease, tries |-> inner.tries,
             pending |-> inner.pending, check |-> inner.check, live |-> inner.live,
             requested |-> now, announce |-> inner.announce, run |-> inner.run]
    <3>1. PICK i : i = [inner EXCEPT !.xid = @ + 1, !.requested = now]  OBVIOUS
    <3>2. i = [state |-> inner.state, xid |-> inner.xid + 1, ip |-> inner.ip,
               server |-> inner.server, lease |-> inner.lease, tries |-> inner.tries,
               pending |-> inner.pending, check |-> inner.check, live |-> inner.live,
               requested |-> now, announce |-> inner.announce, run |-> inner.run]
      BY <1>1, <3>1 DEF InnerOK
    <3>3. j = [i EXCEPT !.state = state]  BY <1>4, <1>5, <3>1 DEF Anew
    <3> QED  BY <3>2, <3>3
  <2>2. InnerOK(j)
    <3>1. state \in States  BY <1>3 DEF States
    <3> QED  BY <1>1, <1>2, <2>1, <3>1 DEF InnerOK
  <2>3. PICK c : c = Calls(j, <<kind>>)  OBVIOUS
  <2>4. kind \in Kinds /\ kind \in {"renew", "rebind"}  BY <1>3 DEF Kinds
  <2>5. /\ c \in Seq(CallSet) /\ DOMAIN c = {1} /\ c[1].kind = kind
        /\ c[1].xid = j.xid /\ c[1].ip = j.ip /\ CallOK(j, c[1])
    BY <2>2, <2>3, <2>4, OneCall
  <2>6. ticks[t] # Idle  BY DEF TickEnds, Idle
  <2>7. Renews(inner, j, c)
    BY <1>2, <1>3, <1>5, <2>1, <2>4, <2>5, <2>6 DEF Renews, TickEnds
  <2>8. Follow(inner, j, c)  BY <1>1, <2>1, <2>2, <2>5, <2>7 DEF Follow, Goes, InnerOK
  <2> QED  BY <1>3, <1>4, <2>3, <2>8 DEF Moved, TickEnds
<1>6. CASE inner.state # "Bound"
  <2>1. j = [inner EXCEPT !.state = state, !.tries = inner.tries,
                          !.announce = inner.announce]
    BY <1>1, <1>4, <1>6 DEF Anew, InnerOK
  <2>2. /\ state \in States /\ kind \in Asking
        /\ state = inner.state \/ (inner.state = "Renewing" /\ state = "Rebinding")
        /\ state \notin {"Init", "Selecting"}
    BY <1>3, <1>6 DEF States, Asking, Leased
  <2>3. j = Retried(inner, state, inner.tries, inner.announce)  BY <2>1 DEF Retried
  <2>4. inner' = j /\ queue' = queue \o Calls(j, <<kind>>)  BY <1>3, <1>4
  <2>5. kind \in {"probe", "announce", "discover"} \cup Asking  BY <2>2
  <2> QED  BY <2>2, <2>3, <2>4, <2>5, SameMoves
<1> QED  BY <1>5, <1>6

LEMMA IdleMoves ==
    ASSUME Typed, NEW t, TickEnds(t), UNCHANGED <<inner, queue>> PROVE Moved(<<>>)
<1>1. queue' = queue \o <<>>  BY DEF Typed
<1>2. InnerOK(inner) /\ inner' = inner  BY DEF Typed
<1>3. PICK c : c = <<>>  OBVIOUS
<1>4. c \in Seq(CallSet) /\ DOMAIN c = {}  BY <1>3
<1>5. GoesOn(inner, inner, c)  BY <1>4 DEF GoesOn
<1>6. Follow(inner, inner', c)  BY <1>2, <1>4, <1>5 DEF Follow, Goes, InnerOK
<1> QED  BY <1>1, <1>3, <1>6 DEF Moved, TickEnds

OwnStep ==
    \/ Start \/ Stop \/ Release
    \/ \E r \in Replies : HandleReply(r)
    \/ \E t \in Tickers : TickStep(t)

LEMMA ClientMoves ==
    ASSUME Typed, OwnStep PROVE \E c : Moved(c)
<1>1. ASSUME NEW r \in Replies, HandleReply(r) PROVE \E c : Moved(c)
  BY <1>1, OfferMoves, AckMoves, NakMoves DEF HandleReply
<1>2. ASSUME NEW t \in Tickers, TickStep(t) PROVE \E c : Moved(c)
  <2>1. TickEnds(t)  BY <1>2 DEF TickStep, TickEnds
  <2>2. ticks[t].now \in Nat
    <3>1. ticks[t] # Idle  BY <2>1 DEF TickEnds, Idle
    <3> QED  BY <3>1 DEF Typed
  <2> QED
    BY <1>2, <2>1, <2>2, ConflictMoves, ProbingMoves, SelectingMoves, RequestingMoves,
       AnnounceMoves, ExpiredMoves, RenewMoves, IdleMoves DEF TickStep
<1> QED  BY <1>1, <1>2, StartMoves, StopMoves DEF OwnStep

-----------------------------------------------------------------------------
(* Types.                                                                  *)

LEMMA TailIs ==
    ASSUME NEW S, NEW q \in Seq(S), q # <<>>
    PROVE  /\ Tail(q) \in Seq(S) /\ 1 \in DOMAIN q /\ Head(q) = q[1] /\ Head(q) \in S
           /\ \A n \in DOMAIN Tail(q) :
                n \in Nat /\ n + 1 \in DOMAIN q /\ Tail(q)[n] = q[n + 1]
           /\ \A n \in DOMAIN q :
                n = 1 \/ (n \in Nat /\ 1 < n /\ n - 1 \in DOMAIN Tail(q)
                            /\ Tail(q)[n - 1] = q[n])
<1>1. /\ Tail(q) \in Seq(S) /\ Len(Tail(q)) = Len(q) - 1 /\ Len(q) \in Nat /\ Len(q) # 0
      /\ DOMAIN q = 1 .. Len(q) /\ DOMAIN Tail(q) = 1 .. Len(Tail(q)) /\ Head(q) = q[1]
      /\ Head(q) \in S
  OBVIOUS
<1>2. \A n \in 1 .. Len(q) - 1 : Tail(q)[n] = q[n + 1]  OBVIOUS
<1>3. ASSUME NEW n \in DOMAIN q, n # 1
      PROVE  n \in Nat /\ 1 < n /\ n - 1 \in DOMAIN Tail(q) /\ Tail(q)[n - 1] = q[n]
  <2>1. n \in Nat /\ 1 < n /\ n - 1 \in 1 .. Len(q) - 1 /\ (n - 1) + 1 = n  BY <1>1, <1>3
  <2> QED  BY <1>1, <1>2, <2>1
<1>4. \A n \in DOMAIN Tail(q) :
          n \in Nat /\ n + 1 \in DOMAIN q /\ Tail(q)[n] = q[n + 1]
  BY <1>1, <1>2
<1> QED  BY <1>1, <1>3, <1>4

MakingOK(i, mk) ==
    \/ mk = NoCall
    \/ /\ mk = [stage |-> mk.stage, call |-> mk.call]
       /\ mk.stage \in {"make", "begun"}
       /\ mk.stage = "begun" => mk.call.kind = "first_probe"
       /\ CallOK(i, mk.call)

LEMMA TypedInit == Init => Typed
<1> SUFFICES ASSUME Init PROVE Typed  OBVIOUS
<1>1. PICK none : none = NoLease  OBVIOUS
<1>2. none.expiry \in Int  BY <1>1, ConstantsAre DEF NoLease
<1>3. inner = [state |-> "Init", xid |-> 0, ip |-> None, server |-> NoServer,
               lease |-> none, tries |-> 0, pending |-> none, check |-> 0,
               live |-> FALSE, requested |-> None, announce |-> 0, run |-> 0]
  BY <1>1 DEF Init
<1>4. InnerOK(inner)  BY <1>2, <1>3, ConstantsAre DEF InnerOK, States
<1>5. queue = <<>> /\ queue \in Seq(CallSet) /\ DOMAIN queue = {}  BY DEF Init
<1>6. adapter = [ip |-> None, probe |-> [ip |-> None, conflict |-> FALSE]]
  BY DEF Init, NoProbe
<1> QED  BY <1>4, <1>5, <1>6 DEF Init, Typed

(* A move keeps what is known of the calls.                                *)
LEMMA CallsKept ==
    ASSUME Typed, NEW c, Moved(c)
    PROVE  /\ queue' \in Seq(CallSet)
           /\ \A n \in DOMAIN queue' : CallOK(inner', queue'[n])
           /\ MakingOK(inner', making)
<1>1. c \in Seq(CallSet) /\ queue \in Seq(CallSet)  BY DEF Moved, Follow, Typed
<1>2. PICK q : q = queue \o c /\ q = queue'  BY DEF Moved
<1>3. InnerOK(inner) /\ InnerOK(inner')  BY DEF Moved, Follow, Typed
<1>4. inner.run <= inner'.run /\ inner.xid <= inner'.xid /\ inner.check <= inner'.check
  BY DEF Moved, Follow
<1>5. ASSUME NEW d, CallOK(inner, d) PROVE CallOK(inner', d)
  BY <1>3, <1>4, <1>5, CallLater
<1>6. queue \o c \in Seq(CallSet) /\ Joined(queue, c, queue \o c)  BY <1>1, Together
<1>7. ASSUME NEW n \in DOMAIN q PROVE CallOK(inner', q[n])
  <2>1. CASE n \in DOMAIN queue /\ q[n] = queue[n]  BY <1>5, <2>1 DEF Typed
  <2>2. CASE \E m \in DOMAIN c : q[n] = c[m]  BY <2>2 DEF Moved, Follow
  <2>3. Joined(queue, c, q)  BY <1>2, <1>6
  <2> QED  BY <2>1, <2>2, <2>3 DEF Joined
<1>8. MakingOK(inner', making)  BY <1>5 DEF Typed, MakingOK
<1> QED  BY <1>2, <1>6, <1>7, <1>8

(* Where the calls of a move are, in the queue after it.                   *)
LEMMA QueueJoined == ASSUME Typed, NEW c, Moved(c) PROVE Joined(queue, c, queue')
<1>1. c \in Seq(CallSet) /\ queue \in Seq(CallSet)  BY DEF Moved, Follow, Typed
<1>2. queue' = queue \o c  BY DEF Moved
<1>3. Joined(queue, c, queue \o c)  BY <1>1, Together
<1> QED  BY <1>2, <1>3

LEMMA TypedNext == Typed /\ [Next]_vars => Typed'
<1> SUFFICES ASSUME Typed, [Next]_vars PROVE Typed'  OBVIOUS
<1>1. ASSUME OwnStep PROVE Typed'
  <2>1. PICK c : Moved(c)  BY <1>1, ClientMoves
  <2>2. /\ queue' \in Seq(CallSet)
        /\ \A n \in DOMAIN queue' : CallOK(inner', queue'[n])
        /\ MakingOK(inner', making')
    BY <2>1, CallsKept DEF Moved
  <2>3. InnerOK(inner')  BY <2>1 DEF Moved, Follow
  <2>4. /\ ticks' = [t \in Tickers |-> ticks'[t]]
        /\ \A t \in Tickers : ticks'[t] # Idle => ticks'[t].now \in Nat
    <3>1. ticks' = ticks \/ \E t \in Tickers : ticks' = [ticks EXCEPT ![t] = Idle]
      BY <2>1 DEF Moved
    <3> QED  BY <3>1 DEF Typed
  <2>5. UNCHANGED <<clock, making, adapter, servers, replies, shown, scope>>
    BY <2>1 DEF Moved
  <2> QED  BY <2>2, <2>3, <2>4, <2>5 DEF Typed, MakingOK, CallOK
<1>2. ASSUME NEW t \in Tickers, TickStart(t) \/ TickAsk(t) PROVE Typed'
  <2>1. \E k : ticks' = [ticks EXCEPT ![t] = k] /\ k.now \in Nat
    <3>1. CASE TickStart(t)
      <4>1. PICK k : k = IF Watching(inner)
                THEN [pc |-> "ask", now |-> clock, ip |-> inner.ip, check |-> inner.check]
                ELSE [pc |-> "step", now |-> clock, check |-> None]
        OBVIOUS
      <4>2. k.now = clock  BY <4>1
      <4> QED  BY <3>1, <4>1, <4>2 DEF TickStart, Typed
    <3>2. CASE TickAsk(t)
      <4>1. PICK k : k = [pc |-> "step", now |-> ticks[t].now,
             check |-> IF adapter.probe = [ip |-> ticks[t].ip, conflict |-> TRUE]
                       THEN ticks[t].check ELSE None]
        OBVIOUS
      <4>2. ticks[t] # Idle  BY <3>2 DEF TickAsk, Idle
      <4>3. k.now \in Nat  BY <4>1, <4>2 DEF Typed
      <4> QED  BY <3>2, <4>1, <4>3 DEF TickAsk
    <3> QED  BY <1>2, <3>1, <3>2
  <2>2. UNCHANGED <<clock, inner, queue, making, adapter, servers, scope>>
    BY <1>2 DEF TickStart, TickAsk
  <2> QED  BY <2>1, <2>2 DEF Typed, CallOK, InnerOK
<1>3. ASSUME DeliverNext PROVE Typed'
  <2>1. queue \in Seq(CallSet) /\ queue # <<>>  BY <1>3 DEF DeliverNext, Typed
  <2>2. PICK q : q = Tail(queue)  OBVIOUS
  <2>3. q \in Seq(CallSet) /\ \A n \in DOMAIN q : CallOK(inner, q[n])
    BY <2>1, <2>2, TailIs DEF Typed
  <2>4. CallOK(inner, Head(queue))  BY <2>1, TailIs DEF Typed
  <2>5. MakingOK(inner, making')
    <3>1. PICK h : h = Head(queue)  OBVIOUS
    <3>2. making' = NoCall \/ making' = [stage |-> "make", call |-> h]
      BY <1>3, <3>1 DEF DeliverNext
    <3> QED  BY <2>4, <3>1, <3>2 DEF MakingOK
  <2>6. queue' = q /\ UNCHANGED <<clock, inner, ticks, adapter, servers, scope>>
    BY <1>3, <2>2 DEF DeliverNext
  <2> QED  BY <2>3, <2>5, <2>6 DEF Typed, MakingOK, CallOK, InnerOK
<1>4. ASSUME CallBound \/ CallLost \/ CallEndProbe \/ CallArp PROVE Typed'
  <2>1. /\ making' = NoCall
        /\ UNCHANGED <<clock, inner, queue, ticks, servers, scope>>
    BY <1>4 DEF CallBound, CallLost, CallEndProbe, CallArp
  <2>2. /\ adapter' = [ip |-> adapter'.ip, probe |-> adapter'.probe]
        /\ adapter'.probe = [ip |-> adapter'.probe.ip, conflict |-> adapter'.probe.conflict]
    BY <1>4 DEF CallBound, CallLost, CallEndProbe, CallArp, NoProbe, Typed
  <2> QED  BY <2>1, <2>2 DEF Typed, CallOK, InnerOK
<1>5. ASSUME CallBeginProbe PROVE Typed'
  <2>1. /\ making' = [making EXCEPT !.stage = "begun"] /\ making.stage = "make"
        /\ making.call.kind = "first_probe"
        /\ UNCHANGED <<clock, inner, queue, ticks, servers, scope>>
    BY <1>5 DEF CallBeginProbe, Calling
  <2>2. making # NoCall  BY <2>1 DEF NoCall
  <2>3. MakingOK(inner, making')  BY <2>1, <2>2 DEF Typed, MakingOK
  <2>4. /\ adapter' = [ip |-> adapter'.ip, probe |-> adapter'.probe]
        /\ adapter'.probe = [ip |-> adapter'.probe.ip, conflict |-> adapter'.probe.conflict]
    BY <1>5 DEF CallBeginProbe, Typed
  <2> QED  BY <2>1, <2>3, <2>4 DEF Typed, MakingOK, CallOK, InnerOK
<1>6. ASSUME CallProbeLive PROVE Typed'
  <2>1. PICK live \in BOOLEAN : inner' = [inner EXCEPT !.live = live]
    BY <1>6 DEF CallProbeLive, Typed, InnerOK
  <2>2. /\ InnerOK(inner') /\ inner'.run = inner.run /\ inner'.xid = inner.xid
        /\ inner'.check = inner.check
    BY <2>1 DEF Typed, InnerOK
  <2>3. making' = NoCall /\ UNCHANGED <<clock, queue, ticks, adapter, servers, scope>>
    BY <1>6 DEF CallProbeLive
  <2>4. \A n \in DOMAIN queue' : CallOK(inner', queue'[n])
    BY <2>2, <2>3 DEF Typed, CallOK
  <2> QED  BY <2>2, <2>3, <2>4 DEF Typed, CallOK
<1>7. ASSUME CallSend PROVE Typed'
  <2>1. /\ making' = NoCall
        /\ UNCHANGED <<clock, inner, queue, ticks, scope>>
    BY <1>7 DEF CallSend
  <2>2. /\ adapter' = [ip |-> adapter'.ip, probe |-> adapter'.probe]
        /\ adapter'.probe = [ip |-> adapter'.probe.ip, conflict |-> adapter'.probe.conflict]
    <3>1. adapter' = adapter \/ adapter' = [adapter EXCEPT !.probe = NoProbe]
      BY <1>7 DEF CallSend
    <3> QED  BY <3>1 DEF Typed, NoProbe
  <2>3. servers' = [s \in Servers |-> servers'[s]]
    <3>1. servers' = servers \/ \E s, g : servers' = [servers EXCEPT ![s] = g]
      <4>1. ASSUME NEW s, Grant(s) \/ Refuse(s) PROVE \E g : servers' = [servers EXCEPT ![s] = g]
        BY <4>1 DEF Grant, Refuse
      <4>2. ASSUME NEW s, ServerHandles(s, making.call.kind)
            PROVE  servers' = servers \/ \E g : servers' = [servers EXCEPT ![s] = g]
        BY <1>7, <4>1, <4>2 DEF ServerHandles, CallSend, Calling
      <4> QED  BY <1>7, <4>2 DEF CallSend
    <3> QED  BY <3>1 DEF Typed
  <2> QED  BY <2>1, <2>2, <2>3 DEF Typed, CallOK, InnerOK
<1>8. ASSUME Conflict PROVE Typed'
  <2>1. UNCHANGED <<clock, inner, queue, making, ticks, servers, scope>>
    BY <1>8 DEF Conflict
  <2>2. /\ adapter' = [ip |-> adapter'.ip, probe |-> adapter'.probe]
        /\ adapter'.probe = [ip |-> adapter'.probe.ip, conflict |-> adapter'.probe.conflict]
    BY <1>8 DEF Conflict, Typed
  <2> QED  BY <2>1, <2>2 DEF Typed, CallOK, InnerOK
<1>9. ASSUME Pass PROVE Typed'
  BY <1>9 DEF Pass, Typed, CallOK, InnerOK
<1>10. ASSUME UNCHANGED vars PROVE Typed'
  BY <1>10 DEF vars, Typed, CallOK, InnerOK
<1> QED
  BY <1>1, <1>2, <1>3, <1>4, <1>5, <1>6, <1>7, <1>8, <1>9, <1>10 DEF Next, OwnStep

-----------------------------------------------------------------------------
(* The adapter follows the client.                                         *)

(* The calls c include one that leaves the adapter as j wants it.          *)
LEMMA FollowFresh ==
    ASSUME NEW q, NEW c, NEW r, Joined(q, c, r), NEW j,
           NEW p \in DOMAIN c, Final(j, c[p]),
           \A m \in DOMAIN c : Sets(c[m]) => Final(j, c[m])
    PROVE  FinalQueued(j, r) /\ FinalLast(j, r)
<1>1. /\ Len(q) + p \in DOMAIN r /\ r[Len(q) + p] = c[p] /\ p \in Nat \ {0}
      /\ Len(q) \in Nat
  BY DEF Joined
<1>2. FinalQueued(j, r)  BY <1>1 DEF FinalQueued
<1>3. ASSUME NEW n \in DOMAIN r, Sets(r[n]), ~ Final(j, r[n])
      PROVE  \E m \in DOMAIN r : n < m /\ Final(j, r[m])
  <2>1. n \in DOMAIN q /\ n <= Len(q)  BY <1>3 DEF Joined
  <2>2. n \in Nat  BY <2>1 DEF Joined
  <2>3. n < Len(q) + p  BY <1>1, <2>1, <2>2
  <2> QED  BY <1>1, <2>3
<1> QED  BY <1>2, <1>3 DEF FinalLast

(* What j wants is what i wanted, and c does not change it.                *)
LEMMA FollowSame ==
    ASSUME NEW q, NEW c, NEW r, Joined(q, c, r), NEW i, NEW j, FinalLast(i, q),
           \A n \in DOMAIN q : /\ Final(i, q[n]) <=> Final(j, q[n])
                               /\ Due(j, q[n]) => Due(i, q[n]),
           \A m \in DOMAIN c : Sets(c[m]) => Final(j, c[m])
    PROVE  (FinalQueued(i, q) => FinalQueued(j, r)) /\ FinalLast(j, r)
<1>1. FinalQueued(i, q) => FinalQueued(j, r)  BY DEF FinalQueued, Joined
<1>2. ASSUME NEW n \in DOMAIN r, Sets(r[n]), Due(j, r[n]), ~ Final(j, r[n])
      PROVE  \E m \in DOMAIN r : n < m /\ Final(j, r[m])
  <2>1. n \in DOMAIN q /\ r[n] = q[n]  BY <1>2 DEF Joined
  <2>2. PICK m \in DOMAIN q : n < m /\ Final(i, q[m])
    BY <1>2, <2>1 DEF FinalLast
  <2> QED  BY <2>2 DEF Joined
<1> QED  BY <1>1, <1>2 DEF FinalLast

LEMMA FollowMoves == ASSUME Typed, FollowInv, NEW c, Moved(c) PROVE FollowInv'
<1>1. PICK i : i = inner  OBVIOUS
<1>2. PICK j : j = inner'  OBVIOUS
<1>3. PICK r : r = queue'  OBVIOUS
<1>4. Joined(queue, c, r)  BY <1>3, QueueJoined
<1>5. UNCHANGED <<making, adapter>> /\ Goes(i, j, c) /\ InnerOK(i) /\ InnerOK(j)
  BY <1>1, <1>2 DEF Moved, Follow, Typed
<1>6. SUFFICES /\ \/ adapter.ip = Target(j)
                  \/ InHand /\ Final(j, making.call)
                  \/ FinalQueued(j, r)
               /\ InHand /\ Sets(making.call) /\ ~ Final(j, making.call) =>
                      FinalQueued(j, r)
               /\ FinalLast(j, r)
  BY <1>2, <1>3, <1>5 DEF FollowInv, InHand
<1>7. CASE \/ Quits(i, j, c) /\ Leased(i.state)
           \/ TakesAck(i, j, c) \/ Binds(i, j, c)
  <2>1. \A m \in DOMAIN c : Sets(c[m]) => Final(j, c[m])
    BY <1>7 DEF Quits, TakesAck, Binds, Sets, Final, Leased
  <2>2. \E p \in DOMAIN c : Final(j, c[p])
    BY <1>7 DEF Quits, TakesAck, Binds, Final, Leased
  <2> QED  BY <1>4, <2>1, <2>2, FollowFresh
<1>8. CASE \/ Quits(i, j, c) /\ ~ Leased(i.state)
           \/ GoesOn(i, j, c) \/ TakesOffer(i, j, c) \/ Renews(i, j, c) \/ Checks(i, j, c)
  <2>1. \A m \in DOMAIN c : Sets(c[m]) => Final(j, c[m])
    BY <1>8 DEF Quits, GoesOn, TakesOffer, Renews, Checks, Sets, Final, Leased, Asking,
                Begins
  <2>2. Target(i) = Target(j)
    BY <1>8 DEF Quits, GoesOn, TakesOffer, Renews, Checks, Target, Leased
  <2>3. \A d : Final(i, d) <=> Final(j, d)
    BY <1>8 DEF Quits, GoesOn, TakesOffer, Renews, Checks, Final, Leased
  <2>4. ASSUME NEW n \in DOMAIN queue, Due(j, queue[n]) PROVE Due(i, queue[n])
    <3>1. queue[n].run \in Nat /\ queue[n].run <= i.run  BY <1>1 DEF Typed, CallOK, CallSet
    <3>2. i.run \in Nat /\ j.run \in {i.run, i.run + 1}
      BY <1>5, <1>8 DEF Quits, GoesOn, TakesOffer, Renews, Checks, InnerOK
    <3> QED  BY <2>4, <3>1, <3>2 DEF Due
  <2>5. (FinalQueued(i, queue) => FinalQueued(j, r)) /\ FinalLast(j, r)
    BY <1>1, <1>4, <2>1, <2>3, <2>4, FollowSame DEF FollowInv
  <2> QED  BY <1>1, <2>2, <2>3, <2>5 DEF FollowInv
<1> QED  BY <1>5, <1>7, <1>8 DEF Goes

LEMMA FollowDelivers == ASSUME Typed, FollowInv, DeliverNext PROVE FollowInv'
<1>1. queue \in Seq(CallSet) /\ queue # <<>>  BY DEF DeliverNext, Typed
<1>2. PICK q : q = Tail(queue)  OBVIOUS
<1>3. PICK h : h = Head(queue)  OBVIOUS
<1>4. /\ 1 \in DOMAIN queue /\ h = queue[1]
      /\ \A n \in DOMAIN q : n \in Nat /\ n + 1 \in DOMAIN queue /\ q[n] = queue[n + 1]
      /\ \A n \in DOMAIN queue :
            n = 1 \/ (n \in Nat /\ 1 < n /\ n - 1 \in DOMAIN q /\ q[n - 1] = queue[n])
  BY <1>1, <1>2, <1>3, TailIs
<1>5. /\ making = NoCall
      /\ making' = IF Due(inner, h) THEN [stage |-> "make", call |-> h] ELSE NoCall
      /\ queue' = q /\ UNCHANGED <<inner, adapter>>
  BY <1>2, <1>3 DEF DeliverNext, Due
<1>6. h.kind = "lost" => h.run = Always  BY <1>4 DEF Typed, CallOK
<1>7. Final(inner, h) => Due(inner, h)  BY <1>6 DEF Final, Due
<1>8. FinalLast(inner, q)
  <2>1. ASSUME NEW n \in DOMAIN q, Sets(q[n]), Due(inner, q[n]), ~ Final(inner, q[n])
        PROVE  \E m \in DOMAIN q : n < m /\ Final(inner, q[m])
    <3>1. PICK m \in DOMAIN queue : n + 1 < m /\ Final(inner, queue[m])
      BY <1>4, <2>1 DEF FollowInv, FinalLast
    <3>2. m \in Nat /\ 1 < m /\ m - 1 \in DOMAIN q /\ q[m - 1] = queue[m] /\ n < m - 1
      BY <1>4, <3>1
    <3> QED  BY <3>1, <3>2
  <2> QED  BY <2>1 DEF FinalLast
<1>9. FinalQueued(inner, queue) => Final(inner, h) \/ FinalQueued(inner, q)
  BY <1>4 DEF FinalQueued
<1>10. Sets(h) /\ Due(inner, h) /\ ~ Final(inner, h) => FinalQueued(inner, q)
  <2>1. ASSUME Sets(h), Due(inner, h), ~ Final(inner, h) PROVE FinalQueued(inner, q)
    <3>1. PICK m \in DOMAIN queue : 1 < m /\ Final(inner, queue[m])
      BY <1>4, <2>1 DEF FollowInv, FinalLast
    <3> QED  BY <1>4, <3>1 DEF FinalQueued
  <2> QED  BY <2>1
<1>11. ~ InHand  BY <1>5 DEF InHand, NoCall
<1>12. CASE Due(inner, h)
  <2>1. making'.stage = "make" /\ making'.call = h  BY <1>5, <1>12
  <2> QED
    BY <1>5, <1>8, <1>9, <1>10, <1>11, <1>12, <2>1 DEF FollowInv, InHand
<1>13. CASE ~ Due(inner, h)
  <2>1. making'.stage = "idle"  BY <1>5, <1>13 DEF NoCall
  <2> QED  BY <1>5, <1>7, <1>8, <1>9, <1>11, <1>13, <2>1 DEF FollowInv, InHand
<1> QED  BY <1>12, <1>13

LEMMA FollowNext == Typed /\ FollowInv /\ [Next]_vars => FollowInv'
<1> SUFFICES ASSUME Typed, FollowInv, [Next]_vars PROVE FollowInv'  OBVIOUS
<1>1. ASSUME OwnStep PROVE FollowInv'  BY <1>1, ClientMoves, FollowMoves
<1>2. ASSUME UNCHANGED <<inner, queue, making>>, adapter'.ip = adapter.ip PROVE FollowInv'
  BY <1>2 DEF FollowInv, InHand
<1>3. ASSUME NEW t, TickStart(t) \/ TickAsk(t) PROVE FollowInv'
  BY <1>2, <1>3 DEF TickStart, TickAsk
<1>4. ASSUME DeliverNext PROVE FollowInv'  BY <1>4, FollowDelivers
<1>5. ASSUME CallBound \/ CallLost PROVE FollowInv'
  <2>1. /\ InHand /\ Sets(making.call) /\ making' = NoCall /\ UNCHANGED <<inner, queue>>
        /\ adapter'.ip = IF making.call.kind = "bound" THEN making.call.ip ELSE None
    BY <1>5 DEF CallBound, CallLost, Calling, InHand, Sets, Typed
  <2>2. Final(inner, making.call) => adapter'.ip = Target(inner)
    BY <2>1 DEF Final, Target
  <2>3. making'.stage = "idle"  BY <2>1 DEF NoCall
  <2> QED  BY <2>1, <2>2, <2>3 DEF FollowInv, InHand
<1>6. ASSUME ~ Sets(making.call), making' = NoCall, queue' = queue,
             inner' = inner \/ \E live : inner' = [inner EXCEPT !.live = live],
             adapter'.ip = adapter.ip
      PROVE  FollowInv'
  <2>1. ~ Final(inner, making.call)  BY <1>6 DEF Sets, Final
  <2>2. making'.stage = "idle"  BY <1>6 DEF NoCall
  <2>3. inner'.state = inner.state /\ inner'.run = inner.run /\ inner'.ip = inner.ip
    BY <1>6 DEF Typed, InnerOK
  <2>4. PICK j : j = inner'  OBVIOUS
  <2>5. /\ Target(j) = Target(inner) /\ \A d : Final(j, d) <=> Final(inner, d)
        /\ \A d : Due(j, d) <=> Due(inner, d)
    BY <2>3, <2>4 DEF Target, Final, Due
  <2>6. FinalLast(j, queue) /\ (FinalQueued(inner, queue) => FinalQueued(j, queue))
    BY <2>5 DEF FollowInv, FinalLast, FinalQueued
  <2>7. adapter'.ip = Target(j) \/ FinalQueued(j, queue)
    BY <1>6, <2>1, <2>5, <2>6 DEF FollowInv
  <2> QED  BY <1>6, <2>2, <2>4, <2>6, <2>7 DEF FollowInv, InHand
<1>7. ASSUME CallEndProbe \/ CallArp PROVE FollowInv'
  <2>1. ~ Sets(making.call)  BY <1>7 DEF CallEndProbe, CallArp, Calling, Sets
  <2>2. adapter'.ip = adapter.ip  BY <1>7 DEF CallEndProbe, CallArp, Typed
  <2> QED  BY <1>6, <1>7, <2>1, <2>2 DEF CallEndProbe, CallArp
<1>8. ASSUME CallBeginProbe PROVE FollowInv'
  <2>1. ~ Sets(making.call) /\ ~ Final(inner, making.call)
    BY <1>8 DEF CallBeginProbe, Calling, Sets, Final
  <2>2. making # NoCall  BY <1>8 DEF CallBeginProbe, Calling, NoCall
  <2>3. making'.call = making.call  BY <1>8, <2>2 DEF CallBeginProbe, Typed
  <2>4. adapter'.ip = adapter.ip /\ UNCHANGED <<inner, queue>>
    BY <1>8 DEF CallBeginProbe, Typed
  <2> QED  BY <2>1, <2>3, <2>4 DEF FollowInv, InHand
<1>9. ASSUME CallProbeLive PROVE FollowInv'
  <2>1. making.call.kind = "first_probe"
    <3>1. making.stage = "begun" /\ making # NoCall  BY <1>9 DEF CallProbeLive, NoCall
    <3> QED  BY <3>1 DEF Typed
  <2>2. \E live : inner' = [inner EXCEPT !.live = live]  BY <1>9 DEF CallProbeLive
  <2> QED  BY <1>6, <1>9, <2>1, <2>2 DEF CallProbeLive, Sets
<1>10. ASSUME CallSend PROVE FollowInv'
  <2>1. ~ Sets(making.call)  BY <1>10 DEF CallSend, Calling, Sets
  <2>2. adapter'.ip = adapter.ip  BY <1>10 DEF CallSend, Typed
  <2> QED  BY <1>6, <1>10, <2>1, <2>2 DEF CallSend
<1>11. ASSUME Conflict PROVE FollowInv'
  BY <1>2, <1>11 DEF Conflict, Typed
<1>12. ASSUME Pass \/ UNCHANGED vars PROVE FollowInv'
  BY <1>2, <1>12 DEF Pass, vars
<1> QED
  BY <1>1, <1>3, <1>4, <1>5, <1>7, <1>8, <1>9, <1>10, <1>11, <1>12 DEF Next, OwnStep

LEMMA FollowInit == Init => FollowInv
<1> SUFFICES ASSUME Init PROVE FollowInv  OBVIOUS
<1>1. /\ DOMAIN queue = {} /\ making.stage = "idle" /\ adapter.ip = None
      /\ inner.state = "Init"
  BY DEF Init, NoCall
<1> QED  BY <1>1 DEF FollowInv, FinalLast, InHand, Target, Leased

(* Once the calls are made, the adapter uses the address of the lease the  *)
(* client holds, and none when it holds none, whichever runs the calls     *)
(* belonged to and however starts, stops and replies came between them.    *)
THEOREM AddressFollowsLease == Spec => []AdapterFollows
<1>1. FollowInv => AdapterFollows
  <2> SUFFICES ASSUME FollowInv, Drained PROVE adapter.ip = Target(inner)
    BY DEF AdapterFollows, Target
  <2>1. DOMAIN queue = {} /\ making.stage = "idle"  BY DEF Drained, NoCall
  <2> QED  BY <2>1 DEF FollowInv, InHand, FinalQueued
<1> QED  BY <1>1, TypedInit, TypedNext, FollowInit, FollowNext, PTL DEF Spec

-----------------------------------------------------------------------------
(* The check that the transport watches for is the client's.               *)

LEMMA WatchMoves == ASSUME Typed, WatchInv, NEW c, Moved(c) PROVE WatchInv'
<1>1. Joined(queue, c, queue')  BY QueueJoined
<1>2. /\ UNCHANGED <<making, adapter, shown>> /\ Goes(inner, inner', c)
      /\ InnerOK(inner) /\ InnerOK(inner') /\ inner.check <= inner'.check
  BY DEF Moved, Follow, Typed
<1>3. \/ inner'.state # "Probing"
      \/ Checks(inner, inner', c)
      \/ GoesOn(inner, inner', c) /\ inner.state = "Probing"
  BY <1>2 DEF Goes, Quits, TakesOffer, Renews, TakesAck, Binds, GoesOn
<1>4. CASE Checks(inner, inner', c)
  <2>1. inner.check \in Nat /\ inner'.check = inner.check + 1 /\ inner'.live = FALSE
    BY <1>2, <1>4 DEF Checks, InnerOK
  <2>2. \A n \in DOMAIN queue : queue[n].check # inner'.check
    BY <2>1 DEF Typed, CallOK, CallSet
  <2>3. InHand => making.call.check # inner'.check
    BY <2>1 DEF Typed, CallOK, CallSet, InHand, NoCall
  <2>4. PICK n : n = Len(queue) + 1 /\ n \in DOMAIN queue' /\ queue'[n] = c[1]
                 /\ n \in Nat
    BY <1>1, <1>4 DEF Checks, Joined
  <2>5. ASSUME NEW m \in DOMAIN queue'
        PROVE  /\ ~ n < m
               /\ m < n => queue'[m].check # inner'.check
    <3>1. CASE m \in DOMAIN queue /\ queue'[m] = queue[m] /\ m <= Len(queue)
      BY <1>1, <2>2, <2>4, <3>1 DEF Joined
    <3>2. CASE m = Len(queue) + 1  BY <2>4, <3>2
    <3> QED  BY <1>1, <1>4, <3>1, <3>2 DEF Joined, Checks
  <2>6. Begins(inner', queue'[n])  BY <1>4, <2>4 DEF Checks
  <2>7. CheckQueued'
    BY <1>2, <2>1, <2>3, <2>4, <2>5, <2>6 DEF CheckQueued, InHand, Begins
  <2>8. ASSUME NEW k, TickOK(k) PROVE TickOK(k)'
    BY <1>2, <2>1, <2>8 DEF TickOK, Conflicted, None
  <2>9. \A t \in Tickers : TickOK(ticks[t])'
    <3>1. ticks' = ticks \/ \E t \in Tickers : ticks' = [ticks EXCEPT ![t] = Idle]
      BY DEF Moved
    <3>2. ASSUME NEW t \in Tickers PROVE TickOK(ticks[t])'
      <4>1. PICK k : k = ticks'[t]  OBVIOUS
      <4>2. k = ticks[t] \/ k = Idle  BY <3>1, <4>1 DEF Typed
      <4>3. TickOK(k)  BY <4>2 DEF WatchInv, TickOK
      <4>4. TickOK(k)'  BY <2>8, <4>3
      <4> QED  BY <4>1, <4>4 DEF TickOK, Conflicted
    <3> QED  BY <3>2
  <2>10. DeclinesJustified'
    BY <1>1, <1>2, <1>4 DEF DeclinesJustified, Joined, Checks, Begins, WatchInv
  <2> QED  BY <2>7, <2>9, <2>10 DEF WatchInv
<1>5. CASE ~ Checks(inner, inner', c)
  <2>1. inner'.check = inner.check
    BY <1>2, <1>5 DEF Goes, Quits, GoesOn, TakesOffer, Renews, TakesAck, Binds
  <2>2. CASE inner'.state # "Probing"
    <3>1. \A k : TickOK(k) => TickOK(k)'
      BY <1>2, <2>1, <2>2 DEF TickOK, Conflicted
    <3> QED
      <4>1. ticks' = ticks \/ \E t \in Tickers : ticks' = [ticks EXCEPT ![t] = Idle]
        BY DEF Moved
      <4>2. ASSUME NEW t \in Tickers PROVE TickOK(ticks[t])'
        <5>1. PICK k : k = ticks'[t]  OBVIOUS
        <5>2. k = ticks[t] \/ k = Idle  BY <4>1, <5>1 DEF Typed
        <5>3. TickOK(k)  BY <5>2 DEF WatchInv, TickOK
        <5>4. TickOK(k)'  BY <3>1, <5>3
        <5> QED  BY <5>1, <5>4 DEF TickOK, Conflicted
      <4>3. \A n \in DOMAIN c : c[n].kind = "decline" => c[n].check \in shown
        <5>1. \A n \in DOMAIN c : c[n].kind = "decline" =>
                /\ c[n].check = inner.check
                /\ \E t \in Tickers : ticks[t].pc = "step" /\ Conflicted(ticks[t].check)
          BY <1>2 DEF Goes, Quits, GoesOn, TakesOffer, Renews, Checks, TakesAck, Binds,
                      Asking, Begins
        <5>2. ASSUME NEW t \in Tickers, ticks[t].pc = "step", Conflicted(ticks[t].check)
              PROVE  inner.check \in shown
          <6>1. ticks[t] # Idle  BY <5>2 DEF Idle
          <6>2. TickOK(ticks[t])  BY DEF WatchInv
          <6> QED  BY <5>2, <6>1, <6>2 DEF TickOK, Conflicted
        <5> QED  BY <5>1, <5>2
      <4>4. DeclinesJustified'
        BY <1>1, <1>2, <4>3 DEF DeclinesJustified, Joined, WatchInv
      <4> QED  BY <2>2, <4>2, <4>4 DEF WatchInv
  <2>3. CASE GoesOn(inner, inner', c) /\ inner.state = "Probing"
    <3>1. /\ inner'.live = inner.live /\ inner'.ip = inner.ip /\ inner'.run = inner.run
          /\ inner'.state = "Probing"
      BY <2>3 DEF GoesOn
    <3>2. \A n \in DOMAIN c : ~ Touches(c[n]) /\ c[n].kind # "decline"
      BY <2>3 DEF GoesOn, Touches, Asking
    <3>3. Untouched(queue) => Untouched(queue')
      BY <1>1, <3>2 DEF Untouched, Joined
    <3>4. \A d : Begins(inner', d) <=> Begins(inner, d)
      BY <2>1, <3>1 DEF Begins
    <3>5. CheckLive => CheckLive'
      BY <1>2, <2>1, <3>1, <3>3 DEF CheckLive, Watched, InHand
    <3>6. CheckBegun => CheckBegun'
      BY <1>2, <2>1, <3>1, <3>3, <3>4 DEF CheckBegun, Watched
    <3>7. CheckBegins => CheckBegins'
      BY <1>2, <2>1, <3>1, <3>3, <3>4 DEF CheckBegins
    <3>8. ASSUME CheckQueued PROVE CheckQueued'
      <4>1. PICK n \in DOMAIN queue :
              /\ Begins(inner, queue[n])
              /\ \A m \in DOMAIN queue : n < m => ~ Touches(queue[m])
              /\ \A m \in DOMAIN queue : m < n /\ queue[m].kind = "first_probe" =>
                    queue[m].check # inner.check
        BY <3>8 DEF CheckQueued
      <4>2. n \in DOMAIN queue' /\ queue'[n] = queue[n]  BY <1>1 DEF Joined
      <4>3. ASSUME NEW m \in DOMAIN queue'
            PROVE  /\ n < m => ~ Touches(queue'[m])
                   /\ m < n /\ queue'[m].kind = "first_probe" =>
                        queue'[m].check # inner.check
        <5>1. CASE m \in DOMAIN queue /\ queue'[m] = queue[m]  BY <4>1, <5>1
        <5>2. CASE \E p \in DOMAIN c : queue'[m] = c[p]
          BY <3>2, <5>2 DEF Touches
        <5> QED  BY <1>1, <5>1, <5>2 DEF Joined
      <4>4. Begins(inner', queue'[n])  BY <3>4, <4>1, <4>2
      <4> QED
        BY <1>2, <2>1, <3>1, <3>8, <4>2, <4>3, <4>4 DEF CheckQueued, Begins
    <3>9. \A t \in Tickers : TickOK(ticks[t])'
      <4>1. ticks' = ticks \/ \E t \in Tickers : ticks' = [ticks EXCEPT ![t] = Idle]
        BY DEF Moved
      <4>2. ASSUME NEW t \in Tickers PROVE TickOK(ticks[t])'
        <5>1. PICK k : k = ticks'[t]  OBVIOUS
        <5>2. k = ticks[t] \/ k = Idle  BY <4>1, <5>1 DEF Typed
        <5>3. TickOK(k)  BY <5>2 DEF WatchInv, TickOK
        <5> QED  BY <1>2, <2>1, <2>3, <3>1, <5>1, <5>3 DEF TickOK, Conflicted
      <4> QED  BY <4>2
    <3>10. DeclinesJustified'
      BY <1>1, <1>2, <3>2 DEF DeclinesJustified, Joined, WatchInv
    <3> QED  BY <2>3, <3>5, <3>6, <3>7, <3>8, <3>9, <3>10 DEF WatchInv
  <2> QED  BY <1>3, <1>5, <2>2, <2>3
<1> QED  BY <1>4, <1>5

LEMMA WatchDelivers == ASSUME Typed, WatchInv, DeliverNext PROVE WatchInv'
<1>1. queue \in Seq(CallSet) /\ queue # <<>>  BY DEF DeliverNext, Typed
<1>2. PICK q : q = Tail(queue)  OBVIOUS
<1>3. PICK h : h = Head(queue)  OBVIOUS
<1>4. /\ 1 \in DOMAIN queue /\ h = queue[1]
      /\ \A n \in DOMAIN q : n \in Nat /\ n + 1 \in DOMAIN queue /\ q[n] = queue[n + 1]
      /\ \A n \in DOMAIN queue :
            n = 1 \/ (n \in Nat /\ 1 < n /\ n - 1 \in DOMAIN q /\ q[n - 1] = queue[n])
  BY <1>1, <1>2, <1>3, TailIs
<1>5. /\ making = NoCall
      /\ making' = IF Due(inner, h) THEN [stage |-> "make", call |-> h] ELSE NoCall
      /\ queue' = q /\ UNCHANGED <<inner, adapter, ticks, shown>>
  BY <1>2, <1>3 DEF DeliverNext, Due
<1>6. \A t \in Tickers : TickOK(ticks[t])'
  BY <1>5 DEF WatchInv, TickOK, Conflicted
<1>7. DeclinesJustified'  BY <1>4, <1>5 DEF WatchInv, DeclinesJustified
<1>8. making.stage = "idle"  BY <1>5 DEF NoCall
<1>9. /\ making'.stage \in {"idle", "make"}
      /\ making'.stage = "make" => making'.call = h
      /\ Due(inner, h) => making'.stage = "make"
  BY <1>5 DEF NoCall
<1>10. ASSUME CheckLive PROVE CheckLive'
  <2>1. Untouched(q) /\ ~ Touches(h)  BY <1>4, <1>10 DEF CheckLive, Untouched
  <2>2. Watched'  BY <1>5, <1>10 DEF CheckLive, Watched
  <2> QED  BY <1>5, <1>9, <1>10, <2>1, <2>2 DEF CheckLive, InHand
<1>11. ASSUME CheckQueued PROVE CheckBegins' \/ CheckQueued'
  <2>1. PICK n \in DOMAIN queue :
          /\ Begins(inner, queue[n])
          /\ \A m \in DOMAIN queue : n < m => ~ Touches(queue[m])
          /\ \A m \in DOMAIN queue : m < n /\ queue[m].kind = "first_probe" =>
                queue[m].check # inner.check
    BY <1>11 DEF CheckQueued
  <2>2. CASE n = 1
    <3>1. Due(inner, h)  BY <1>4, <2>1, <2>2 DEF Begins, Due
    <3>2. Untouched(q)
      <4>1. ASSUME NEW m \in DOMAIN q PROVE ~ Touches(q[m])
        <5>1. m \in Nat /\ m + 1 \in DOMAIN queue /\ q[m] = queue[m + 1]  BY <1>4
        <5>2. m # 0
          <6>1. Tail(queue) \in Seq(CallSet)  BY <1>1, TailIs
          <6> QED  BY <1>2, <6>1
        <5>3. 1 < m + 1  BY <5>1, <5>2
        <5> QED  BY <2>1, <2>2, <5>1, <5>3
      <4> QED  BY <4>1 DEF Untouched
    <3>3. Begins(inner, h)  BY <1>4, <2>1, <2>2
    <3> QED  BY <1>5, <1>9, <1>11, <3>1, <3>2, <3>3 DEF CheckBegins, CheckQueued, Begins
  <2>3. CASE n # 1
    <3>1. n \in Nat /\ 1 < n /\ n - 1 \in DOMAIN q /\ q[n - 1] = queue[n]  BY <1>4, <2>3
    <3>2. ASSUME NEW m \in DOMAIN q
          PROVE  /\ n - 1 < m => ~ Touches(q[m])
                 /\ m < n - 1 /\ q[m].kind = "first_probe" => q[m].check # inner.check
      <4>1. m \in Nat /\ m + 1 \in DOMAIN queue /\ q[m] = queue[m + 1]  BY <1>4
      <4>2. (n - 1 < m => n < m + 1) /\ (m < n - 1 => m + 1 < n)  BY <3>1, <4>1
      <4> QED  BY <2>1, <4>1, <4>2
    <3>3. h.kind = "first_probe" => h.check # inner.check  BY <1>4, <2>1, <3>1
    <3>4. PICK p : p = n - 1  OBVIOUS
    <3>5. /\ p \in DOMAIN q /\ Begins(inner, q[p])
          /\ \A m \in DOMAIN q : p < m => ~ Touches(q[m])
          /\ \A m \in DOMAIN q : m < p /\ q[m].kind = "first_probe" =>
                    q[m].check # inner.check
      BY <2>1, <3>1, <3>2, <3>4
    <3> QED  BY <1>5, <1>9, <1>11, <3>3, <3>5 DEF CheckQueued, Begins
  <2> QED  BY <2>2, <2>3
<1>12. ~ CheckBegun /\ ~ CheckBegins  BY <1>8 DEF CheckBegun, CheckBegins
<1>13. (inner.state = "Probing")' =>
            (CheckLive \/ CheckBegun \/ CheckBegins \/ CheckQueued)'
  BY <1>5, <1>10, <1>11, <1>12 DEF WatchInv
<1> QED  BY <1>6, <1>7, <1>13 DEF WatchInv

(* A call is made: it is the check's own, or not one that touches it.      *)
LEMMA WatchCalls ==
    ASSUME Typed, WatchInv, UNCHANGED <<queue, ticks, shown>>, InHand,
           \/ /\ making' = NoCall /\ inner' = inner
              /\ ~ (making.stage = "begun") /\ making.call.kind # "first_probe"
              /\ ~ Touches(making.call) => adapter'.probe = adapter.probe
           \/ CallBeginProbe
           \/ CallProbeLive
    PROVE  WatchInv'
<1>1. CASE inner' = inner /\ ~ CallBeginProbe /\ ~ CallProbeLive
  <2>1. \A t \in Tickers : TickOK(ticks[t])'  BY <1>1 DEF WatchInv, TickOK, Conflicted
  <2>2. DeclinesJustified'  BY DEF WatchInv, DeclinesJustified
  <2>3. making'.stage = "idle"  BY <1>1 DEF NoCall
  <2>4. CheckLive => CheckLive'
    BY <1>1, <2>3 DEF CheckLive, Watched, InHand, Untouched
  <2>5. CheckQueued => CheckQueued'
    BY <1>1, <2>3 DEF CheckQueued, Begins
  <2>6. ~ CheckBegun /\ ~ CheckBegins  BY <1>1 DEF CheckBegun, CheckBegins, Begins
  <2> QED  BY <1>1, <2>1, <2>2, <2>4, <2>5, <2>6 DEF WatchInv
<1>2. CASE CallBeginProbe
  <2>1. /\ making.stage = "make" /\ making.call.kind = "first_probe"
        /\ inner' = inner
        /\ adapter'.probe = [ip |-> making.call.ip, conflict |-> FALSE]
        /\ making # NoCall
    BY <1>2 DEF CallBeginProbe, Calling, Typed, NoCall
  <2>2. making'.stage = "begun" /\ making'.call = making.call
    BY <1>2, <2>1 DEF CallBeginProbe, Typed
  <2>3. \A t \in Tickers : TickOK(ticks[t])'  BY <2>1 DEF WatchInv, TickOK, Conflicted
  <2>4. DeclinesJustified'  BY DEF WatchInv, DeclinesJustified
  <2>5. ~ CheckLive  BY <2>1 DEF CheckLive, Touches, InHand
  <2>6. ~ CheckBegun  BY <2>1 DEF CheckBegun
  <2>7. ASSUME CheckBegins PROVE CheckBegun'
    <3>1. Watched'  BY <2>1, <2>7 DEF CheckBegins, Begins, Watched
    <3> QED  BY <2>1, <2>2, <2>7, <3>1 DEF CheckBegins, CheckBegun, Begins, Untouched
  <2>8. CheckQueued => CheckQueued'
    BY <2>1, <2>2 DEF CheckQueued, Begins
  <2> QED  BY <2>1, <2>3, <2>4, <2>5, <2>6, <2>7, <2>8 DEF WatchInv
<1>3. CASE CallProbeLive
  <2>1. PICK live \in BOOLEAN :
            /\ inner' = [inner EXCEPT !.live = live]
            /\ live = (inner.live \/ (inner.state = "Probing"
                                        /\ inner.check = making.call.check))
    BY <1>3 DEF CallProbeLive, Typed, InnerOK
  <2>2. /\ inner'.state = inner.state /\ inner'.check = inner.check
        /\ inner'.ip = inner.ip /\ inner'.run = inner.run /\ inner'.live = live
    BY <2>1 DEF Typed, InnerOK
  <2>3. /\ making' = NoCall /\ making.stage = "begun" /\ adapter' = adapter
        /\ making'.stage = "idle" /\ making # NoCall
    BY <1>3 DEF CallProbeLive, NoCall
  <2>4. making.call.kind = "first_probe"  BY <2>3 DEF Typed
  <2>5. \A t \in Tickers : TickOK(ticks[t])'
    BY <2>1, <2>2 DEF WatchInv, TickOK, Conflicted
  <2>6. DeclinesJustified'  BY DEF WatchInv, DeclinesJustified
  <2>7. ~ CheckLive  BY <2>3, <2>4 DEF CheckLive, Touches, InHand
  <2>8. ~ CheckBegins  BY <2>3 DEF CheckBegins
  <2>9. ASSUME CheckBegun, inner.state = "Probing" PROVE CheckLive'
    <3>1. live  BY <2>1, <2>9 DEF CheckBegun, Begins
    <3>2. Watched'  BY <2>2, <2>3, <2>9 DEF CheckBegun, Watched
    <3> QED  BY <2>2, <2>3, <2>9, <3>1, <3>2 DEF CheckBegun, CheckLive, InHand, Untouched
  <2>10. ASSUME CheckQueued PROVE CheckQueued'
    <3>1. ~ live  BY <2>1, <2>3, <2>10 DEF CheckQueued
    <3> QED  BY <2>2, <2>3, <2>10, <3>1 DEF CheckQueued, Begins
  <2> QED  BY <2>2, <2>5, <2>6, <2>7, <2>8, <2>9, <2>10 DEF WatchInv
<1> QED  BY <1>1, <1>2, <1>3

LEMMA WatchTicks ==
    ASSUME Typed, WatchInv, NEW t \in Tickers, TickStart(t) \/ TickAsk(t)
    PROVE  WatchInv'
<1>1. UNCHANGED <<inner, queue, making, adapter, shown>>
  BY DEF TickStart, TickAsk
<1>2. PICK k : k = ticks'[t]  OBVIOUS
<1>3. TickOK(k)
  <2>1. CASE TickStart(t) /\ Watching(inner)
    <3>1. k = [pc |-> "ask", now |-> clock, ip |-> inner.ip, check |-> inner.check]
      BY <1>2, <2>1 DEF TickStart, Typed
    <3> QED  BY <2>1, <3>1 DEF TickOK, Watching, Typed, InnerOK
  <2>2. CASE TickStart(t) /\ ~ Watching(inner)
    <3>1. k = [pc |-> "step", now |-> clock, check |-> None]
      BY <1>2, <2>2 DEF TickStart, Typed
    <3>2. inner.check \in Nat  BY DEF Typed, InnerOK
    <3> QED  BY <3>1, <3>2 DEF TickOK, Conflicted, None
  <2>3. CASE TickAsk(t)
    <3>1. ticks[t].pc = "ask" /\ ticks[t] # Idle  BY <2>3 DEF TickAsk, Idle
    <3>2. /\ ticks[t].check \in Nat /\ ticks[t].check <= inner.check
          /\ inner.state = "Probing" /\ ticks[t].check = inner.check => inner.live
      BY <3>1 DEF WatchInv, TickOK
    <3>3. PICK check : check = IF adapter.probe = [ip |-> ticks[t].ip, conflict |-> TRUE]
                               THEN ticks[t].check ELSE None
      OBVIOUS
    <3>4. k = [pc |-> "step", now |-> ticks[t].now, check |-> check]
      BY <1>2, <2>3, <3>3 DEF TickAsk, Typed
    <3>5. inner.check \in Nat  BY DEF Typed, InnerOK
    <3>6. check \in Nat \cup {None} /\ check <= inner.check
      BY <3>2, <3>3, <3>5 DEF None
    <3>7. ASSUME Conflicted(check) PROVE check \in shown
      <4>1. check # None  BY <3>5, <3>7 DEF Conflicted, None
      <4>2. adapter.probe.conflict /\ check = ticks[t].check  BY <3>3, <4>1
      <4>3. inner.live /\ inner.state = "Probing" /\ check = inner.check
        BY <3>2, <3>7, <4>2 DEF Conflicted
      <4>4. CheckLive
        BY <4>3 DEF WatchInv, CheckBegun, CheckBegins, CheckQueued
      <4> QED  BY <4>2, <4>3, <4>4 DEF CheckLive, Watched
    <3> QED  BY <3>4, <3>6, <3>7 DEF TickOK
  <2> QED  BY <2>1, <2>2, <2>3
<1>4. ASSUME NEW u \in Tickers PROVE TickOK(ticks[u])'
  <2>1. PICK l : l = ticks'[u]  OBVIOUS
  <2>2. u = t \/ l = ticks[u]  BY <2>1 DEF TickStart, TickAsk, Typed
  <2>3. TickOK(l)  BY <1>2, <1>3, <2>1, <2>2 DEF WatchInv
  <2> QED  BY <1>1, <2>1, <2>3 DEF TickOK, Conflicted
<1>5. DeclinesJustified'  BY <1>1 DEF WatchInv, DeclinesJustified
<1>6. (CheckLive => CheckLive') /\ (CheckBegun => CheckBegun')
      /\ (CheckBegins => CheckBegins') /\ (CheckQueued => CheckQueued')
  BY <1>1 DEF CheckLive, CheckBegun, CheckBegins, CheckQueued, Watched, Untouched,
              Begins, InHand
<1> QED  BY <1>1, <1>4, <1>5, <1>6 DEF WatchInv

LEMMA WatchNext == Typed /\ WatchInv /\ [Next]_vars => WatchInv'
<1> SUFFICES ASSUME Typed, WatchInv, [Next]_vars PROVE WatchInv'  OBVIOUS
<1>1. ASSUME OwnStep PROVE WatchInv'  BY <1>1, ClientMoves, WatchMoves
<1>2. ASSUME NEW t \in Tickers, TickStart(t) \/ TickAsk(t) PROVE WatchInv'
  BY <1>2, WatchTicks
<1>3. ASSUME DeliverNext PROVE WatchInv'  BY <1>3, WatchDelivers
<1>4. ASSUME CallBound \/ CallLost \/ CallEndProbe \/ CallArp \/ CallSend PROVE WatchInv'
  <2>1. /\ making.stage = "make" /\ making.call.kind # "first_probe" /\ making' = NoCall
        /\ UNCHANGED <<inner, queue, ticks, shown>>
    BY <1>4 DEF CallBound, CallLost, CallEndProbe, CallArp, CallSend, Calling
  <2>2. ~ Touches(making.call) => adapter'.probe = adapter.probe
    BY <1>4 DEF CallBound, CallLost, CallEndProbe, CallArp, CallSend, Calling, Touches,
                Typed
  <2> QED  BY <2>1, <2>2, WatchCalls DEF InHand
<1>5. ASSUME CallBeginProbe PROVE WatchInv'
  BY <1>5, WatchCalls DEF CallBeginProbe, Calling, InHand
<1>6. ASSUME CallProbeLive PROVE WatchInv'
  BY <1>6, WatchCalls DEF CallProbeLive, InHand
<1>7. ASSUME Conflict PROVE WatchInv'
  <2>1. UNCHANGED <<inner, queue, making, ticks>> /\ shown \subseteq shown'
    BY <1>7 DEF Conflict
  <2>2. adapter'.probe.ip = adapter.probe.ip  BY <1>7 DEF Conflict, Typed
  <2>3. \A t \in Tickers : TickOK(ticks[t])'
    BY <2>1 DEF WatchInv, TickOK, Conflicted
  <2>4. DeclinesJustified'  BY <2>1 DEF WatchInv, DeclinesJustified
  <2>5. inner.state = "Probing" /\ Watched => Watched'
    BY <1>7, <2>1, <2>2 DEF Watched, Conflict
  <2>6. inner.state = "Probing" =>
          /\ CheckLive => CheckLive'
          /\ CheckBegun => CheckBegun'
          /\ CheckBegins => CheckBegins'
          /\ CheckQueued => CheckQueued'
    BY <2>1, <2>5 DEF CheckLive, CheckBegun, CheckBegins, CheckQueued, Untouched, Begins,
                      InHand
  <2> QED  BY <2>1, <2>3, <2>4, <2>6 DEF WatchInv
<1>8. ASSUME Pass \/ UNCHANGED vars PROVE WatchInv'
  <2>1. UNCHANGED <<inner, queue, making, ticks, adapter, shown>>
    BY <1>8 DEF Pass, vars
  <2>2. \A t \in Tickers : TickOK(ticks[t])'
    BY <2>1 DEF WatchInv, TickOK, Conflicted
  <2>3. DeclinesJustified'  BY <2>1 DEF WatchInv, DeclinesJustified
  <2>4. (CheckLive => CheckLive') /\ (CheckBegun => CheckBegun')
        /\ (CheckBegins => CheckBegins') /\ (CheckQueued => CheckQueued')
    BY <2>1 DEF CheckLive, CheckBegun, CheckBegins, CheckQueued, Watched, Untouched,
                Begins, InHand
  <2> QED  BY <2>1, <2>2, <2>3, <2>4 DEF WatchInv
<1> QED
  BY <1>1, <1>2, <1>3, <1>4, <1>5, <1>6, <1>7, <1>8 DEF Next, OwnStep

LEMMA WatchInit == Init => WatchInv
<1> SUFFICES ASSUME Init PROVE WatchInv  OBVIOUS
<1>1. DOMAIN queue = {} /\ inner.state = "Init" /\ \A t \in Tickers : ticks[t] = Idle
  BY DEF Init
<1> QED  BY <1>1 DEF WatchInv, DeclinesJustified, TickOK

(* A declined address was seen in use during the check that declines it,   *)
(* however the tick that asks, the calls that begin and end checks, and    *)
(* the starts and stops of the client interleave.                          *)
THEOREM DeclinesAreJust == Spec => []DeclinesJustified
<1>1. WatchInv => DeclinesJustified  BY DEF WatchInv
<1> QED  BY <1>1, TypedInit, TypedNext, WatchInit, WatchNext, PTL DEF Spec

-----------------------------------------------------------------------------
(* The lease is one a server has granted, and keeps.                       *)

(* The calls of a move come in the order of their transactions, and are of *)
(* the new one or of that which ends.                                      *)
LEMMA MoveOrder ==
    ASSUME NEW i, NEW j, NEW c, Follow(i, j, c), InnerOK(i)
    PROVE  /\ \A n \in DOMAIN c : i.xid <= c[n].xid
           /\ \A n, m \in DOMAIN c : n < m => c[n].xid <= c[m].xid
<1>1. i.xid \in Nat /\ j.xid \in Nat /\ i.xid <= j.xid  BY DEF Follow, InnerOK
<1>2. CASE Quits(i, j, c)
  <2>1. \A n \in DOMAIN c : c[n].xid = IF c[n].kind = "discover" THEN j.xid ELSE i.xid
    BY <1>2 DEF Quits
  <2>2. \A n, m \in DOMAIN c : n < m => c[n].kind # "discover"
    <3> SUFFICES ASSUME NEW n \in DOMAIN c, NEW m \in DOMAIN c, n < m,
                        c[n].kind = "discover"
                 PROVE  FALSE
      OBVIOUS
    <3>1. m <= n  BY <1>2 DEF Quits
    <3>2. n \in Nat /\ m \in Nat
      <4>1. c \in Seq(CallSet)  BY DEF Follow
      <4> QED  BY <4>1
    <3> QED  BY <3>1, <3>2
  <2> QED  BY <1>1, <2>1, <2>2
<1>3. CASE ~ Quits(i, j, c)
  <2>1. \A n \in DOMAIN c : c[n].xid = j.xid
    BY <1>3 DEF Follow, Goes, GoesOn, TakesOffer, Renews, Checks, TakesAck, Binds
  <2> QED  BY <1>1, <2>1
<1> QED  BY <1>2, <1>3

LEMMA OrderMoves == ASSUME Typed, CallsInOrder, NEW c, Moved(c) PROVE CallsInOrder'
<1>1. Joined(queue, c, queue')  BY QueueJoined
<1>2. /\ \A n \in DOMAIN c : inner.xid <= c[n].xid /\ c[n].xid \in Nat
      /\ \A n, m \in DOMAIN c : n < m => c[n].xid <= c[m].xid
  BY MoveOrder DEF Moved, Typed, Follow, CallOK, CallSet
<1>3. /\ inner.xid \in Nat /\ making' = making
      /\ \A n \in DOMAIN queue : queue[n].xid \in Nat /\ queue[n].xid <= inner.xid
      /\ InHand => making.call.xid \in Nat /\ making.call.xid <= inner.xid
  BY DEF Moved, Typed, InnerOK, CallOK, CallSet, InHand, NoCall
<1>4. ASSUME NEW n \in DOMAIN queue', InHand PROVE making.call.xid <= queue'[n].xid
  BY <1>1, <1>2, <1>3, <1>4 DEF CallsInOrder, Joined
<1>5. ASSUME NEW n \in DOMAIN queue', NEW m \in DOMAIN queue', n < m
      PROVE  queue'[n].xid <= queue'[m].xid
  <2>1. CASE m \in DOMAIN queue /\ queue'[m] = queue[m] /\ m <= Len(queue)
    <3>1. n \in DOMAIN queue /\ queue'[n] = queue[n]
      BY <1>1, <1>5, <2>1 DEF Joined
    <3> QED  BY <1>5, <2>1, <3>1 DEF CallsInOrder
  <2>2. CASE \E p \in DOMAIN c : m = Len(queue) + p /\ queue'[m] = c[p]
    <3>1. PICK p \in DOMAIN c : m = Len(queue) + p /\ queue'[m] = c[p]  BY <2>2
    <3>2. CASE n \in DOMAIN queue /\ queue'[n] = queue[n]  BY <1>2, <1>3, <3>1, <3>2
    <3>3. CASE \E o \in DOMAIN c : n = Len(queue) + o /\ queue'[n] = c[o]
      <4>1. PICK o \in DOMAIN c : n = Len(queue) + o /\ queue'[n] = c[o]  BY <3>3
      <4>2. o < p  BY <1>1, <1>5, <3>1, <4>1 DEF Joined
      <4> QED  BY <1>2, <3>1, <4>1, <4>2
    <3> QED  BY <1>1, <3>2, <3>3 DEF Joined
  <2> QED  BY <1>1, <2>1, <2>2 DEF Joined
<1> QED  BY <1>3, <1>4, <1>5 DEF CallsInOrder, InHand

(* What a move does to the address and to the transaction.                 *)
LEMMA MoveKeeps ==
    ASSUME Typed, CoverInv, NEW c, Moved(c)
    PROVE  \/ /\ inner'.state \in {"Init", "Selecting"}
              /\ inner'.state = "Selecting" => inner'.xid = inner.xid + 1
              /\ \A n \in DOMAIN c : c[n].xid = inner'.xid /\ inner'.state = "Selecting" =>
                    c[n].kind = "discover"
           \/ /\ inner.state = "Selecting" /\ inner'.state \in {"Selecting", "Requesting"}
              /\ inner'.xid = inner.xid
              /\ inner'.state = "Selecting" => inner'.ip = inner.ip
              /\ \A n \in DOMAIN c : /\ c[n].kind \notin GivingUp
                                     /\ c[n].kind \in Asking =>
                                            c[n].ip = inner'.ip /\ inner'.state # "Selecting"
           \/ /\ Asked(inner) /\ Asked(inner') /\ inner'.ip = inner.ip
              /\ \/ inner'.xid = inner.xid
                 \/ inner'.xid = inner.xid + 1 /\ Having(inner)
              /\ Having(inner') => \/ Having(inner)
                                   \/ Asked(inner) /\ Answered
              /\ \A n \in DOMAIN c : /\ c[n].kind \notin GivingUp
                                     /\ c[n].kind \in Asking => c[n].ip = inner'.ip
<1>1. InnerOK(inner) /\ InnerOK(inner') /\ inner.xid \in Nat /\ Goes(inner, inner', c)
  BY DEF Moved, Follow, Typed, InnerOK
<1>2. CASE Quits(inner, inner', c)
  <2>1. inner'.state = "Selecting" => inner'.xid = inner.xid + 1
    BY <1>1, <1>2 DEF Quits
  <2>2. ASSUME NEW n \in DOMAIN c, c[n].xid = inner'.xid, inner'.state = "Selecting"
        PROVE  c[n].kind = "discover"
    BY <1>1, <1>2, <2>1, <2>2 DEF Quits
  <2> QED  BY <1>2, <2>1, <2>2 DEF Quits
<1>3. CASE GoesOn(inner, inner', c)
  <2>1. \A n \in DOMAIN c : /\ c[n].kind \notin GivingUp
                            /\ c[n].kind \in Asking => c[n].ip = inner'.ip /\ Asked(inner')
    BY <1>3 DEF GoesOn, GivingUp, Asking
  <2>2. CASE inner.state = "Init"
    <3>1. inner'.state = "Init"  BY <1>3, <2>2 DEF GoesOn
    <3> QED  BY <3>1
  <2>3. CASE inner.state = "Selecting"
    <3>1. inner'.state = "Selecting" /\ inner'.xid = inner.xid /\ inner'.ip = inner.ip
      BY <1>3, <2>3 DEF GoesOn
    <3> QED  BY <2>1, <2>3, <3>1 DEF Asked
  <2>4. CASE Asked(inner)
    <3>1. /\ Asked(inner') /\ inner'.ip = inner.ip /\ inner'.xid = inner.xid
          /\ Having(inner') => Having(inner)
      BY <1>3, <2>4 DEF GoesOn, Asked, Having, Leased
    <3> QED  BY <2>1, <2>4, <3>1
  <2> QED  BY <2>2, <2>3, <2>4 DEF Asked
<1>4. CASE TakesOffer(inner, inner', c)
  BY <1>4 DEF TakesOffer, GivingUp
<1>5. CASE Renews(inner, inner', c)
  BY <1>5 DEF Renews, Asked, Having, Leased, GivingUp
<1>6. CASE Checks(inner, inner', c) \/ TakesAck(inner, inner', c)
  <2>1. Asked(inner) /\ Asked(inner') /\ inner'.xid = inner.xid
    BY <1>6 DEF Checks, TakesAck, Asked
  <2>2. PICK r \in replies : AckOf(inner, r) /\ inner'.ip = r.ip
    BY <1>6 DEF Checks, TakesAck
  <2>3. Answered /\ inner'.ip = inner.ip
    BY <2>1, <2>2 DEF CoverInv, RepliesFit, Answered
  <2>4. \A n \in DOMAIN c : c[n].kind \notin GivingUp \cup Asking
    BY <1>6 DEF Checks, TakesAck, Begins, GivingUp, Asking
  <2> QED  BY <2>1, <2>3, <2>4
<1>7. CASE Binds(inner, inner', c)
  BY <1>7 DEF Binds, Asked, Having, GivingUp, Asking
<1> QED  BY <1>1, <1>2, <1>3, <1>4, <1>5, <1>6, <1>7 DEF Goes

LEMMA CallsMove ==
    ASSUME Typed, CoverInv, NEW c, Moved(c)
    PROVE  CallsAreOurs' /\ CallsAreHarmless' /\ RepliesFit'
<1>1. Joined(queue, c, queue')  BY QueueJoined
<1>2. UNCHANGED <<making, replies>>  BY DEF Moved
<1>3. /\ inner.xid \in Nat
      /\ \A n \in DOMAIN queue : queue[n].xid \in Nat /\ queue[n].xid <= inner.xid
      /\ InHand => making.call.xid \in Nat /\ making.call.xid <= inner.xid
      /\ \A r \in replies : r.xid \in Nat /\ r.xid <= inner.xid
      /\ inner'.xid \in Nat /\ inner.xid <= inner'.xid
  <2>1. inner.xid \in Nat /\ inner'.xid \in Nat /\ inner.xid <= inner'.xid
    BY DEF Moved, Follow, Typed, InnerOK
  <2>2. \A n \in DOMAIN queue : queue[n].xid \in Nat /\ queue[n].xid <= inner.xid
    BY DEF Typed, CallOK, CallSet
  <2>3. InHand => making.call.xid \in Nat /\ making.call.xid <= inner.xid
    BY DEF Typed, CallOK, CallSet, InHand, NoCall
  <2>4. \A r \in replies : r.xid \in Nat /\ r.xid <= inner.xid
    BY DEF CoverInv, RepliesFit
  <2> QED  BY <2>1, <2>2, <2>3, <2>4
<1>4. ASSUME inner'.state \in {"Init", "Selecting"},
             inner'.state = "Selecting" => inner'.xid = inner.xid + 1,
             \A n \in DOMAIN c : c[n].xid = inner'.xid /\ inner'.state = "Selecting" =>
                c[n].kind = "discover"
      PROVE  CallsAreOurs' /\ CallsAreHarmless' /\ RepliesFit'
  <2>1. ~ Having(inner') /\ ~ Asked(inner')  BY <1>4 DEF Having, Asked, Leased
  <2>2. CallsAreHarmless'  BY <2>1 DEF CallsAreHarmless
  <2>3. RepliesFit'  BY <1>2, <1>3, <1>4, <2>1 DEF RepliesFit, AckOf
  <2>4. \A n \in DOMAIN queue : OfTransaction(inner', queue[n])
    BY <1>3, <1>4 DEF OfTransaction
  <2>5. InHand => OfTransaction(inner', making.call)  BY <1>3, <1>4 DEF OfTransaction
  <2>6. \A n \in DOMAIN c : OfTransaction(inner', c[n])
    BY <1>4 DEF OfTransaction, GivingUp, Asking
  <2>7. \A n \in DOMAIN queue' : OfTransaction(inner', queue'[n])
    BY <1>1, <2>4, <2>6 DEF Joined
  <2>8. CallsAreOurs'  BY <1>2, <2>5, <2>7 DEF CallsAreOurs, InHand
  <2> QED  BY <2>2, <2>3, <2>8
<1>5. ASSUME inner.state = "Selecting", inner'.state \in {"Selecting", "Requesting"},
             inner'.xid = inner.xid, inner'.state = "Selecting" => inner'.ip = inner.ip,
             \A n \in DOMAIN c : /\ c[n].kind \notin GivingUp
                                 /\ c[n].kind \in Asking =>
                                        c[n].ip = inner'.ip /\ inner'.state # "Selecting"
      PROVE  CallsAreOurs' /\ CallsAreHarmless' /\ RepliesFit'
  <2>1. \A r \in replies : ~ AckOf(inner, r)  BY <1>5 DEF CoverInv, RepliesFit
  <2>2. \A r \in replies : ~ AckOf(inner', r)  BY <1>5, <2>1 DEF AckOf
  <2>3. ~ Having(inner')  BY <1>5 DEF Having, Leased
  <2>4. CallsAreHarmless'  BY <1>2, <2>2, <2>3 DEF CallsAreHarmless, Answered
  <2>5. RepliesFit'  BY <1>2, <1>3, <2>2 DEF RepliesFit
  <2>6. ASSUME NEW d, OfTransaction(inner, d) PROVE OfTransaction(inner', d)
    BY <1>5, <2>6 DEF OfTransaction
  <2>7. \A n \in DOMAIN c : OfTransaction(inner', c[n])  BY <1>5 DEF OfTransaction
  <2>8. \A n \in DOMAIN queue' : OfTransaction(inner', queue'[n])
    BY <1>1, <2>6, <2>7 DEF Joined, CoverInv, CallsAreOurs
  <2>9. CallsAreOurs'
    BY <1>2, <2>6, <2>8 DEF CallsAreOurs, InHand, CoverInv
  <2> QED  BY <2>4, <2>5, <2>9
<1>6. ASSUME Asked(inner), Asked(inner'), inner'.ip = inner.ip,
             \/ inner'.xid = inner.xid
             \/ inner'.xid = inner.xid + 1 /\ Having(inner),
             Having(inner') => Having(inner) \/ (Asked(inner) /\ Answered),
             \A n \in DOMAIN c : /\ c[n].kind \notin GivingUp
                                 /\ c[n].kind \in Asking => c[n].ip = inner'.ip
      PROVE  CallsAreOurs' /\ CallsAreHarmless' /\ RepliesFit'
  <2>1. inner'.state # "Selecting" /\ inner.state # "Init" /\ inner.state # "Selecting"
    BY <1>6 DEF Asked
  <2>2. \A n \in DOMAIN c : Harmless(inner', c[n]) /\ OfTransaction(inner', c[n])
    BY <1>6, <2>1 DEF Harmless, OfTransaction
  <2>3. \A d : Harmless(inner, d) => Harmless(inner', d)  BY <1>6 DEF Harmless
  <2>4. ASSUME NEW d, OfTransaction(inner, d), d.xid \in Nat, d.xid <= inner.xid
        PROVE  OfTransaction(inner', d)
    BY <1>3, <1>6, <2>1, <2>4 DEF OfTransaction
  <2>5. CallsAreOurs'
    <3>1. \A n \in DOMAIN queue' : OfTransaction(inner', queue'[n])
      BY <1>1, <1>3, <2>2, <2>4 DEF Joined, CoverInv, CallsAreOurs
    <3> QED  BY <1>2, <1>3, <2>4, <3>1 DEF CallsAreOurs, InHand, CoverInv
  <2>6. ASSUME Having(inner') \/ \E r \in replies : AckOf(inner', r)
        PROVE  Having(inner) \/ (Asked(inner) /\ Answered)
    <3>1. ASSUME NEW r \in replies, AckOf(inner', r), inner'.xid = inner.xid
          PROVE  Answered
      BY <3>1 DEF AckOf, Answered
    <3> QED  BY <1>6, <2>6, <3>1
  <2>7. CallsAreHarmless'
    <3>1. ASSUME Having(inner) \/ (Asked(inner) /\ Answered)
          PROVE  /\ \A n \in DOMAIN queue' : Harmless(inner', queue'[n])
                 /\ InHand => Harmless(inner', making.call)
      BY <1>1, <2>2, <2>3, <3>1 DEF Joined, CoverInv, CallsAreHarmless
    <3> QED  BY <1>2, <2>6, <3>1 DEF CallsAreHarmless, Answered, InHand
  <2>8. RepliesFit'
    BY <1>2, <1>3, <1>6, <2>1 DEF RepliesFit, AckOf, CoverInv
  <2> QED  BY <2>5, <2>7, <2>8
<1> QED  BY <1>4, <1>5, <1>6, MoveKeeps

LEMMA LeaseMoves ==
    ASSUME Typed, CoverInv, NEW c, Moved(c) PROVE TimesFit' /\ LeaseFits'
<1>1. UNCHANGED <<clock, servers, replies>>  BY DEF Moved
<1>2. Goes(inner, inner', c)  BY DEF Moved, Follow
<1>3. /\ inner.requested \in Int /\ clock \in Nat /\ inner.requested <= clock
      /\ inner.xid \in Nat /\ LEASE \in Nat
      /\ \A r \in replies : r.xid \in Nat /\ r.xid <= inner.xid
  BY ConstantsAre DEF Typed, InnerOK, CoverInv, TimesFit, RepliesFit
<1>4. \A ip, e : Covered(ip, e) => Covered(ip, e)'  BY <1>1 DEF Covered
<1>5. ASSUME NEW t \in Tickers, ticks[t] # Idle
      PROVE  ticks[t].now \in Nat /\ ticks[t].now <= clock
  BY <1>5 DEF Typed, CoverInv, TimesFit
<1>6. \A t \in Tickers : ticks'[t] # Idle => ticks'[t].now <= clock'
  <2>1. ticks' = ticks \/ \E t \in Tickers : ticks' = [ticks EXCEPT ![t] = Idle]
    BY DEF Moved
  <2> QED  BY <1>1, <1>5, <2>1 DEF Typed
<1>7. inner'.requested <= clock'
  <2>1. \/ inner'.requested = inner.requested \/ inner'.requested = clock
        \/ \E t \in Tickers : ticks[t] # Idle /\ inner'.requested = ticks[t].now
    BY <1>2 DEF Goes, Quits, GoesOn, TakesOffer, Renews, Checks, TakesAck, Binds
  <2> QED  BY <1>1, <1>3, <1>5, <2>1
<1>8. TimesFit'  BY <1>6, <1>7 DEF TimesFit
<1>9. LeaseFits'
  <2>1. CASE Quits(inner, inner', c)
    BY <2>1 DEF Quits, LeaseFits, Leased, Asks
  <2>2. CASE GoesOn(inner, inner', c)
    <3>1. /\ inner'.lease = inner.lease /\ inner'.pending = inner.pending
          /\ inner'.ip = inner.ip /\ inner'.requested = inner.requested
          /\ inner'.xid = inner.xid
          /\ Leased(inner'.state) <=> Leased(inner.state)
          /\ inner'.state = "Probing" <=> inner.state = "Probing"
          /\ Asks(inner') <=> Asks(inner)
      BY <2>2 DEF GoesOn, Leased, Asks
    <3>2. Answered' => Answered  BY <1>1, <3>1 DEF Answered, AckOf
    <3> QED  BY <1>1, <1>4, <3>1, <3>2 DEF CoverInv, LeaseFits
  <2>3. CASE TakesOffer(inner, inner', c)
    <3>1. ~ Answered'
      BY <1>1, <2>3 DEF TakesOffer, Answered, AckOf, CoverInv, RepliesFit
    <3> QED  BY <2>3, <3>1 DEF TakesOffer, LeaseFits, Leased
  <2>4. CASE Renews(inner, inner', c)
    <3>1. inner'.xid = inner.xid + 1 /\ Leased(inner.state) /\ inner'.state # "Probing"
          /\ inner'.lease = inner.lease /\ inner'.ip = inner.ip
      BY <2>4 DEF Renews, Leased
    <3>2. ~ Answered'  BY <1>1, <1>3, <3>1 DEF Answered, AckOf
    <3> QED  BY <1>1, <1>4, <3>1, <3>2 DEF CoverInv, LeaseFits
  <2>5. CASE Checks(inner, inner', c) \/ TakesAck(inner, inner', c)
    <3>1. /\ Asks(inner) /\ Asked(inner) /\ ~ Asks(inner')
      BY <2>5 DEF Checks, TakesAck, Asks, Asked
    <3>2. PICK r \in replies : AckOf(inner, r) /\ inner'.ip = r.ip
      BY <2>5 DEF Checks, TakesAck
    <3>3. Answered /\ inner'.ip = inner.ip
      BY <3>1, <3>2 DEF CoverInv, RepliesFit, Answered
    <3>4. PICK e : e = inner.requested + LEASE  OBVIOUS
    <3>5. Covered(inner.ip, e) /\ e <= clock + LEASE
      BY <1>3, <3>1, <3>3, <3>4 DEF CoverInv, LeaseFits
    <3>6. /\ Leased(inner'.state) => inner'.lease.expiry = e
          /\ inner'.state = "Probing" => inner'.pending.expiry = e
      BY <2>5, <3>4 DEF Checks, TakesAck, Leased
    <3> QED  BY <1>1, <1>4, <3>1, <3>3, <3>5, <3>6 DEF LeaseFits
  <2>6. CASE Binds(inner, inner', c)
    <3>1. /\ inner.state = "Probing" /\ inner'.state = "Bound" /\ ~ Asks(inner')
          /\ inner'.lease = inner.pending /\ inner'.ip = inner.ip
      BY <2>6 DEF Binds, Asks
    <3> QED  BY <1>1, <1>4, <3>1 DEF CoverInv, LeaseFits
  <2> QED  BY <1>2, <2>1, <2>2, <2>3, <2>4, <2>5, <2>6 DEF Goes
<1> QED  BY <1>8, <1>9

LEMMA CoverMoves == ASSUME Typed, CoverInv, NEW c, Moved(c) PROVE CoverInv'
BY OrderMoves, CallsMove, LeaseMoves DEF CoverInv

LEMMA CoverDelivers == ASSUME Typed, CoverInv, DeliverNext PROVE CoverInv'
<1>1. queue \in Seq(CallSet) /\ queue # <<>>  BY DEF DeliverNext, Typed
<1>2. PICK q : q = Tail(queue)  OBVIOUS
<1>3. PICK h : h = Head(queue)  OBVIOUS
<1>4. /\ 1 \in DOMAIN queue /\ h = queue[1]
      /\ \A n \in DOMAIN q : n \in Nat \ {0} /\ n + 1 \in DOMAIN queue /\ q[n] = queue[n + 1]
  <2>1. q \in Seq(CallSet)  BY <1>1, <1>2, TailIs
  <2>2. \A n \in DOMAIN q : n \in Nat \ {0}  BY <2>1
  <2> QED  BY <1>1, <1>2, <1>3, <2>2, TailIs
<1>5. /\ making = NoCall
      /\ making' = NoCall \/ making' = [stage |-> "make", call |-> h]
      /\ queue' = q
      /\ UNCHANGED <<clock, inner, ticks, servers, replies>>
  BY <1>2, <1>3 DEF DeliverNext
<1>6. InHand' => making'.call = h  BY <1>5 DEF InHand, NoCall
<1>7. CallsInOrder'
  <2>1. ASSUME NEW n \in DOMAIN q PROVE h.xid <= q[n].xid
    <3>1. n + 1 \in DOMAIN queue /\ 1 < n + 1 /\ q[n] = queue[n + 1]  BY <1>4
    <3> QED  BY <1>4, <3>1 DEF CoverInv, CallsInOrder
  <2>2. ASSUME NEW n \in DOMAIN q, NEW m \in DOMAIN q, n < m PROVE q[n].xid <= q[m].xid
    <3>1. n + 1 < m + 1  BY <1>4, <2>2
    <3> QED  BY <1>4, <3>1 DEF CoverInv, CallsInOrder
  <2> QED  BY <1>5, <1>6, <2>1, <2>2 DEF CallsInOrder
<1>8. CallsAreOurs'
  BY <1>4, <1>5, <1>6 DEF CoverInv, CallsAreOurs, OfTransaction
<1>9. CallsAreHarmless'
  BY <1>4, <1>5, <1>6 DEF CoverInv, CallsAreHarmless, Harmless, Answered, AckOf
<1>10. RepliesFit' /\ TimesFit' /\ LeaseFits'
  BY <1>5 DEF CoverInv, RepliesFit, TimesFit, LeaseFits, AckOf, Answered, Covered
<1> QED  BY <1>7, <1>8, <1>9, <1>10 DEF CoverInv

(* The lease ends of the servers are times.                                *)
GrantsTimed == \A s \in Servers : servers[s].until \in Int

(* What the servers do with a message that is sent: nothing, or an offer;  *)
(* one of them grants what is asked for; refuses what it does not have     *)
(* leased; or takes back what is given up.                                 *)
Offers(c) ==
    /\ servers' = servers
    /\ \/ replies' = replies
       \/ \E r : r.kind = "offer" /\ r.xid = c.xid /\ replies' = replies \cup {r}

Grants(c, s) ==
    /\ c.kind \in Asking
    /\ servers' = [servers EXCEPT ![s] = [ip |-> c.ip, until |-> clock + LEASE]]
    /\ \E r : /\ r.kind = "ack" /\ r.xid = c.xid /\ r.ip = c.ip
              /\ replies' = replies \cup {r}

Refuses(c, s) ==
    /\ c.kind \in Asking
    /\ ~ (servers[s].ip = c.ip /\ clock < servers[s].until)
    /\ servers' = [servers EXCEPT ![s] = NoGrant]
    /\ \E r : r.kind = "nak" /\ r.xid = c.xid /\ replies' = replies \cup {r}

Forgets(c, s) ==
    /\ c.kind \in GivingUp
    /\ servers' = [servers EXCEPT ![s] = NoGrant]
    /\ replies' = replies

Sent(c) ==
    Offers(c) \/ \E s \in Servers : Grants(c, s) \/ Refuses(c, s) \/ Forgets(c, s)

LEMMA SendIs ==
    ASSUME Typed, CallSend
    PROVE  /\ Sent(making.call) /\ InHand /\ CallOK(inner, making.call)
           /\ making' = NoCall
           /\ UNCHANGED <<clock, inner, queue, ticks, scope>>
<1>1. /\ InHand /\ making' = NoCall /\ making # NoCall
      /\ UNCHANGED <<clock, inner, queue, ticks, scope>>
  BY DEF CallSend, Calling, InHand, NoCall
<1>2. CallOK(inner, making.call)  BY <1>1 DEF Typed
<1>3. PICK c : c = making.call  OBVIOUS
<1>4. /\ c.kind \in {"discover", "select", "renew", "rebind", "release", "decline"}
      /\ \/ \E s \in scope.servers : ServerHandles(s, c.kind)
         \/ UNCHANGED <<servers, replies>>
  BY <1>3 DEF CallSend, Calling
<1>5. ASSUME NEW s \in scope.servers, ServerHandles(s, c.kind) PROVE Sent(c)
  <2>1. s \in Servers  BY ConstantsAre DEF Typed
  <2>2. Holds(s) <=> servers[s].ip = c.ip /\ clock < servers[s].until
    BY <1>3 DEF Holds
  <2>3. ASSUME NEW kind, NEW ip, NEW r, r = Reply(s, kind, ip)
        PROVE  r.kind = kind /\ r.xid = c.xid /\ r.ip = ip
    BY <1>3, <2>3 DEF Reply
  <2>4. ASSUME Grant(s), c.kind \in Asking PROVE Grants(c, s)
    <3>1. PICK r : r = Reply(s, "ack", c.ip)  OBVIOUS
    <3>2. r.kind = "ack" /\ r.xid = c.xid /\ r.ip = c.ip  BY <2>3, <3>1
    <3> QED  BY <1>3, <2>4, <3>1, <3>2 DEF Grant, Grants
  <2>5. ASSUME Refuse(s), ~ Holds(s), c.kind \in Asking PROVE Refuses(c, s)
    <3>1. PICK r : r = Reply(s, "nak", None)  OBVIOUS
    <3>2. r.kind = "nak" /\ r.xid = c.xid  BY <2>3, <3>1
    <3> QED  BY <2>2, <2>5, <3>1, <3>2 DEF Refuse, Refuses
  <2>6. CASE c.kind = "discover"
    <3>1. PICK ip \in Addrs : /\ replies' = replies \cup {Reply(s, "offer", ip)}
                              /\ UNCHANGED servers
      BY <1>5, <2>6 DEF ServerHandles
    <3>2. PICK r : r = Reply(s, "offer", ip)  OBVIOUS
    <3>3. r.kind = "offer" /\ r.xid = c.xid  BY <2>3, <3>2
    <3> QED  BY <3>1, <3>2, <3>3 DEF Sent, Offers
  <2>7. CASE c.kind \in Asking
    <3>1. Grant(s) \/ (~ Holds(s) /\ Refuse(s))
      BY <1>5, <2>7 DEF ServerHandles, Asking
    <3> QED  BY <2>1, <2>4, <2>5, <2>7, <3>1 DEF Sent
  <2>8. CASE c.kind \in GivingUp
    <3>1. servers' = [servers EXCEPT ![s] = NoGrant] /\ replies' = replies
      BY <1>5, <2>8 DEF ServerHandles, GivingUp
    <3> QED  BY <2>1, <2>8, <3>1 DEF Sent, Forgets
  <2> QED  BY <1>4, <2>6, <2>7, <2>8 DEF Asking, GivingUp
<1>6. Sent(c)  BY <1>4, <1>5 DEF Sent, Offers
<1> QED  BY <1>1, <1>2, <1>3, <1>6

LEMMA GrantsInit == Init => GrantsTimed
BY DEF Init, GrantsTimed, NoGrant

LEMMA GrantsNext == Typed /\ GrantsTimed /\ [Next]_vars => GrantsTimed'
<1> SUFFICES ASSUME Typed, GrantsTimed, [Next]_vars PROVE GrantsTimed'  OBVIOUS
<1>1. ASSUME UNCHANGED servers PROVE GrantsTimed'  BY <1>1 DEF GrantsTimed
<1>2. ASSUME OwnStep PROVE UNCHANGED servers  BY <1>2, ClientMoves DEF Moved
<1>3. ASSUME NEW t, TickStart(t) \/ TickAsk(t) PROVE UNCHANGED servers
  BY <1>3 DEF TickStart, TickAsk
<1>4. ASSUME \/ DeliverNext \/ CallBound \/ CallLost \/ CallEndProbe \/ CallBeginProbe
             \/ CallProbeLive \/ CallArp \/ Conflict \/ Pass \/ UNCHANGED vars
      PROVE  UNCHANGED servers
  BY <1>4 DEF DeliverNext, CallBound, CallLost, CallEndProbe, CallBeginProbe,
              CallProbeLive, CallArp, Conflict, Pass, vars
<1>5. ASSUME CallSend PROVE GrantsTimed'
  <2>1. \A c, s : Grants(c, s) => \A w \in Servers : servers'[w].until \in Int
    BY ConstantsAre DEF Grants, Typed, GrantsTimed
  <2>2. \A c, s : Refuses(c, s) \/ Forgets(c, s) =>
            \A w \in Servers : servers'[w].until \in Int
    BY DEF Refuses, Forgets, NoGrant, Typed, GrantsTimed
  <2>3. Sent(making.call)  BY <1>5, SendIs
  <2> QED  BY <1>1, <2>1, <2>2, <2>3 DEF Sent, Offers, GrantsTimed
<1> QED  BY <1>1, <1>2, <1>3, <1>4, <1>5 DEF Next, OwnStep

(* A message that asks for the address, or none, costs it no lease.        *)
LEMMA CoverKept ==
    ASSUME Typed, GrantsTimed, NEW c, Sent(c), clock' = clock,
           NEW ip, NEW e \in Int, Covered(ip, e), e <= clock + LEASE,
           c.kind \notin GivingUp, c.kind \in Asking => c.ip = ip
    PROVE  Covered(ip, e)'
<1> SUFFICES ASSUME clock < e
             PROVE  \E w \in Servers : servers'[w].ip = ip /\ e <= servers'[w].until
  BY DEF Covered
<1>1. PICK w \in Servers : servers[w].ip = ip /\ e <= servers[w].until  BY DEF Covered
<1>2. clock \in Nat /\ LEASE \in Nat /\ servers[w].until \in Int
  BY ConstantsAre DEF Typed, GrantsTimed
<1>3. CASE Offers(c)  BY <1>1, <1>3 DEF Offers
<1>4. ASSUME NEW s \in Servers, Grants(c, s)
      PROVE  \E x \in Servers : servers'[x].ip = ip /\ e <= servers'[x].until
  <2>1. servers'[s] = [ip |-> ip, until |-> clock + LEASE]
    BY <1>4 DEF Grants, Typed
  <2>2. servers'[s].ip = ip /\ e <= servers'[s].until  BY <1>2, <2>1
  <2> QED  BY <2>2
<1>5. ASSUME NEW s \in Servers, Refuses(c, s)
      PROVE  \E x \in Servers : servers'[x].ip = ip /\ e <= servers'[x].until
  <2>1. w # s  BY <1>1, <1>2, <1>5 DEF Refuses
  <2>2. servers'[w] = servers[w]  BY <1>5, <2>1 DEF Refuses, Typed
  <2> QED  BY <1>1, <2>2
<1>6. \A s : ~ Forgets(c, s)  BY DEF Forgets
<1> QED  BY <1>3, <1>4, <1>5, <1>6 DEF Sent

LEMMA CoverSends ==
    ASSUME Typed, GrantsTimed, CoverInv, CallSend PROVE CoverInv'
<1>1. PICK c : c = making.call  OBVIOUS
<1>2. /\ Sent(c) /\ InHand /\ CallOK(inner, c) /\ making' = NoCall
      /\ UNCHANGED <<clock, inner, queue, ticks>>
  BY <1>1, SendIs
<1>3. ~ InHand'  BY <1>2 DEF InHand, NoCall
<1>4. /\ clock \in Nat /\ LEASE \in Nat /\ inner.xid \in Nat
      /\ inner.requested \in Int /\ inner.lease.expiry \in Int
      /\ inner.pending.expiry \in Int /\ inner.requested <= clock
      /\ c.xid \in Nat /\ c.xid <= inner.xid
      /\ OfTransaction(inner, c)
      /\ \A n \in DOMAIN queue : /\ queue[n].xid \in Nat /\ queue[n].xid <= inner.xid
                                 /\ c.xid <= queue[n].xid
                                 /\ OfTransaction(inner, queue[n])
  BY <1>1, <1>2, ConstantsAre
  DEF Typed, InnerOK, CallOK, CallSet, CoverInv, TimesFit, CallsAreOurs, CallsInOrder
<1>5. /\ \A n, m \in DOMAIN queue : n < m => queue[n].xid <= queue[m].xid
      /\ Having(inner) \/ (Asked(inner) /\ Answered) =>
            /\ Harmless(inner, c)
            /\ \A n \in DOMAIN queue : Harmless(inner, queue[n])
  BY <1>1, <1>2 DEF CoverInv, CallsInOrder, CallsAreHarmless
<1>6. \A r \in replies' :
        \/ r \in replies
        \/ r.xid = c.xid /\ r.kind # "ack"
        \/ /\ r.xid = c.xid /\ r.ip = c.ip /\ c.kind \in Asking
           /\ \E s \in Servers : Grants(c, s)
  BY <1>2 DEF Sent, Offers, Grants, Refuses, Forgets
<1>7. ASSUME NEW r \in replies', AckOf(inner, r)
      PROVE  \/ r \in replies
             \/ /\ inner.state # "Init" => inner.state # "Selecting" /\ r.ip = inner.ip
                                           /\ c.ip = inner.ip
                /\ inner.state # "Init" =>
                        \A n \in DOMAIN queue : Harmless(inner, queue[n])
                /\ \E s \in Servers : Grants(c, s)
  <2>1. CASE r \in replies  BY <2>1
  <2>2. CASE r \notin replies
    <3>1. /\ c.xid = inner.xid /\ r.ip = c.ip /\ c.kind \in Asking
          /\ \E s \in Servers : Grants(c, s)
      BY <1>6, <1>7, <2>2 DEF AckOf
    <3>2. \A n \in DOMAIN queue : queue[n].xid = inner.xid  BY <1>4, <3>1
    <3>3. inner.state # "Init" => c.ip = inner.ip /\ inner.state # "Selecting"
      BY <1>4, <3>1 DEF OfTransaction
    <3>4. inner.state # "Init" => \A n \in DOMAIN queue : Harmless(inner, queue[n])
      BY <1>4, <3>2 DEF OfTransaction, Harmless
    <3> QED  BY <3>1, <3>3, <3>4
  <2> QED  BY <2>1, <2>2
<1>8. CallsInOrder'  BY <1>2, <1>3, <1>5 DEF CallsInOrder
<1>9. CallsAreOurs'  BY <1>2, <1>3, <1>4 DEF CallsAreOurs
<1>10. CallsAreHarmless'
  <2>1. ASSUME NEW r \in replies', AckOf(inner, r), Asked(inner)
        PROVE  \A n \in DOMAIN queue : Harmless(inner, queue[n])
    BY <1>5, <1>7, <2>1 DEF Answered, Asked
  <2>2. Having(inner) \/ (Asked(inner) /\ \E r \in replies' : AckOf(inner, r)) =>
            \A n \in DOMAIN queue : Harmless(inner, queue[n])
    BY <1>5, <2>1
  <2> QED  BY <1>2, <1>3, <2>2 DEF CallsAreHarmless, Answered
<1>11. RepliesFit'
  <2>1. \A r \in replies' : r.xid \in Nat /\ r.xid <= inner.xid
    BY <1>4, <1>6 DEF CoverInv, RepliesFit
  <2>2. \A r \in replies' : AckOf(inner, r) =>
            (Asked(inner) => r.ip = inner.ip) /\ inner.state # "Selecting"
    BY <1>7 DEF CoverInv, RepliesFit, Asked
  <2> QED  BY <1>2, <2>1, <2>2 DEF RepliesFit
<1>12. TimesFit'  BY <1>2 DEF CoverInv, TimesFit
<1>13. ASSUME NEW e \in Int, Covered(inner.ip, e), e <= clock + LEASE,
              Having(inner) \/ (Asked(inner) /\ Answered)
       PROVE  Covered(inner.ip, e)'
  <2>1. c.kind \notin GivingUp /\ (c.kind \in Asking => c.ip = inner.ip)
    BY <1>5, <1>13 DEF Harmless
  <2>2. PICK ip : ip = inner.ip  OBVIOUS
  <2>3. Covered(ip, e)'  BY <1>2, <1>13, <2>1, <2>2, CoverKept
  <2> QED  BY <1>2, <2>2, <2>3 DEF Covered
<1>14. LeaseFits'
  <2>1. Leased(inner.state) => Covered(inner.ip, inner.lease.expiry)'
    <3>1. PICK e : e = inner.lease.expiry  OBVIOUS
    <3>2. Leased(inner.state) => Covered(inner.ip, e)'
      BY <1>4, <1>13, <3>1 DEF CoverInv, LeaseFits, Having
    <3> QED  BY <1>2, <3>1, <3>2
  <2>2. inner.state = "Probing" => Covered(inner.ip, inner.pending.expiry)'
    <3>1. PICK e : e = inner.pending.expiry  OBVIOUS
    <3>2. inner.state = "Probing" => Covered(inner.ip, e)'
      BY <1>4, <1>13, <3>1 DEF CoverInv, LeaseFits, Having
    <3> QED  BY <1>2, <3>1, <3>2
  <2>3. ASSUME Asks(inner), NEW r \in replies', AckOf(inner, r)
        PROVE  Covered(inner.ip, inner.requested + LEASE)'
    <3>1. Asked(inner) /\ inner.state # "Init"  BY <2>3 DEF Asks, Asked
    <3>2. PICK e : e = inner.requested + LEASE  OBVIOUS
    <3>3. e \in Int /\ e <= clock + LEASE  BY <1>4, <3>2
    <3>4. CASE r \in replies
      <4>1. Answered  BY <2>3, <3>4 DEF Answered
      <4>2. Covered(inner.ip, e)'
        BY <1>13, <2>3, <3>1, <3>2, <3>3, <4>1 DEF CoverInv, LeaseFits
      <4> QED  BY <1>2, <3>2, <4>2
    <3>5. CASE r \notin replies
      <4>1. PICK s \in Servers : Grants(c, s)  BY <1>7, <2>3, <3>5
      <4>2. c.ip = inner.ip  BY <1>7, <2>3, <3>1, <3>5
      <4>3. servers'[s] = [ip |-> inner.ip, until |-> clock + LEASE]
        BY <4>1, <4>2 DEF Grants, Typed
      <4>4. servers'[s].ip = inner.ip /\ e <= servers'[s].until  BY <3>3, <4>3
      <4>5. Covered(inner.ip, e)'  BY <1>2, <4>4 DEF Covered
      <4> QED  BY <1>2, <3>2, <4>5
    <3> QED  BY <3>4, <3>5
  <2> QED  BY <1>2, <2>1, <2>2, <2>3 DEF CoverInv, LeaseFits, Answered
<1> QED  BY <1>8, <1>9, <1>10, <1>11, <1>12, <1>14 DEF CoverInv

LEMMA CoverInit == Init => CoverInv
<1> SUFFICES ASSUME Init PROVE CoverInv  OBVIOUS
<1>1. /\ DOMAIN queue = {} /\ ~ InHand /\ replies = {} /\ inner.state = "Init"
      /\ inner.requested = None /\ clock = 0
      /\ \A t \in Tickers : ticks[t] = Idle
  BY DEF Init, NoCall, InHand
<1>2. CallsInOrder /\ CallsAreOurs /\ CallsAreHarmless /\ RepliesFit
  BY <1>1 DEF CallsInOrder, CallsAreOurs, CallsAreHarmless, RepliesFit, Having, Leased,
              Asked
<1>3. TimesFit  BY <1>1, ConstantsAre DEF TimesFit
<1>4. LeaseFits  BY <1>1 DEF LeaseFits, Leased, Asks
<1> QED  BY <1>2, <1>3, <1>4 DEF CoverInv

LEMMA CoverNext == Typed /\ GrantsTimed /\ CoverInv /\ [Next]_vars => CoverInv'
<1> SUFFICES ASSUME Typed, GrantsTimed, CoverInv, [Next]_vars PROVE CoverInv'  OBVIOUS
<1>1. ASSUME OwnStep PROVE CoverInv'  BY <1>1, ClientMoves, CoverMoves
<1>2. ASSUME UNCHANGED <<clock, inner, queue, ticks, servers, replies>>,
             making' = NoCall \/ (InHand /\ making'.call = making.call) \/ making' = making
      PROVE  CoverInv'
  <2>1. InHand' => InHand /\ making'.call = making.call
    BY <1>2 DEF InHand, NoCall
  <2> QED
    BY <1>2, <2>1 DEF CoverInv, CallsInOrder, CallsAreOurs, CallsAreHarmless, RepliesFit,
                      TimesFit, LeaseFits, Answered, Covered
<1>3. ASSUME NEW t \in Tickers, TickStart(t) \/ TickAsk(t) PROVE CoverInv'
  <2>1. /\ UNCHANGED <<clock, inner, queue, making, servers, replies>>
        /\ \E k : /\ ticks' = [ticks EXCEPT ![t] = k]
                  /\ k.now = clock \/ k.now <= clock
    <3>1. CASE TickStart(t)
      <4>1. PICK k : k = IF Watching(inner)
            THEN [pc |-> "ask", now |-> clock, ip |-> inner.ip, check |-> inner.check]
            ELSE [pc |-> "step", now |-> clock, check |-> None]
        OBVIOUS
      <4>2. k.now = clock  BY <4>1
      <4> QED  BY <3>1, <4>1, <4>2 DEF TickStart
    <3>2. CASE TickAsk(t)
      <4>1. PICK d : d = IF adapter.probe = [ip |-> ticks[t].ip, conflict |-> TRUE]
                         THEN ticks[t].check ELSE None
        OBVIOUS
      <4>2. PICK k : k = [pc |-> "step", now |-> ticks[t].now, check |-> d]  OBVIOUS
      <4>3. ticks[t] # Idle  BY <3>2 DEF TickAsk, Idle
      <4>4. k.now <= clock  BY <4>2, <4>3 DEF CoverInv, TimesFit
      <4> QED  BY <3>2, <4>1, <4>2, <4>4 DEF TickAsk
    <3> QED  BY <1>3, <3>1, <3>2
  <2>2. TimesFit'
    BY <2>1 DEF CoverInv, TimesFit, Typed
  <2> QED
    BY <2>1, <2>2 DEF CoverInv, CallsInOrder, CallsAreOurs, CallsAreHarmless, RepliesFit,
                      LeaseFits, Answered, Covered, InHand
<1>4. ASSUME DeliverNext PROVE CoverInv'  BY <1>4, CoverDelivers
<1>5. ASSUME CallBound \/ CallLost \/ CallEndProbe \/ CallArp PROVE CoverInv'
  BY <1>2, <1>5 DEF CallBound, CallLost, CallEndProbe, CallArp
<1>6. ASSUME CallBeginProbe PROVE CoverInv'
  <2>1. InHand /\ making # NoCall
    BY <1>6 DEF CallBeginProbe, Calling, InHand, NoCall
  <2>2. making'.call = making.call  BY <1>6, <2>1 DEF CallBeginProbe, Typed
  <2> QED  BY <1>2, <1>6, <2>1, <2>2 DEF CallBeginProbe
<1>7. ASSUME CallProbeLive PROVE CoverInv'
  <2>1. PICK live : inner' = [inner EXCEPT !.live = live]  BY <1>7 DEF CallProbeLive
  <2>2. /\ inner'.state = inner.state /\ inner'.xid = inner.xid /\ inner'.ip = inner.ip
        /\ inner'.requested = inner.requested /\ inner'.lease = inner.lease
        /\ inner'.pending = inner.pending
    BY <2>1 DEF Typed, InnerOK
  <2>3. ~ InHand' /\ UNCHANGED <<clock, queue, ticks, servers, replies>>
    BY <1>7 DEF CallProbeLive, InHand, NoCall
  <2>4. PICK j : j = inner'  OBVIOUS
  <2>5. /\ \A d : OfTransaction(j, d) <=> OfTransaction(inner, d)
        /\ \A d : Harmless(j, d) <=> Harmless(inner, d)
        /\ \A r : AckOf(j, r) <=> AckOf(inner, r)
        /\ Having(j) <=> Having(inner)
        /\ Asked(j) <=> Asked(inner)
        /\ Asks(j) <=> Asks(inner)
    BY <2>2, <2>4 DEF OfTransaction, Harmless, AckOf, Having, Asked, Asks
  <2>6. CallsInOrder'  BY <2>3 DEF CallsInOrder, CoverInv
  <2>7. CallsAreOurs'  BY <2>3, <2>4, <2>5 DEF CallsAreOurs, CoverInv
  <2>8. CallsAreHarmless'
    BY <2>3, <2>4, <2>5 DEF CallsAreHarmless, CoverInv, Answered
  <2>9. RepliesFit'  BY <2>2, <2>3, <2>4, <2>5 DEF RepliesFit, CoverInv
  <2>10. TimesFit'  BY <2>2, <2>3 DEF TimesFit, CoverInv
  <2>11. LeaseFits'
    BY <2>2, <2>3, <2>4, <2>5 DEF LeaseFits, CoverInv, Answered, Covered
  <2> QED  BY <2>6, <2>7, <2>8, <2>9, <2>10, <2>11 DEF CoverInv
<1>8. ASSUME CallSend PROVE CoverInv'  BY <1>8, CoverSends
<1>9. ASSUME Conflict \/ UNCHANGED vars PROVE CoverInv'
  BY <1>2, <1>9 DEF Conflict, vars
<1>10. ASSUME Pass PROVE CoverInv'
  <2>1. /\ clock' = clock + 1 /\ clock \in Nat /\ LEASE \in Nat
        /\ UNCHANGED <<inner, queue, making, ticks, servers, replies>>
    BY <1>10, ConstantsAre DEF Pass, Typed
  <2>2. /\ inner.requested \in Int /\ inner.lease.expiry \in Int
        /\ inner.pending.expiry \in Int
        /\ \A t \in Tickers : ticks[t] # Idle => ticks[t].now \in Nat
    BY DEF Typed, InnerOK
  <2>3. ASSUME NEW ip, NEW e \in Int, Covered(ip, e) PROVE Covered(ip, e)'
    BY <2>1, <2>3 DEF Covered
  <2>4. TimesFit'  BY <2>1, <2>2 DEF CoverInv, TimesFit
  <2>5. LeaseFits'
    <3>1. Leased(inner.state) => inner.lease.expiry <= clock + LEASE
                                 /\ Covered(inner.ip, inner.lease.expiry)'
      <4>1. PICK ip, e : ip = inner.ip /\ e = inner.lease.expiry  OBVIOUS
      <4>2. Leased(inner.state) => e <= clock + LEASE /\ Covered(ip, e)'
        BY <2>2, <2>3, <4>1 DEF CoverInv, LeaseFits
      <4> QED  BY <2>1, <4>1, <4>2
    <3>2. inner.state = "Probing" => inner.pending.expiry <= clock + LEASE
                                     /\ Covered(inner.ip, inner.pending.expiry)'
      <4>1. PICK ip, e : ip = inner.ip /\ e = inner.pending.expiry  OBVIOUS
      <4>2. inner.state = "Probing" => e <= clock + LEASE /\ Covered(ip, e)'
        BY <2>2, <2>3, <4>1 DEF CoverInv, LeaseFits
      <4> QED  BY <2>1, <4>1, <4>2
    <3>3. Asks(inner) /\ Answered => Covered(inner.ip, inner.requested + LEASE)'
      <4>1. PICK ip, e : ip = inner.ip /\ e = inner.requested + LEASE  OBVIOUS
      <4>2. Asks(inner) /\ Answered => Covered(ip, e)'
        BY <2>1, <2>2, <2>3, <4>1 DEF CoverInv, LeaseFits
      <4> QED  BY <2>1, <4>1, <4>2
    <3>4. /\ inner.lease.expiry <= clock + LEASE => inner.lease.expiry <= clock' + LEASE
          /\ inner.pending.expiry <= clock + LEASE => inner.pending.expiry <= clock' + LEASE
      BY <2>1, <2>2
    <3> QED  BY <2>1, <3>1, <3>2, <3>3, <3>4 DEF LeaseFits, Answered
  <2> QED
    BY <2>1, <2>4, <2>5 DEF CoverInv, CallsInOrder, CallsAreOurs, CallsAreHarmless,
                            RepliesFit, Answered, InHand
<1> QED
  BY <1>1, <1>3, <1>4, <1>5, <1>6, <1>7, <1>8, <1>9, <1>10 DEF Next, OwnStep

(* The client never believes its lease to last longer than a server does   *)
(* that granted it.  It counts from when it first asked, in the            *)
(* transaction whose answer it takes (requested_at), so what a server      *)
(* granted since covers it; and messages go out in order, so that by the   *)
(* time an answer is there none of an earlier transaction, which might     *)
(* give the address up or ask for another, has yet to go out.              *)
THEOREM LeaseIsCovered == Spec => []LeaseCovered
<1>1. Init => Typed /\ GrantsTimed /\ CoverInv  BY TypedInit, GrantsInit, CoverInit
<1>2. Typed /\ GrantsTimed /\ CoverInv /\ [Next]_vars => (Typed /\ GrantsTimed /\ CoverInv)'
  BY TypedNext, GrantsNext, CoverNext
<1>3. CoverInv => LeaseCovered  BY DEF CoverInv, LeaseFits, Covered, LeaseCovered
<1> QED  BY <1>1, <1>2, <1>3, PTL DEF Spec
=============================================================================
